---------------------------- MODULE StorageProofs ----------------------------
(***************************************************************************)
(* Proofs about Storage for any tree of paths and any number of calls under *)
(* way at once.  A walk reads directories that other calls change; what     *)
(* carries it to the end is that a file which stays is, at any moment,      *)
(* reported, below an entry still to visit or below a directory still to    *)
(* read.                                                                    *)
(***************************************************************************)
EXTENDS Storage, SequenceTheorems, TLAPS

Task == [pc : {"idle", "mkdir", "write", "remove", "exists", "walk", "done", "failed"},
         op : {"none", "upload", "delete", "delete_all", "list"},
         path : Paths, stack : Seq(Paths), entries : SUBSET Paths,
         result : SUBSET Paths, removed : SUBSET Paths, always : SUBSET Paths]

\* The file system is a tree, and its root is there.
Tree(tree) ==
    /\ tree \in [Paths -> {"none", "dir", "file"}]
    /\ tree[<< >>] = "dir"
    /\ \A p \in Paths : tree[p] # "none" => \A d \in Parents(p) : tree[d] = "dir"

\* A walk has seen file p, or will.
Covers(q, p) ==
    \/ q.op = "list" /\ p \in q.result
    \/ \E e \in q.entries : IsPrefix(e, p)
    \/ \E i \in DOMAIN q.stack : IsPrefix(q.stack[i], p)

\* What a call did, and what it still will, is below its path.
Confined(q) ==
    /\ q.op = "delete_all" => q.path # << >>
    /\ q.removed \subseteq Below(q.path) /\ q.entries \subseteq Below(q.path)
    /\ \A i \in DOMAIN q.stack : q.stack[i] \in Below(q.path)
    /\ q.op # "list" => q.result \subseteq q.removed

\* What is left of the files that were there when a call began.
Faithful(q, tree) ==
    /\ q.op \notin {"list", "delete_all"} => q.always = {}
    /\ q.pc \notin {"done", "failed"} => q.always \subseteq FilesBelow(tree, q.path)
    /\ q.pc \in {"mkdir", "write"} => q.op = "upload"
    /\ q.pc = "remove" => q.op \in {"delete", "delete_all"}
    /\ q.pc \in {"exists", "walk"} => q.op \in {"list", "delete_all"}
    /\ q.pc = "walk" => \A p \in q.always : Covers(q, p)
    /\ q.pc = "done" /\ q.op = "list" => q.always \subseteq q.result
    /\ q.pc = "done" /\ q.op = "delete_all" => q.always = {}

StorageInv ==
    /\ Tree(fs)
    /\ tasks \in [Tasks -> Task]
    /\ \A t \in Tasks : Confined(tasks[t]) /\ Faithful(tasks[t], fs)

-----------------------------------------------------------------------------
(* Paths                                                                    *)

\* IsPrefix, component by component.
LEMMA PrefixIff ==
    ASSUME NEW s \in Seq(STRING), NEW t \in Seq(STRING)
    PROVE  IsPrefix(s, t) <=> Len(s) <= Len(t) /\ \A i \in 1 .. Len(s) : s[i] = t[i]
<1>1. SubSeq(s, 1, Len(s)) = s
  BY SubSeqFull
<1>2. Len(s) \in Nat /\ Len(t) \in Nat
  OBVIOUS
<1>3. CASE Len(s) <= Len(t)
  <2> DEFINE u == SubSeq(t, 1, Len(s))
  <2>1. u \in Seq(STRING) /\ Len(u) = Len(s) /\ \A i \in 1 .. Len(s) : u[i] = t[i]
    BY <1>2, <1>3
  <2> HIDE DEF u
  <2>2. s = u <=> \A i \in 1 .. Len(s) : s[i] = u[i]
    BY <2>1, SeqEqual
  <2> QED
    BY <1>1, <1>3, <2>1, <2>2 DEF IsPrefix, u
<1>4. CASE ~(Len(s) <= Len(t))
  BY <1>4 DEF IsPrefix
<1> QED
  BY <1>3, <1>4

\* The prefixes of a path are ordered as its ancestors are.
LEMMA PrefixOrder ==
    ASSUME NEW s \in Paths, NEW t \in Paths, NEW u \in Paths
    PROVE  /\ IsPrefix(s, s)
           /\ IsPrefix(s, t) /\ IsPrefix(t, u) => IsPrefix(s, u)
           /\ IsPrefix(s, u) /\ IsPrefix(t, u) /\ Len(s) <= Len(t) => IsPrefix(s, t)
           /\ IsPrefix(s, t) => Len(s) <= Len(t)
           /\ IsPrefix(s, t) /\ Len(s) = Len(t) => s = t
           /\ Len(s) \in Nat
<1>1. s \in Seq(STRING) /\ t \in Seq(STRING) /\ u \in Seq(STRING)
  BY StorageAssumption
<1>2. Len(s) \in Nat /\ Len(t) \in Nat /\ Len(u) \in Nat
  BY <1>1
<1>3. IsPrefix(s, s)
  BY <1>1, <1>2, PrefixIff
<1>4. IsPrefix(s, t) /\ IsPrefix(t, u) => IsPrefix(s, u)
  BY <1>1, <1>2, PrefixIff
<1>5. IsPrefix(s, u) /\ IsPrefix(t, u) /\ Len(s) <= Len(t) => IsPrefix(s, t)
  BY <1>1, <1>2, PrefixIff
<1>6. IsPrefix(s, t) => Len(s) <= Len(t)
  BY DEF IsPrefix
<1>7. IsPrefix(s, t) /\ Len(s) = Len(t) => s = t
  BY <1>1, <1>2, PrefixIff, SeqEqual
<1> QED
  BY <1>2, <1>3, <1>4, <1>5, <1>6, <1>7

\* The beginnings of a path are paths.
LEMMA Beginning ==
    ASSUME NEW p \in Paths, NEW n \in 0 .. Len(p)
    PROVE  SubSeq(p, 1, n) \in Paths /\ Len(SubSeq(p, 1, n)) = n /\ IsPrefix(SubSeq(p, 1, n), p)
<1>1. p \in Seq(STRING) /\ SubSeq(p, 1, n) \in Paths /\ SubSeq(p, 1, n) \in Seq(STRING)
  BY StorageAssumption
<1>2. Len(p) \in Nat /\ n \in Nat /\ n <= Len(p)
  BY <1>1
<1> DEFINE u == SubSeq(p, 1, n)
<1>3. Len(u) = n /\ \A i \in 1 .. n : u[i] = p[i]
  BY <1>1, <1>2
<1> HIDE DEF u
<1>4. u \in Seq(STRING)
  BY <1>1 DEF u
<1>5. IsPrefix(u, p)
  BY <1>1, <1>2, <1>3, <1>4, PrefixIff
<1> QED
  BY <1>1, <1>3, <1>5 DEF u

\* The parents of a path are its proper prefixes.
LEMMA ParentIff ==
    ASSUME NEW p \in Paths
    PROVE  /\ Parents(p) \subseteq Paths
           /\ \A d \in Paths : d \in Parents(p) <=> IsPrefix(d, p) /\ d # p
<1>1. p \in Seq(STRING) /\ Len(p) \in Nat
  BY StorageAssumption
<1>2. ASSUME NEW d \in Parents(p)
      PROVE  d \in Paths /\ IsPrefix(d, p) /\ d # p
  <2>1. PICK n \in 0 .. Len(p) - 1 : d = SubSeq(p, 1, n)
    BY DEF Parents
  <2>2. n \in 0 .. Len(p) /\ n # Len(p)
    BY <1>1
  <2>3. d \in Paths /\ Len(d) = n /\ IsPrefix(d, p)
    BY <2>1, <2>2, Beginning
  <2> QED
    BY <2>2, <2>3
<1>3. ASSUME NEW d \in Paths, IsPrefix(d, p), d # p
      PROVE  d \in Parents(p)
  <2>1. Len(d) \in Nat /\ Len(d) <= Len(p) /\ Len(d) # Len(p)
    BY <1>3, PrefixOrder
  <2>2. Len(d) \in 0 .. Len(p) - 1 /\ Len(d) \in 0 .. Len(p)
    BY <1>1, <2>1
  <2> DEFINE u == SubSeq(p, 1, Len(d))
  <2>3. u \in Paths /\ Len(u) = Len(d) /\ IsPrefix(u, p)
    BY <2>2, Beginning
  <2> HIDE DEF u
  <2>4. IsPrefix(d, u)
    BY <1>3, <2>1, <2>3, PrefixOrder
  <2>5. d = u
    BY <2>3, <2>4, PrefixOrder
  <2> QED
    BY <2>2, <2>5 DEF Parents, u
<1> QED
  BY <1>2, <1>3

\* Between a directory and what is below it there is a child of the directory.
LEMMA ChildBetween ==
    ASSUME NEW d \in Paths, NEW p \in Paths, IsPrefix(d, p), d # p
    PROVE  \E e \in Paths : Len(e) = Len(d) + 1 /\ IsPrefix(d, e) /\ IsPrefix(e, p)
<1>1. Len(d) \in Nat /\ Len(p) \in Nat /\ Len(d) <= Len(p) /\ Len(d) # Len(p)
  BY PrefixOrder
<1>2. Len(d) + 1 \in 0 .. Len(p)
  BY <1>1
<1> DEFINE e == SubSeq(p, 1, Len(d) + 1)
<1>3. e \in Paths /\ Len(e) = Len(d) + 1 /\ IsPrefix(e, p)
  BY <1>2, Beginning
<1> HIDE DEF e
<1>4. IsPrefix(d, e)
  BY <1>1, <1>3, PrefixOrder
<1> QED
  BY <1>3, <1>4

-----------------------------------------------------------------------------
(* The file system                                                          *)

\* In a tree, what is above something that is there is a directory.
LEMMA AboveIsDir ==
    ASSUME NEW tree, Tree(tree), NEW d \in Paths, NEW p \in Paths,
           IsPrefix(d, p), tree[p] # "none", d # p
    PROVE  tree[d] = "dir"
  BY ParentIff DEF Tree

\* Making the parents of a path directories, when none of them is a file.
LEMMA DirsKeepTree ==
    ASSUME NEW tree, Tree(tree), NEW path \in Paths, ~\E d \in Parents(path) : tree[d] = "file",
           NEW new, new = [p \in Paths |-> IF p \in Parents(path) THEN "dir" ELSE tree[p]]
    PROVE  Tree(new) /\ \A p \in Paths : new[p] = "file" <=> tree[p] = "file"
<1>1. new \in [Paths -> {"none", "dir", "file"}]
  BY DEF Tree
<1>2. << >> \in Paths
  BY StorageAssumption
<1>3. ASSUME NEW p \in Paths, new[p] # "none", NEW d \in Parents(p)
      PROVE  new[d] = "dir"
  <2>1. d \in Paths /\ IsPrefix(d, p) /\ d # p
    BY ParentIff
  <2>2. CASE p \in Parents(path)
    <3>1. IsPrefix(p, path) /\ p # path
      BY <2>2, ParentIff
    <3>2. IsPrefix(d, path) /\ d # path
      BY <2>1, <3>1, PrefixOrder
    <3> QED
      BY <2>1, <3>2, ParentIff
  <2>3. CASE p \notin Parents(path)
    <3>1. tree[d] = "dir"
      BY <1>3, <2>3 DEF Tree
    <3> QED
      BY <2>1, <3>1
  <2> QED
    BY <2>2, <2>3
<1>4. \A p \in Paths : new[p] = "file" <=> tree[p] = "file"
  OBVIOUS
<1> QED
  BY <1>1, <1>2, <1>3, <1>4 DEF Tree

\* Writing or removing a file.
LEMMA FileKeepsTree ==
    ASSUME NEW tree, Tree(tree), NEW path \in Paths, tree[path] # "dir", NEW what \in {"none", "file"},
           what = "file" => \A d \in Parents(path) : tree[d] = "dir"
    PROVE  Tree([tree EXCEPT ![path] = what])
<1> DEFINE new == [tree EXCEPT ![path] = what]
<1>1. new \in [Paths -> {"none", "dir", "file"}] /\ path # << >> /\ << >> \in Paths
  BY StorageAssumption DEF Tree
<1>2. ASSUME NEW p \in Paths, new[p] # "none", NEW d \in Parents(p)
      PROVE  new[d] = "dir"
  <2>1. d \in Paths /\ tree[d] = "dir"
    BY <1>2, ParentIff DEF Tree
  <2> QED
    BY <2>1 DEF Tree
<1> QED
  BY <1>1, <1>2 DEF Tree

\* Removing what is below a path other than the root, but for some files and the way to them.
LEMMA RemovalKeepsTree ==
    ASSUME NEW tree, Tree(tree), NEW path \in Paths, path # << >>, NEW kept \in SUBSET Paths,
           NEW gone, gone = {p \in Below(path) : \A k \in kept : ~IsPrefix(p, k)}
    PROVE  Tree([p \in Paths |-> IF p \in gone THEN "none" ELSE tree[p]])
<1> DEFINE new == [p \in Paths |-> IF p \in gone THEN "none" ELSE tree[p]]
<1>1. new \in [Paths -> {"none", "dir", "file"}] /\ << >> \in Paths
  BY StorageAssumption DEF Tree
<1>2. << >> \notin gone
  <2>1. path \in Seq(STRING) /\ Len(path) # 0
    BY StorageAssumption, EmptySeq
  <2>2. ~IsPrefix(path, << >>)
    BY <2>1 DEF IsPrefix
  <2> QED
    BY <2>2 DEF Below
<1>3. ASSUME NEW p \in Paths, new[p] # "none", NEW d \in Parents(p)
      PROVE  new[d] = "dir"
  <2>1. d \in Paths /\ IsPrefix(d, p) /\ tree[d] = "dir" /\ p \notin gone
    BY <1>3, ParentIff DEF Tree
  <2>2. d \notin gone
    BY <2>1, PrefixOrder DEF Below
  <2> QED
    BY <2>1, <2>2
<1> QED
  BY <1>1, <1>2, <1>3 DEF Tree

-----------------------------------------------------------------------------
(* One call                                                                 *)

\* What Becomes makes of a call under way.
Noted(q, tree) ==
    IF q.op \notin {"list", "delete_all"} THEN q
    ELSE [q EXCEPT !.always = @ \cap FilesBelow(tree, q.path)]

\* Faithful, before the call takes note of the files that are gone.
Ready(q, tree) ==
    /\ q.op \notin {"list", "delete_all"} => q.always = {}
    /\ q.pc \in {"mkdir", "write"} => q.op = "upload"
    /\ q.pc = "remove" => q.op \in {"delete", "delete_all"}
    /\ q.pc \in {"exists", "walk"} => q.op \in {"list", "delete_all"}
    /\ q.pc = "walk" => \A p \in q.always \cap FilesBelow(tree, q.path) : Covers(q, p)
    /\ q.pc = "done" /\ q.op = "list" => q.always \cap FilesBelow(tree, q.path) \subseteq q.result
    /\ q.pc = "done" /\ q.op = "delete_all" => q.always \cap FilesBelow(tree, q.path) = {}

\* Noting touches nothing but always.
LEMMA NotedTask ==
    ASSUME NEW q \in Task, NEW tree
    PROVE  LET n == Noted(q, tree) IN
           /\ n \in Task /\ n.pc = q.pc /\ n.op = q.op /\ n.path = q.path /\ n.stack = q.stack
           /\ n.entries = q.entries /\ n.result = q.result /\ n.removed = q.removed
           /\ n.always = IF q.op \notin {"list", "delete_all"} THEN q.always
                         ELSE q.always \cap FilesBelow(tree, q.path)
<1> DEFINE A == q.always \cap FilesBelow(tree, q.path)
<1>1. A \in SUBSET Paths
  BY DEF Task
<1> HIDE DEF A
<1>2. LET n == [q EXCEPT !.always = A] IN
      /\ n \in Task /\ n.pc = q.pc /\ n.op = q.op /\ n.path = q.path /\ n.stack = q.stack
      /\ n.entries = q.entries /\ n.result = q.result /\ n.removed = q.removed /\ n.always = A
  BY <1>1 DEF Task
<1> QED
  BY <1>2 DEF Noted, A

\* A call that notes what is gone is faithful.
LEMMA NotedFaithful ==
    ASSUME NEW q \in Task, NEW tree, Confined(q), Ready(q, tree)
    PROVE  Noted(q, tree) \in Task /\ Confined(Noted(q, tree)) /\ Faithful(Noted(q, tree), tree)
<1> DEFINE n == Noted(q, tree)
<1>1. /\ n \in Task /\ n.pc = q.pc /\ n.op = q.op /\ n.path = q.path /\ n.stack = q.stack
      /\ n.entries = q.entries /\ n.result = q.result /\ n.removed = q.removed
      /\ n.always = IF q.op \notin {"list", "delete_all"} THEN q.always
                    ELSE q.always \cap FilesBelow(tree, q.path)
  BY NotedTask
<1>2. n.always \subseteq FilesBelow(tree, q.path) /\ n.always \subseteq q.always
  BY <1>1 DEF Ready
<1> HIDE DEF n
<1>3. Confined(n)
  BY <1>1 DEF Confined
<1>4. \A p : Covers(q, p) <=> Covers(n, p)
  BY <1>1 DEF Covers
<1>5. n.pc = "walk" => \A p \in n.always : Covers(n, p)
  BY <1>1, <1>2, <1>4 DEF Ready
<1>6. Faithful(n, tree)
  BY <1>1, <1>2, <1>5 DEF Ready, Faithful
<1> QED
  BY <1>1, <1>3, <1>6 DEF n

\* What is left to show of a step of call t that turns it into q and the tree into another.
LEMMA BecomesInv ==
    ASSUME StorageInv, NEW t \in Tasks, NEW q \in Task, NEW tree, Tree(tree), Becomes(tree, t, q),
           tasks[t].pc \notin {"done", "failed"}, Confined(q), Ready(q, tree)
    PROVE  StorageInv'
<1>1. fs' = tree
  BY DEF Becomes
<1>2. tasks'[t] = Noted(q, tree) /\ DOMAIN tasks' = Tasks /\ tasks' = [u \in Tasks |-> tasks'[u]]
  BY DEF Becomes, Noted
<1>3. ASSUME NEW u \in Tasks, u # t
      PROVE  tasks'[u] = IF tasks[u].pc \in {"done", "failed"} THEN tasks[u] ELSE Noted(tasks[u], tree)
  BY <1>3 DEF Becomes, Noted
<1>4. ASSUME NEW u \in Tasks
      PROVE  tasks'[u] \in Task /\ Confined(tasks'[u]) /\ Faithful(tasks'[u], tree)
  <2>1. CASE u = t
    BY <1>2, <2>1, NotedFaithful
  <2>2. CASE u # t
    <3> DEFINE v == tasks[u]
    <3>1. v \in Task /\ Confined(v) /\ Faithful(v, fs)
      BY DEF StorageInv
    <3>2. tasks'[u] = IF v.pc \in {"done", "failed"} THEN v ELSE Noted(v, tree)
      BY <1>3, <2>2
    <3> HIDE DEF v
    <3>3. CASE v.pc \in {"done", "failed"}
      BY <3>1, <3>2, <3>3 DEF Faithful
    <3>4. CASE v.pc \notin {"done", "failed"}
      <4>1. Ready(v, tree)
        BY <3>1, <3>4 DEF Ready, Faithful
      <4> QED
        BY <3>1, <3>2, <3>4, <4>1, NotedFaithful
    <3> QED
      BY <3>3, <3>4
  <2> QED
    BY <2>1, <2>2
<1>5. tasks' \in [Tasks -> Task]
  BY <1>2, <1>4
<1> QED
  BY <1>1, <1>4, <1>5 DEF StorageInv

\* What the invariant says of one call.
LEMMA OfTask ==
    ASSUME StorageInv, NEW t \in Tasks
    PROVE  /\ tasks[t] \in Task /\ Confined(tasks[t]) /\ Faithful(tasks[t], fs)
           /\ tasks[t].path \in Paths /\ Tree(fs)
  BY DEF StorageInv, Task

\* A call gives up.
LEMMA FailInv ==
    ASSUME StorageInv, NEW t \in Tasks, tasks[t].pc \notin {"done", "failed"}, Fail(t)
    PROVE  StorageInv'
<1> DEFINE q == tasks[t]
           f == [q EXCEPT !.pc = "failed", !.stack = << >>, !.entries = {}]
<1>1. q \in Task /\ Confined(q) /\ Faithful(q, fs) /\ Tree(fs)
  BY OfTask
<1>2. Becomes(fs, t, f)
  BY DEF Fail
<1> HIDE DEF q
<1>3. << >> \in Seq(Paths)
  OBVIOUS
<1>4. /\ f \in Task /\ f.pc = "failed" /\ f.op = q.op /\ f.path = q.path /\ f.stack = << >>
      /\ f.entries = {} /\ f.result = q.result /\ f.removed = q.removed /\ f.always = q.always
  BY <1>1, <1>3 DEF Task
<1> HIDE DEF f
<1>5. Confined(f) /\ Ready(f, fs)
  BY <1>1, <1>4 DEF Confined, Ready, Faithful
<1> QED
  BY <1>1, <1>2, <1>4, <1>5, BecomesInv

-----------------------------------------------------------------------------
(* The steps                                                                *)

\* An idle call is in order whatever the tree is.
LEMMA IdleSound ==
    ASSUME NEW tree
    PROVE  Idle \in Task /\ Confined(Idle) /\ Faithful(Idle, tree)
<1>1. << >> \in Paths /\ << >> \in Seq(Paths)
  BY StorageAssumption
<1> QED
  BY <1>1 DEF Idle, Task, Confined, Faithful

\* The storage begins with its root and no call under way.
LEMMA InitInv == Init => StorageInv
<1> SUFFICES ASSUME Init PROVE StorageInv
  OBVIOUS
<1>1. << >> \in Paths
  BY StorageAssumption
<1>2. fs \in [Paths -> {"none", "dir", "file"}] /\ fs[<< >>] = "dir"
  BY <1>1 DEF Init
<1>3. ASSUME NEW p \in Paths, fs[p] # "none", NEW d \in Parents(p)
      PROVE  fs[d] = "dir"
  <2>1. p = << >>
    BY <1>3 DEF Init
  <2>2. Parents(p) = {}
    BY <2>1 DEF Parents
  <2> QED
    BY <2>2
<1>4. Tree(fs)
  BY <1>2, <1>3 DEF Tree
<1> QED
  BY <1>4, IdleSound DEF Init, StorageInv

\* safe_storage_path and base.join give a path of the storage, which is not the root
\* when has_real_component says so.
LEMMA JoinedIsPath ==
    ASSUME NEW input \in Inputs, Safe(input)
    PROVE  Joined(input) \in Paths /\ (NamesSomething(input) => Joined(input) # << >>)
<1> DEFINE c == input.components
<1>1. CASE c \in Paths
  <2>1. c \in Seq(STRING) /\ \A i \in DOMAIN c : c[i] # "."
    BY <1>1, StorageAssumption
  <2>2. c # << >> => Head(c) # "."
    BY <2>1
  <2>3. Joined(input) = c
    BY <2>2 DEF Joined
  <2>4. NamesSomething(input) => c # << >>
    BY DEF NamesSomething
  <2> QED
    BY <1>1, <2>3, <2>4
<1>2. ASSUME NEW p \in Paths, NEW first \in {".", ".."}, c = <<first>> \o p
      PROVE  Joined(input) \in Paths /\ (NamesSomething(input) => Joined(input) # << >>)
  <2> DEFINE S == STRING \cup {first}
  <2>1. p \in Seq(S) /\ <<first>> \in Seq(S) /\ Len(<<first>>) = 1 /\ <<first>>[1] = first
    <3>1. p \in Seq(STRING) /\ STRING \subseteq S /\ first \in S
      BY StorageAssumption
    <3> HIDE DEF S
    <3>2. p \in Seq(S)
      BY <3>1, SeqMonotonic
    <3> QED
      BY <3>1, <3>2
  <2> HIDE DEF S
  <2> HIDE DEF c
  <2>2. c \in Seq(S) /\ Len(c) = 1 + Len(p) /\ c[1] = first
    BY <1>2, <2>1
  <2>3. c # << >> /\ 1 \in DOMAIN c /\ Head(c) = first
    BY <2>1, <2>2
  <2>4. first = "."
    BY <2>2, <2>3 DEF Safe, c
  <2>5. Tail(c) = p
    BY <1>2, <2>1
  <2>6. Joined(input) = p
    BY <2>3, <2>4, <2>5 DEF Joined, c
  <2>7. p = << >> => DOMAIN c = {1}
    BY <2>1, <2>2
  <2>8. NamesSomething(input) => p # << >>
    BY <2>2, <2>4, <2>7 DEF NamesSomething, c
  <2> QED
    BY <2>6, <2>8
<1> QED
  BY <1>1, <1>2 DEF Inputs

\* One call changes and the files do not.
LEMMA CallInv ==
    ASSUME StorageInv, NEW t \in Tasks, NEW q \in Task, Confined(q), Faithful(q, fs),
           tasks' = [tasks EXCEPT ![t] = q], fs' = fs
    PROVE  StorageInv'
<1>1. \A u \in Tasks : Confined(tasks'[u]) /\ Faithful(tasks'[u], fs)
  BY DEF StorageInv
<1>2. tasks' \in [Tasks -> Task]
  BY DEF StorageInv
<1> QED
  BY <1>1, <1>2 DEF StorageInv

\* A call begins.
LEMMA BeginInv ==
    ASSUME StorageInv, NEW t \in Tasks, Begin(t)
    PROVE  StorageInv'
<1>1. PICK op \in Ops, input \in Inputs :
        /\ Safe(input)
        /\ op = "delete_all" => NamesSomething(input)
        /\ LET path == Joined(input)
               files == IF op \in {"list", "delete_all"} THEN FilesBelow(fs, path) ELSE {} IN
           tasks' = [tasks EXCEPT ![t] = [Idle EXCEPT !.pc = First[op], !.op = op, !.path = path,
                                                      !.always = files]]
  BY DEF Begin
<1> DEFINE path == Joined(input)
           files == IF op \in {"list", "delete_all"} THEN FilesBelow(fs, path) ELSE {}
           first == First[op]
           q == [Idle EXCEPT !.pc = first, !.op = op, !.path = path, !.always = files]
<1>2. tasks' = [tasks EXCEPT ![t] = q] /\ fs' = fs
  BY <1>1 DEF Begin
<1>3. path \in Paths /\ (op = "delete_all" => path # << >>)
  BY <1>1, JoinedIsPath
<1>4. op \in {"upload", "delete", "delete_all", "list"}
  BY StorageAssumption
<1>5. /\ first \in {"mkdir", "remove", "exists"} /\ (first = "remove" <=> op = "delete")
      /\ (first = "exists" => op \in {"list", "delete_all"}) /\ (first = "mkdir" => op = "upload")
  BY <1>4 DEF First
<1>6. files \in SUBSET Paths /\ files \subseteq FilesBelow(fs, path)
  BY DEF FilesBelow, Below
<1>7. op \notin {"list", "delete_all"} => files = {}
  OBVIOUS
<1> HIDE DEF path, files, first
<1>8. << >> \in Seq(Paths)
  OBVIOUS
<1>9. /\ q \in Task /\ q.pc = first /\ q.op = op /\ q.path = path /\ q.stack = << >> /\ q.entries = {}
      /\ q.result = {} /\ q.removed = {} /\ q.always = files
  BY <1>3, <1>4, <1>5, <1>6, <1>8 DEF Idle, Task
<1> HIDE DEF q
<1>10. Confined(q)
  BY <1>3, <1>9 DEF Confined
<1>11. Faithful(q, fs)
  BY <1>5, <1>6, <1>7, <1>9 DEF Faithful
<1> QED
  BY <1>2, <1>9, <1>10, <1>11, CallInv

\* Its result is taken, or its caller gives up.
LEMMA FinishInv ==
    ASSUME StorageInv, NEW t \in Tasks, Finish(t)
    PROVE  StorageInv'
  BY IdleSound, CallInv DEF Finish

\* A call whose counter moves on without a walk: what the remaining actions of upload share.
LEMMA MoveOn ==
    ASSUME NEW q \in Task, Confined(q), Faithful(q, fs), NEW tree,
           NEW pc \in {"write", "remove", "done"},
           pc = "write" => q.op = "upload", pc = "remove" => q.op = "delete_all",
           pc = "done" => /\ q.op = "list" => q.always \cap FilesBelow(tree, q.path) = {}
                          /\ q.op = "delete_all" => q.always \cap FilesBelow(tree, q.path) = {}
    PROVE  LET n == [q EXCEPT !.pc = pc] IN n \in Task /\ Confined(n) /\ Ready(n, tree)
<1> DEFINE n == [q EXCEPT !.pc = pc]
<1>1. /\ n \in Task /\ n.pc = pc /\ n.op = q.op /\ n.path = q.path /\ n.stack = q.stack
      /\ n.entries = q.entries /\ n.result = q.result /\ n.removed = q.removed /\ n.always = q.always
  BY DEF Task
<1> HIDE DEF n
<1>2. Confined(n)
  BY <1>1 DEF Confined
<1>3. Ready(n, tree)
  BY <1>1 DEF Ready, Faithful
<1> QED
  BY <1>1, <1>2, <1>3 DEF n

\* create_dir_all.
LEMMA CreateDirsInv ==
    ASSUME StorageInv, NEW t \in Tasks, CreateDirs(t)
    PROVE  StorageInv'
<1> DEFINE q == tasks[t]
           tree == [p \in Paths |-> IF p \in Parents(q.path) THEN "dir" ELSE fs[p]]
           n == [q EXCEPT !.pc = "write"]
<1>1. /\ q \in Task /\ Confined(q) /\ Faithful(q, fs) /\ Tree(fs) /\ q.path \in Paths
      /\ q.pc = "mkdir" /\ q.op = "upload"
  BY OfTask DEF CreateDirs, Faithful
<1>2. CASE \E d \in Parents(q.path) : fs[d] = "file"
  BY <1>1, <1>2, FailInv DEF CreateDirs
<1>3. CASE ~\E d \in Parents(q.path) : fs[d] = "file"
  <2>1. Becomes(tree, t, n)
    BY <1>3 DEF CreateDirs
  <2>2. Tree(tree)
    BY <1>1, <1>3, DirsKeepTree
  <2> HIDE DEF tree
  <2>3. n \in Task /\ Confined(n) /\ Ready(n, tree)
    BY <1>1, MoveOn
  <2> HIDE DEF n
  <2> QED
    BY <1>1, <2>1, <2>2, <2>3, BecomesInv
<1> QED
  BY <1>2, <1>3

\* The file of an upload is written.
LEMMA WriteFileInv ==
    ASSUME StorageInv, NEW t \in Tasks, WriteFile(t)
    PROVE  StorageInv'
<1> DEFINE q == tasks[t]
           tree == [fs EXCEPT ![q.path] = "file"]
           n == [q EXCEPT !.pc = "done"]
<1>1. /\ q \in Task /\ Confined(q) /\ Faithful(q, fs) /\ Tree(fs) /\ q.path \in Paths
      /\ q.pc = "write" /\ q.op = "upload"
  BY OfTask DEF WriteFile, Faithful
<1>2. CASE fs[q.path] = "dir" \/ \E d \in Parents(q.path) : fs[d] # "dir"
  BY <1>1, <1>2, FailInv DEF WriteFile
<1>3. CASE ~(fs[q.path] = "dir" \/ \E d \in Parents(q.path) : fs[d] # "dir")
  <2>1. Becomes(tree, t, n)
    BY <1>3 DEF WriteFile
  <2>2. Tree(tree)
    BY <1>1, <1>3, FileKeepsTree
  <2> HIDE DEF tree
  <2>3. n \in Task /\ Confined(n) /\ Ready(n, tree)
    BY <1>1, MoveOn
  <2> HIDE DEF n
  <2> QED
    BY <1>1, <2>1, <2>2, <2>3, BecomesInv
<1> QED
  BY <1>2, <1>3

\* Below nothing there is no file, and below a file only itself.
LEMMA FewFiles ==
    ASSUME NEW tree, Tree(tree), NEW path \in Paths
    PROVE  /\ FilesBelow(tree, path) \subseteq Below(path) /\ Below(path) \subseteq Paths
           /\ path \in Below(path)
           /\ tree[path] = "none" => FilesBelow(tree, path) = {}
           /\ tree[path] = "file" => FilesBelow(tree, path) \subseteq {path}
<1>1. path \in Below(path)
  BY PrefixOrder DEF Below
<1>2. ASSUME NEW p \in FilesBelow(tree, path), p # path
      PROVE  tree[path] = "dir"
  BY <1>2, AboveIsDir DEF FilesBelow, Below
<1> QED
  BY <1>1, <1>2 DEF FilesBelow, Below

\* remove_file.
LEMMA RemoveFileInv ==
    ASSUME StorageInv, NEW t \in Tasks, RemoveFile(t)
    PROVE  StorageInv'
<1> DEFINE q == tasks[t]
           tree == [fs EXCEPT ![q.path] = "none"]
           n == [q EXCEPT !.pc = "done", !.result = {q.path}, !.removed = {q.path}]
<1>1. /\ q \in Task /\ Confined(q) /\ Faithful(q, fs) /\ Tree(fs) /\ q.path \in Paths
      /\ q.pc = "remove" /\ q.op \in {"delete", "delete_all"}
  BY OfTask DEF RemoveFile, Faithful
<1>2. CASE fs[q.path] # "file"
  BY <1>1, <1>2, FailInv DEF RemoveFile
<1>3. CASE fs[q.path] = "file"
  <2>1. Becomes(tree, t, n)
    BY <1>3 DEF RemoveFile
  <2>2. Tree(tree) /\ tree[q.path] = "none"
    BY <1>1, <1>3, FileKeepsTree DEF Tree
  <2> HIDE DEF tree, q
  <2>3. FilesBelow(tree, q.path) = {} /\ {q.path} \subseteq Below(q.path)
    BY <1>1, <2>2, FewFiles
  <2>4. /\ n \in Task /\ n.pc = "done" /\ n.op = q.op /\ n.path = q.path /\ n.stack = q.stack
        /\ n.entries = q.entries /\ n.result = {q.path} /\ n.removed = {q.path} /\ n.always = q.always
    BY <1>1 DEF Task
  <2> HIDE DEF n
  <2>5. Confined(n)
    BY <1>1, <2>3, <2>4 DEF Confined
  <2>6. Ready(n, tree)
    BY <1>1, <2>3, <2>4 DEF Ready, Faithful
  <2> QED
    BY <1>1, <2>1, <2>2, <2>4, <2>5, <2>6, BecomesInv DEF q
<1> QED
  BY <1>2, <1>3

\* A walk starts at the path itself.
LEMMA WalkStarts ==
    ASSUME NEW q \in Task, Confined(q), Faithful(q, fs), q.op \in {"list", "delete_all"}, Tree(fs)
    PROVE  LET n == [q EXCEPT !.pc = "walk", !.stack = <<q.path>>]
           IN  n \in Task /\ Confined(n) /\ Ready(n, fs)
<1> DEFINE path == q.path
           n == [q EXCEPT !.pc = "walk", !.stack = <<path>>]
<1>1. path \in Paths
  BY DEF Task
<1>2. <<path>> \in Seq(Paths) /\ DOMAIN <<path>> = {1} /\ <<path>>[1] = path
  BY <1>1
<1> HIDE DEF path
<1>3. /\ n \in Task /\ n.pc = "walk" /\ n.op = q.op /\ n.path = path /\ n.stack = <<path>>
      /\ n.entries = q.entries /\ n.result = q.result /\ n.removed = q.removed /\ n.always = q.always
  BY <1>2 DEF Task, path
<1> HIDE DEF n
<1>4. path \in Below(path)
  BY <1>1, FewFiles
<1>5. Confined(n)
  BY <1>2, <1>3, <1>4 DEF Confined, path
<1>6. ASSUME NEW p \in FilesBelow(fs, path)
      PROVE  Covers(n, p)
  <2>1. IsPrefix(path, p)
    BY DEF FilesBelow, Below
  <2> QED
    BY <1>2, <1>3, <2>1 DEF Covers
<1>7. Ready(n, fs)
  BY <1>3, <1>6 DEF Ready
<1> QED
  BY <1>3, <1>5, <1>7 DEF n, path

\* delete_all_with_prefix and list look at their path.
LEMMA StartInv ==
    ASSUME StorageInv, NEW t \in Tasks, StartDeleting(t) \/ StartListing(t)
    PROVE  StorageInv'
<1> DEFINE q == tasks[t]
           walk == [q EXCEPT !.pc = "walk", !.stack = <<q.path>>]
           done == [q EXCEPT !.pc = "done"]
           remove == [q EXCEPT !.pc = "remove"]
<1>1. /\ q \in Task /\ Confined(q) /\ Faithful(q, fs) /\ Tree(fs) /\ q.path \in Paths
      /\ q.pc = "exists" /\ q.op \in {"list", "delete_all"}
  BY OfTask DEF StartDeleting, StartListing
<1>2. fs[q.path] \in {"none", "dir", "file"}
  BY <1>1 DEF Tree
<1>3. \/ Becomes(fs, t, walk)
      \/ fs[q.path] = "none" /\ Becomes(fs, t, done)
      \/ q.op = "delete_all" /\ Becomes(fs, t, remove)
  <2>1. CASE StartDeleting(t)
    <3>1. CASE fs[q.path] = "none"
      BY <2>1, <3>1 DEF StartDeleting
    <3>2. CASE fs[q.path] = "file"
      BY <2>1, <3>2 DEF StartDeleting
    <3>3. CASE fs[q.path] = "dir"
      BY <2>1, <3>3 DEF StartDeleting
    <3> QED
      BY <1>2, <3>1, <3>2, <3>3
  <2>2. CASE StartListing(t)
    BY <2>2 DEF StartListing
  <2> QED
    BY <2>1, <2>2
<1> HIDE DEF walk, done, remove
<1>4. CASE Becomes(fs, t, walk)
  <2>1. walk \in Task /\ Confined(walk) /\ Ready(walk, fs)
    BY <1>1, WalkStarts DEF walk
  <2> QED
    BY <1>1, <1>4, <2>1, BecomesInv
<1>5. CASE fs[q.path] = "none" /\ Becomes(fs, t, done)
  <2>1. FilesBelow(fs, q.path) = {}
    BY <1>1, <1>5, FewFiles
  <2>2. done \in Task /\ Confined(done) /\ Ready(done, fs)
    BY <1>1, <2>1, MoveOn DEF done
  <2> QED
    BY <1>1, <1>5, <2>2, BecomesInv
<1>6. CASE q.op = "delete_all" /\ Becomes(fs, t, remove)
  <2>1. remove \in Task /\ Confined(remove) /\ Ready(remove, fs)
    BY <1>1, <1>6, MoveOn DEF remove
  <2> QED
    BY <1>1, <1>6, <2>1, BecomesInv
<1> QED
  BY <1>3, <1>4, <1>5, <1>6

\* The entries of a directory cover what its place on the stack did.
LEMMA ChildrenCover ==
    ASSUME Tree(fs), NEW d \in Paths, fs[d] = "dir", NEW p \in Paths, fs[p] = "file", IsPrefix(d, p)
    PROVE  \E e \in Children(d) : IsPrefix(e, p)
<1>1. d # p
  OBVIOUS
<1>2. PICK e \in Paths : Len(e) = Len(d) + 1 /\ IsPrefix(d, e) /\ IsPrefix(e, p)
  BY <1>1, ChildBetween
<1>3. fs[e] # "none"
  BY <1>2, AboveIsDir
<1> QED
  BY <1>2, <1>3 DEF Children

\* read_dir of the directory on top of the stack.
LEMMA ReadDirInv ==
    ASSUME StorageInv, NEW t \in Tasks, ReadDir(t)
    PROVE  StorageInv'
<1> DEFINE q == tasks[t]
           d == Last(q.stack)
           rest == Front(q.stack)
           kids == Children(d)
           n == [q EXCEPT !.stack = rest, !.entries = kids]
<1>1. /\ q \in Task /\ Confined(q) /\ Faithful(q, fs) /\ Tree(fs) /\ q.path \in Paths
      /\ q.pc = "walk" /\ q.entries = {} /\ q.stack # << >>
  BY OfTask DEF ReadDir
<1>2. CASE fs[d] # "dir"
  BY <1>1, <1>2, FailInv DEF ReadDir
<1>3. CASE fs[d] = "dir"
  <2>1. Becomes(fs, t, n)
    BY <1>3 DEF ReadDir
  <2>2. q.stack \in Seq(Paths) /\ Len(q.stack) \in Nat \ {0}
    BY <1>1, EmptySeq DEF Task
  <2>3. /\ rest \in Seq(Paths) /\ Len(rest) = Len(q.stack) - 1
        /\ \A i \in 1 .. Len(q.stack) - 1 : rest[i] = q.stack[i]
    BY <2>2 DEF Front
  <2>4. d = q.stack[Len(q.stack)] /\ Len(q.stack) \in DOMAIN q.stack /\ d \in Paths
    BY <2>2 DEF Last
  <2>5. d \in Below(q.path)
    BY <1>1, <2>4 DEF Confined
  <2>6. kids \subseteq Below(q.path) /\ kids \subseteq Paths
    <3>1. IsPrefix(q.path, d)
      BY <2>5 DEF Below
    <3> HIDE DEF d, q
    <3> QED
      BY <1>1, <2>4, <3>1, PrefixOrder DEF Children, Below
  <2> HIDE DEF q, d, rest, kids
  <2>7. /\ n \in Task /\ n.pc = "walk" /\ n.op = q.op /\ n.path = q.path /\ n.stack = rest
        /\ n.entries = kids /\ n.result = q.result /\ n.removed = q.removed /\ n.always = q.always
    BY <1>1, <2>3, <2>6 DEF Task
  <2> HIDE DEF n
  <2>8. ASSUME NEW i \in DOMAIN rest
        PROVE  i \in DOMAIN q.stack /\ rest[i] = q.stack[i]
    BY <2>2, <2>3
  <2>9. ASSUME NEW i \in DOMAIN q.stack, i # Len(q.stack)
        PROVE  i \in DOMAIN rest /\ rest[i] = q.stack[i]
    BY <2>2, <2>3, <2>9
  <2>10. Confined(n)
    BY <1>1, <2>6, <2>7, <2>8 DEF Confined
  <2>11. ASSUME NEW p \in q.always \cap FilesBelow(fs, q.path)
         PROVE  Covers(n, p)
    <3>1. p \in Paths /\ fs[p] = "file" /\ Covers(q, p)
      BY <1>1 DEF Faithful, FilesBelow, Below
    <3>2. CASE q.op = "list" /\ p \in q.result
      BY <2>7, <3>2 DEF Covers
    <3>3. CASE \E i \in DOMAIN q.stack : IsPrefix(q.stack[i], p)
      <4>1. PICK i \in DOMAIN q.stack : IsPrefix(q.stack[i], p)
        BY <3>3
      <4>2. CASE i = Len(q.stack)
        <5>1. \E e \in kids : IsPrefix(e, p)
          BY <1>1, <1>3, <2>4, <3>1, <4>1, <4>2, ChildrenCover DEF kids
        <5> QED
          BY <2>7, <5>1 DEF Covers
      <4>3. CASE i # Len(q.stack)
        BY <2>7, <2>9, <4>1, <4>3 DEF Covers
      <4> QED
        BY <4>2, <4>3
    <3> QED
      BY <1>1, <3>1, <3>2, <3>3 DEF Covers
  <2>12. Ready(n, fs)
    BY <1>1, <2>7, <2>11 DEF Ready, Faithful
  <2> QED
    BY <1>1, <2>1, <2>7, <2>10, <2>12, BecomesInv DEF q
<1> QED
  BY <1>2, <1>3

\* A directory that is pushed takes the place of the entry.
LEMMA PushedStack ==
    ASSUME NEW q \in Task, NEW e \in Paths
    PROVE  /\ Pushed(q, e) \in Seq(Paths)
           /\ \A i \in DOMAIN Pushed(q, e) : Pushed(q, e)[i] = e \/ \E j \in DOMAIN q.stack : Pushed(q, e)[i] = q.stack[j]
           /\ \A j \in DOMAIN q.stack : \E i \in DOMAIN Pushed(q, e) : Pushed(q, e)[i] = q.stack[j]
           /\ fs[e] = "dir" => \E i \in DOMAIN Pushed(q, e) : Pushed(q, e)[i] = e
<1> DEFINE s == q.stack
           u == Append(s, e)
<1>1. s \in Seq(Paths)
  BY DEF Task
<1> HIDE DEF s
<1>2. u \in Seq(Paths) /\ Len(u) = Len(s) + 1 /\ u[Len(s) + 1] = e /\ \A i \in 1 .. Len(s) : u[i] = s[i]
  BY <1>1
<1>3. Len(s) \in Nat /\ DOMAIN s = 1 .. Len(s)
  BY <1>1
<1> HIDE DEF u
<1>4. DOMAIN u = 1 .. Len(s) + 1
  BY <1>2
<1>5. \A i \in DOMAIN u : u[i] = e \/ \E j \in DOMAIN s : u[i] = s[j]
  BY <1>2, <1>3, <1>4
<1>6. \A j \in DOMAIN s : \E i \in DOMAIN u : u[i] = s[j]
  BY <1>2, <1>3, <1>4
<1>7. \E i \in DOMAIN u : u[i] = e
  BY <1>2, <1>3, <1>4
<1> QED
  BY <1>1, <1>2, <1>5, <1>6, <1>7 DEF Pushed, s, u

\* A walk that has dealt with one entry: a directory is on the stack, and below
\* anything else there is at most the entry itself.
LEMMA EntryDone ==
    ASSUME NEW q \in Task, Confined(q), Faithful(q, fs), Tree(fs), q.pc = "walk", NEW e \in q.entries,
           NEW n \in Task, NEW tree, \A p \in Paths : tree[p] = "file" => fs[p] = "file",
           n.pc = "walk", n.op = q.op, n.path = q.path, n.always = q.always,
           n.entries = q.entries \ {e}, n.stack = Pushed(q, e), q.result \subseteq n.result,
           fs[e] # "dir" => (q.op = "list" /\ e \in n.result) \/ tree[e] # "file",
           n.removed \subseteq Below(q.path), q.op # "list" => n.result \subseteq n.removed
    PROVE  Confined(n) /\ Ready(n, tree)
<1>1. e \in Paths /\ e \in Below(q.path)
  BY DEF Task, Confined
<1>2. Confined(n)
  <2>1. ASSUME NEW i \in DOMAIN n.stack
        PROVE  n.stack[i] \in Below(q.path)
    <3> DEFINE s == Pushed(q, e)
    <3>1. \A k \in DOMAIN s : s[k] = e \/ \E j \in DOMAIN q.stack : s[k] = q.stack[j]
      BY <1>1, PushedStack
    <3> HIDE DEF s
    <3>2. n.stack = s
      BY DEF s
    <3> QED
      BY <1>1, <3>1, <3>2 DEF Confined
  <2> QED
    BY <2>1 DEF Confined
<1>3. ASSUME NEW p \in q.always \cap FilesBelow(tree, q.path)
      PROVE  Covers(n, p)
  <2>1. p \in Paths /\ tree[p] = "file" /\ fs[p] = "file" /\ Covers(q, p)
    BY DEF Faithful, FilesBelow, Below
  <2>2. CASE q.op = "list" /\ p \in q.result
    BY <2>2 DEF Covers
  <2>3. CASE \E i \in DOMAIN q.stack : IsPrefix(q.stack[i], p)
    BY <1>1, <2>3, PushedStack DEF Covers
  <2>4. CASE IsPrefix(e, p)
    <3>1. CASE fs[e] = "dir"
      BY <1>1, <2>4, <3>1, PushedStack DEF Covers
    <3>2. CASE fs[e] # "dir"
      <4>1. e = p
        BY <1>1, <2>1, <2>4, <3>2, AboveIsDir
      <4> QED
        BY <2>1, <3>2, <4>1 DEF Covers
    <3> QED
      BY <3>1, <3>2
  <2>5. CASE \E f \in q.entries \ {e} : IsPrefix(f, p)
    BY <2>5 DEF Covers
  <2> QED
    BY <2>1, <2>2, <2>3, <2>4, <2>5 DEF Covers
<1>4. Ready(n, tree)
  BY <1>3 DEF Ready, Faithful
<1> QED
  BY <1>2, <1>4

\* list visits an entry.
LEMMA ListEntryInv ==
    ASSUME StorageInv, NEW t \in Tasks, ListEntry(t)
    PROVE  StorageInv'
<1> DEFINE q == tasks[t]
<1>1. /\ q \in Task /\ Confined(q) /\ Faithful(q, fs) /\ Tree(fs) /\ q.path \in Paths
      /\ q.pc = "walk" /\ q.op = "list"
  BY OfTask DEF ListEntry
<1>2. PICK e \in q.entries :
        Becomes(fs, t, [q EXCEPT !.entries = @ \ {e}, !.stack = Pushed(q, e),
                                 !.result = IF fs[e] = "dir" THEN @ ELSE @ \cup {e}])
  BY DEF ListEntry
<1> DEFINE stack == Pushed(q, e)
           result == IF fs[e] = "dir" THEN q.result ELSE q.result \cup {e}
           entries == q.entries \ {e}
           n == [q EXCEPT !.entries = entries, !.stack = stack, !.result = result]
<1>3. Becomes(fs, t, n)
  BY <1>2
<1> HIDE DEF q
<1>4. e \in Paths /\ result \in SUBSET Paths /\ entries \in SUBSET Paths
  BY <1>1 DEF Task
<1>5. stack \in Seq(Paths)
  BY <1>1, <1>4, PushedStack
<1>6. q.result \subseteq result /\ (fs[e] # "dir" => e \in result)
  OBVIOUS
<1> HIDE DEF stack, result, entries
<1>7. /\ n \in Task /\ n.pc = q.pc /\ n.op = q.op /\ n.path = q.path /\ n.stack = stack
      /\ n.entries = entries /\ n.result = result /\ n.removed = q.removed /\ n.always = q.always
  BY <1>1, <1>4, <1>5 DEF Task
<1> HIDE DEF n
<1>8. n.removed \subseteq Below(q.path)
  BY <1>1, <1>7 DEF Confined
<1>9. Confined(n) /\ Ready(n, fs)
  BY <1>1, <1>6, <1>7, <1>8, EntryDone DEF stack, entries
<1> QED
  BY <1>1, <1>3, <1>7, <1>9, BecomesInv DEF q

\* delete_all_with_prefix visits an entry.
LEMMA DeleteEntryInv ==
    ASSUME StorageInv, NEW t \in Tasks, DeleteEntry(t)
    PROVE  StorageInv'
<1> DEFINE q == tasks[t]
<1>1. /\ q \in Task /\ Confined(q) /\ Faithful(q, fs) /\ Tree(fs) /\ q.path \in Paths
      /\ q.pc = "walk" /\ q.op = "delete_all"
  BY OfTask DEF DeleteEntry
<1>2. PICK e \in q.entries :
         CASE fs[e] = "dir"  -> Becomes(fs, t, [q EXCEPT !.entries = @ \ {e}, !.stack = Pushed(q, e)])
           [] fs[e] = "file" -> Becomes([fs EXCEPT ![e] = "none"], t,
                                  [q EXCEPT !.entries = @ \ {e}, !.result = @ \cup {e}, !.removed = @ \cup {e}])
           [] fs[e] = "none" -> Fail(t)
  BY DEF DeleteEntry
<1> DEFINE entries == q.entries \ {e}
<1>3. e \in Paths /\ e \in Below(q.path) /\ entries \in SUBSET Paths
  BY <1>1 DEF Task, Confined
<1>4. fs[e] \in {"none", "dir", "file"}
  BY <1>1, <1>3 DEF Tree
<1>5. q.removed \subseteq Below(q.path) /\ q.result \subseteq q.removed
  BY <1>1 DEF Confined
<1>6. CASE fs[e] = "none"
  <2>1. Fail(t)
    BY <1>2, <1>6
  <2> QED
    BY <1>1, <2>1, FailInv
<1>7. CASE fs[e] = "dir"
  <2> DEFINE stack == Pushed(q, e)
             n == [q EXCEPT !.entries = entries, !.stack = stack]
  <2>1. Becomes(fs, t, n)
    BY <1>2, <1>7
  <2>2. stack \in Seq(Paths)
    BY <1>1, <1>3, PushedStack
  <2> HIDE DEF q, entries, stack
  <2>3. /\ n \in Task /\ n.pc = q.pc /\ n.op = q.op /\ n.path = q.path /\ n.stack = stack
        /\ n.entries = entries /\ n.result = q.result /\ n.removed = q.removed /\ n.always = q.always
    BY <1>1, <1>3, <2>2 DEF Task
  <2> HIDE DEF n
  <2>4. Confined(n) /\ Ready(n, fs)
    BY <1>1, <1>5, <1>7, <2>3, EntryDone DEF stack, entries
  <2> QED
    BY <1>1, <2>1, <2>3, <2>4, BecomesInv DEF q
<1>8. CASE fs[e] = "file"
  <2> DEFINE tree == [fs EXCEPT ![e] = "none"]
             result == q.result \cup {e}
             removed == q.removed \cup {e}
             n == [q EXCEPT !.entries = entries, !.result = result, !.removed = removed]
  <2>1. Becomes(tree, t, n)
    BY <1>2, <1>8
  <2>2. Tree(tree)
    BY <1>1, <1>3, <1>8, FileKeepsTree
  <2>3. (\A p \in Paths : tree[p] = "file" => fs[p] = "file") /\ tree[e] # "file"
    BY <1>1, <1>3 DEF Tree
  <2>4. result \in SUBSET Paths /\ removed \in SUBSET Paths
    BY <1>1, <1>3 DEF Task
  <2>5. removed \subseteq Below(q.path) /\ result \subseteq removed /\ q.result \subseteq result
    BY <1>3, <1>5
  <2>6. Pushed(q, e) = q.stack
    BY <1>8 DEF Pushed
  <2> HIDE DEF q, entries, tree, result, removed
  <2>7. /\ n \in Task /\ n.pc = q.pc /\ n.op = q.op /\ n.path = q.path /\ n.stack = q.stack
        /\ n.entries = entries /\ n.result = result /\ n.removed = removed /\ n.always = q.always
    BY <1>1, <1>3, <2>4 DEF Task
  <2> HIDE DEF n
  <2>8. Confined(n) /\ Ready(n, tree)
    BY <1>1, <2>3, <2>5, <2>6, <2>7, EntryDone DEF entries
  <2> QED
    BY <1>1, <2>1, <2>2, <2>7, <2>8, BecomesInv DEF q
<1> QED
  BY <1>4, <1>6, <1>7, <1>8

\* When nothing is left to visit, the walk has seen all that stayed.
LEMMA WalkOver ==
    ASSUME NEW q \in Task, Faithful(q, fs), q.pc = "walk", q.entries = {}, q.stack = << >>,
           NEW p \in q.always
    PROVE  q.op = "list" /\ p \in q.result
<1>1. DOMAIN q.stack = {}
  BY DEF Task
<1> QED
  BY <1>1 DEF Faithful, Covers

\* list returns.
LEMMA EndListingInv ==
    ASSUME StorageInv, NEW t \in Tasks, EndListing(t)
    PROVE  StorageInv'
<1> DEFINE q == tasks[t]
           n == [q EXCEPT !.pc = "done"]
<1>1. /\ q \in Task /\ Confined(q) /\ Faithful(q, fs) /\ Tree(fs)
      /\ q.pc = "walk" /\ q.op = "list" /\ q.entries = {} /\ q.stack = << >>
  BY OfTask DEF EndListing
<1>2. Becomes(fs, t, n)
  BY DEF EndListing
<1>3. q.always \subseteq q.result
  BY <1>1, WalkOver
<1> HIDE DEF q
<1>4. /\ n \in Task /\ n.pc = "done" /\ n.op = q.op /\ n.path = q.path /\ n.stack = q.stack
      /\ n.entries = q.entries /\ n.result = q.result /\ n.removed = q.removed /\ n.always = q.always
  BY <1>1 DEF Task
<1> HIDE DEF n
<1>5. Confined(n) /\ Ready(n, fs)
  BY <1>1, <1>3, <1>4 DEF Confined, Ready
<1> QED
  BY <1>1, <1>2, <1>4, <1>5, BecomesInv DEF q

\* remove_dir_all, which may fail half way.
LEMMA RemoveTreeInv ==
    ASSUME StorageInv, NEW t \in Tasks, RemoveTree(t)
    PROVE  StorageInv'
<1> DEFINE q == tasks[t]
<1>1. /\ q \in Task /\ Confined(q) /\ Faithful(q, fs) /\ Tree(fs) /\ q.path \in Paths
      /\ q.pc = "walk" /\ q.op = "delete_all" /\ q.entries = {} /\ q.stack = << >>
  BY OfTask DEF RemoveTree
<1>2. PICK kept \in SUBSET FilesBelow(fs, q.path) :
         LET gone == {p \in Below(q.path) : \A k \in kept : ~IsPrefix(p, k)} IN
         Becomes([p \in Paths |-> IF p \in gone THEN "none" ELSE fs[p]], t,
                 [q EXCEPT !.pc = "done", !.removed = @ \cup (FilesBelow(fs, q.path) \ kept)])
  BY DEF RemoveTree
<1> DEFINE gone == {p \in Below(q.path) : \A k \in kept : ~IsPrefix(p, k)}
           tree == [p \in Paths |-> IF p \in gone THEN "none" ELSE fs[p]]
           removed == q.removed \cup (FilesBelow(fs, q.path) \ kept)
           n == [q EXCEPT !.pc = "done", !.removed = removed]
<1>3. Becomes(tree, t, n)
  BY <1>2
<1>4. FilesBelow(fs, q.path) \subseteq Below(q.path) /\ Below(q.path) \subseteq Paths
  BY <1>1, FewFiles
<1>5. Tree(tree)
  <2>1. kept \in SUBSET Paths /\ q.path # << >>
    BY <1>1, <1>4 DEF Confined
  <2> HIDE DEF gone
  <2>2. gone = {p \in Below(q.path) : \A k \in kept : ~IsPrefix(p, k)}
    BY DEF gone
  <2> QED
    BY <1>1, <2>1, <2>2, RemovalKeepsTree
<1>6. q.always = {}
  BY <1>1, WalkOver
<1>7. removed \in SUBSET Paths /\ removed \subseteq Below(q.path) /\ q.result \subseteq removed
  BY <1>1, <1>4 DEF Confined
<1> HIDE DEF q, gone, tree, removed
<1>8. /\ n \in Task /\ n.pc = "done" /\ n.op = q.op /\ n.path = q.path /\ n.stack = q.stack
      /\ n.entries = q.entries /\ n.result = q.result /\ n.removed = removed /\ n.always = q.always
  BY <1>1, <1>7 DEF Task
<1> HIDE DEF n
<1>9. Confined(n) /\ Ready(n, tree)
  BY <1>1, <1>6, <1>7, <1>8 DEF Confined, Ready
<1> QED
  BY <1>1, <1>3, <1>5, <1>8, <1>9, BecomesInv DEF q

\* Every step keeps the invariant.
LEMMA StepInv == StorageInv /\ [Next]_vars => StorageInv'
<1> SUFFICES ASSUME StorageInv, [Next]_vars PROVE StorageInv'
  OBVIOUS
<1>1. CASE Next
  BY <1>1, BeginInv, CreateDirsInv, WriteFileInv, RemoveFileInv, StartInv, DeleteEntryInv, RemoveTreeInv,
     ListEntryInv, EndListingInv, ReadDirInv, FinishInv DEF Next
<1>2. CASE UNCHANGED vars
  BY <1>2 DEF vars, StorageInv
<1> QED
  BY <1>1, <1>2

\* The invariant of the storage, for any tree of paths and any number of calls.
THEOREM StorageSound == Spec => []StorageInv
  BY InitInv, StepInv, PTL DEF Spec

\* delete and delete_all_with_prefix take what their path names and nothing else, whatever
\* is uploaded, deleted or listed beside them, and the tree stays a tree with its root.
THEOREM DeletionIsExact == Spec => []DeletesWhatItNames
<1>1. StorageInv => DeletesWhatItNames
  <2> SUFFICES ASSUME StorageInv PROVE DeletesWhatItNames
    OBVIOUS
  <2>1. TypeOK
    BY DEF StorageInv, Tree, TypeOK
  <2>2. StaysBelow /\ PrefixIsGone
    BY DEF StorageInv, Confined, Faithful, StaysBelow, PrefixIsGone
  <2> QED
    BY <2>1, <2>2 DEF DeletesWhatItNames
<1> QED
  BY <1>1, StorageSound, PTL

\* list returns every file that was there all the time, however its directories change
\* while it walks through them.
THEOREM ListingIsComplete == Spec => []ListIsComplete
<1>1. StorageInv => ListIsComplete
  BY DEF StorageInv, Faithful, ListIsComplete
<1> QED
  BY <1>1, StorageSound, PTL
=============================================================================
