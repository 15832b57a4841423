-------------------------------- MODULE Storage --------------------------------
(***************************************************************************)
(* File storage (src/storage.rs) on the local file system.                  *)
(*                                                                          *)
(* Several tasks upload, delete, list and delete whole prefixes at once;    *)
(* each of their file system calls is one step.  A path is the sequence of  *)
(* its components; the storage root is << >>.  What files contain, public   *)
(* URLs and the read-only download and exists are left out.                 *)
(***************************************************************************)
EXTENDS Naturals, Sequences, SequencesExt, FiniteSets

CONSTANTS
    Paths,       \* the paths callers use, and their parents
    Ops,         \* the operations callers use
    Tasks        \* calls that may be under way at once

ASSUME StorageAssumption ==
    /\ << >> \in Paths /\ Paths \subseteq Seq(STRING)
    /\ \A p \in Paths : /\ \A n \in 0 .. Len(p) : SubSeq(p, 1, n) \in Paths
                        /\ \A i \in DOMAIN p : p[i] \notin {".", ".."}
    /\ Ops \subseteq {"upload", "delete", "delete_all", "list"}

\* What a caller may write for them: with "." or ".." in front, and absolute.
Inputs == [absolute : BOOLEAN,
           components : Paths \cup {<<".">> \o p : p \in Paths} \cup {<<"..">> \o p : p \in Paths}]

VARIABLES
    fs,      \* what is at a path: "none", "dir" or "file"
    tasks

vars == <<fs, tasks>>

\* A call.  stack, entries: directories still to read, entries still to visit.
\* result: the paths it will return.  removed and always are history: the files the
\* call removed, and, for the two that walk, the files below its path that were there
\* all the time since it began.
Idle == [pc |-> "idle", op |-> "none", path |-> << >>, stack |-> << >>, entries |-> {},
         result |-> {}, removed |-> {}, always |-> {}]

Init ==
    /\ fs = [p \in Paths |-> IF p = << >> THEN "dir" ELSE "none"]
    /\ tasks = [t \in Tasks |-> Idle]

-----------------------------------------------------------------------------
(* Paths                                                                    *)

Below(dir) == {p \in Paths : IsPrefix(dir, p)}
FilesBelow(tree, dir) == {p \in Below(dir) : tree[p] = "file"}
Children(dir) == {p \in Paths : Len(p) = Len(dir) + 1 /\ IsPrefix(dir, p) /\ fs[p] # "none"}
Parents(p) == {SubSeq(p, 1, n) : n \in 0 .. Len(p) - 1}

\* safe_storage_path: neither absolute nor with a parent component
Safe(input) == ~input.absolute /\ \A i \in DOMAIN input.components : input.components[i] # ".."

\* base.join(path); the file system skips the "." in front
Joined(input) ==
    LET c == input.components IN IF c # << >> /\ Head(c) = "." THEN Tail(c) ELSE c

\* Mutant: any prefix will do, the storage root too.
AnyPrefix(input) == TRUE

\* has_real_component
NamesSomething(input) == \E i \in DOMAIN input.components : input.components[i] # "."

-----------------------------------------------------------------------------
(* Steps                                                                    *)

\* The file system becomes tree, and task t, if it is still under way, becomes q.
\* Every call takes note of the files that come and go.
Becomes(tree, t, q) ==
    /\ fs' = tree
    /\ tasks' = [u \in Tasks |->
         LET v == IF u = t THEN q ELSE tasks[u]
             now == FilesBelow(tree, v.path)
         IN  IF v.op \notin {"list", "delete_all"} \/ tasks[u].pc \in {"done", "failed"} THEN v
             ELSE [v EXCEPT !.always = @ \cap now]]

\* The first call of the file system each operation makes.
First == [upload |-> "mkdir", delete |-> "remove", delete_all |-> "exists", list |-> "exists"]

\* A call begins: its path is checked before anything is touched.
Begin(t) ==
    /\ tasks[t].pc = "idle"
    /\ \E op \in Ops, input \in Inputs :
         /\ Safe(input)
         /\ op = "delete_all" => NamesSomething(input)
         /\ LET path == Joined(input)
                files == IF op \in {"list", "delete_all"} THEN FilesBelow(fs, path) ELSE {} IN
            tasks' = [tasks EXCEPT ![t] = [Idle EXCEPT !.pc = First[op], !.op = op, !.path = path,
                                                       !.always = files]]
    /\ UNCHANGED fs

\* The result is taken, or the caller gives up and the call is dropped.
Finish(t) == tasks[t].pc # "idle" /\ tasks' = [tasks EXCEPT ![t] = Idle] /\ UNCHANGED fs

Fail(t) == Becomes(fs, t, [tasks[t] EXCEPT !.pc = "failed", !.stack = << >>, !.entries = {}])

\* upload: create_dir_all of the parents, which fails on a file in the way ...
CreateDirs(t) ==
    LET q == tasks[t] IN
    /\ q.pc = "mkdir"
    /\ IF \E d \in Parents(q.path) : fs[d] = "file" THEN Fail(t)
       ELSE Becomes([p \in Paths |-> IF p \in Parents(q.path) THEN "dir" ELSE fs[p]], t, [q EXCEPT !.pc = "write"])

\* ... then the file, which fails if its directory is gone or it is one itself.
WriteFile(t) ==
    LET q == tasks[t] IN
    /\ q.pc = "write"
    /\ IF fs[q.path] = "dir" \/ \E d \in Parents(q.path) : fs[d] # "dir" THEN Fail(t)
       ELSE Becomes([fs EXCEPT ![q.path] = "file"], t, [q EXCEPT !.pc = "done"])

\* Mutant: a failure of remove_file is ignored.
RemoveFileAnyway(t) ==
    LET q == tasks[t] IN
    /\ q.pc = "remove"
    /\ Becomes([fs EXCEPT ![q.path] = IF @ = "file" THEN "none" ELSE @], t,
               [q EXCEPT !.pc = "done", !.result = {q.path}, !.removed = {q.path} \cap FilesBelow(fs, q.path)])

\* remove_file, for delete and for a prefix that names one file
RemoveFile(t) ==
    LET q == tasks[t] IN
    /\ q.pc = "remove"
    /\ IF fs[q.path] # "file" THEN Fail(t)
       ELSE Becomes([fs EXCEPT ![q.path] = "none"], t,
                    [q EXCEPT !.pc = "done", !.result = {q.path}, !.removed = {q.path}])

\* delete_all_with_prefix: nothing there, a file, or a directory to walk
StartDeleting(t) ==
    LET q == tasks[t] IN
    /\ q.pc = "exists"
    /\ q.op = "delete_all"
    /\ Becomes(fs, t,
         CASE fs[q.path] = "none" -> [q EXCEPT !.pc = "done"]
           [] fs[q.path] = "file" -> [q EXCEPT !.pc = "remove"]
           [] fs[q.path] = "dir"  -> [q EXCEPT !.pc = "walk", !.stack = <<q.path>>])

\* list: whatever is there is walked as a directory
StartListing(t) ==
    LET q == tasks[t] IN
    /\ q.pc = "exists"
    /\ q.op = "list"
    /\ Becomes(fs, t, IF fs[q.path] = "none" THEN [q EXCEPT !.pc = "done"]
                      ELSE [q EXCEPT !.pc = "walk", !.stack = <<q.path>>])

\* stack.pop() and read_dir, which takes the entries of a small directory at once
\* and fails on what is no directory (any more).
ReadDir(t) ==
    LET q == tasks[t] IN
    /\ q.pc = "walk" /\ q.entries = {} /\ q.stack # << >>
    /\ IF fs[Last(q.stack)] # "dir" THEN Fail(t)
       ELSE Becomes(fs, t, [q EXCEPT !.stack = Front(@), !.entries = Children(Last(q.stack))])

\* Mutant: only the files of the directory itself are visited.
SkipsDirs(q, e) == q.stack

\* A directory is walked later.
Pushed(q, e) == IF fs[e] = "dir" THEN Append(q.stack, e) ELSE q.stack

\* The next entry of list: a file, or what has vanished, is reported.
ListEntry(t) ==
    LET q == tasks[t] IN
    /\ q.pc = "walk" /\ q.op = "list"
    /\ \E e \in q.entries :
         Becomes(fs, t, [q EXCEPT !.entries = @ \ {e}, !.stack = Pushed(q, e),
                                  !.result = IF fs[e] = "dir" THEN @ ELSE @ \cup {e}])

\* The next entry of delete_all_with_prefix: removing what has vanished is an error.
DeleteEntry(t) ==
    LET q == tasks[t] IN
    /\ q.pc = "walk" /\ q.op = "delete_all"
    /\ \E e \in q.entries :
         CASE fs[e] = "dir"  -> Becomes(fs, t, [q EXCEPT !.entries = @ \ {e}, !.stack = Pushed(q, e)])
           [] fs[e] = "file" -> Becomes([fs EXCEPT ![e] = "none"], t,
                                  [q EXCEPT !.entries = @ \ {e}, !.result = @ \cup {e}, !.removed = @ \cup {e}])
           [] fs[e] = "none" -> Fail(t)

EndListing(t) ==
    LET q == tasks[t] IN
    /\ q.pc = "walk" /\ q.op = "list" /\ q.entries = {} /\ q.stack = << >>
    /\ Becomes(fs, t, [q EXCEPT !.pc = "done"])

\* remove_dir_all(prefix).ok(): all that is there by now; it may fail half way,
\* which leaves some files and their directories, and the error is ignored.
RemoveTree(t) ==
    LET q == tasks[t] IN
    /\ q.pc = "walk" /\ q.op = "delete_all" /\ q.entries = {} /\ q.stack = << >>
    /\ \E kept \in SUBSET FilesBelow(fs, q.path) :
         LET gone == {p \in Below(q.path) : \A k \in kept : ~IsPrefix(p, k)} IN
         Becomes([p \in Paths |-> IF p \in gone THEN "none" ELSE fs[p]], t,
                 [q EXCEPT !.pc = "done", !.removed = @ \cup (FilesBelow(fs, q.path) \ kept)])

Next ==
    \E t \in Tasks :
      \/ Begin(t) \/ CreateDirs(t) \/ WriteFile(t) \/ RemoveFile(t)
      \/ StartDeleting(t) \/ DeleteEntry(t) \/ RemoveTree(t)
      \/ StartListing(t) \/ ListEntry(t) \/ EndListing(t)
      \/ ReadDir(t) \/ Finish(t)

Spec == Init /\ [][Next]_vars

-----------------------------------------------------------------------------
(* Properties                                                               *)

\* Type correctness: the file system is a tree of directories with files as
\* leaves, and its root is always there.
TypeOK ==
    /\ fs \in [Paths -> {"none", "dir", "file"}]
    /\ fs[<< >>] = "dir"
    /\ \A p \in Paths : fs[p] # "none" => \A d \in Parents(p) : fs[d] = "dir"

\* A call only removes files below its own path, and reports as deleted no file
\* that it did not remove.
StaysBelow ==
    \A t \in Tasks :
      /\ tasks[t].removed \subseteq Below(tasks[t].path)
      /\ tasks[t].op # "list" => tasks[t].result \subseteq tasks[t].removed

\* When delete_all_with_prefix returns, no file below the prefix is left that was
\* there when it began, whatever is uploaded meanwhile.
PrefixIsGone ==
    \A t \in Tasks : tasks[t].pc = "done" /\ tasks[t].op = "delete_all" => tasks[t].always = {}

\* A deletion takes what its path names and nothing else, whatever runs beside it: the
\* tree stays a tree with its root, what is outside stays, what was inside goes.
DeletesWhatItNames == TypeOK /\ StaysBelow /\ PrefixIsGone

\* list returns every file that was there all the time, whatever comes and goes
\* in the directories it walks through.
ListIsComplete ==
    \A t \in Tasks : tasks[t].pc = "done" /\ tasks[t].op = "list" => tasks[t].always \subseteq tasks[t].result
=============================================================================
