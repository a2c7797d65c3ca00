--------------------------------- MODULE Vfs ---------------------------------
(* What a file system promises its users: a tree of directories and files that   *)
(* every call changes in one step, to what that call asks for, or leaves alone   *)
(* when it fails. A power failure loses nothing that a finished call did; of the *)
(* call it interrupts it leaves all or nothing, except that data overwritten in  *)
(* place may be there in part.                                                   *)
EXTENDS Integers, FiniteSets, TLC

CONSTANTS Inodes, Names, Values, Root,
          MaxSize   \* bound: file size

VARIABLES tree,   \* inode -> [type, ents: {<<name, inode>>}, data: 0..n-1 -> value]
          down,   \* the power has failed and the file system is not mounted again
          call    \* <<name, arguments...>> of the call made last, if it was interrupted or
                  \* succeeded; Idle after one that failed, and after anything else

vars == <<tree, down, call>>

Idle == <<"none">>

NoData == [u \in {} |-> 0]
New(type) == [type |-> type, ents |-> {}, data |-> NoData]
Dirs == {d \in DOMAIN tree : tree[d].type = "dir"}
Free(d, n) == ~\E e \in tree[d].ents : e[1] = n
Refs(t, i) == {<<d, e>> \in (DOMAIN t) \X (Names \X {i}) : e \in t[d].ents}

\* An inode goes with its last name.
Prune(t, i) == IF Refs(t, i) # {} THEN t ELSE [j \in DOMAIN t \ {i} |-> t[j]]

\* The inode is made with its name and what it holds, under a number that was free.
Make(d, n, inode) ==
    /\ Free(d, n)
    /\ \E i \in DOMAIN tree' \ DOMAIN tree :
        /\ i \in Inodes
        /\ tree' = (i :> inode) @@ [tree EXCEPT ![d].ents = @ \cup {<<n, i>>}]

Link(i, d, n) ==
    /\ Free(d, n) /\ tree[i].type # "dir"
    /\ tree' = [tree EXCEPT ![d].ents = @ \cup {<<n, i>>}]

Remove(d, n) ==
    \E e \in tree[d].ents :
        /\ e[1] = n /\ tree[e[2]].ents = {}
        /\ tree' = Prune([tree EXCEPT ![d].ents = @ \ {e}], e[2])

\* What the new name stood for goes; the renamed inode keeps its contents.
Rename(d1, n1, d2, n2) ==
    \E e \in tree[d1].ents :
        LET old == {f \in tree[d2].ents : f[1] = n2}
            moved == [[tree EXCEPT ![d1].ents = @ \ {e}] EXCEPT
                        ![d2].ents = (@ \ old) \cup {<<n2, e[2]>>}]
        IN /\ e[1] = n1 /\ \A f \in old : tree[f[2]].ents = {}
           /\ IF old = {} THEN tree' = moved
              ELSE \E f \in old : tree' = Prune(moved, f[2])

Size(i) == Cardinality(DOMAIN tree[i].data)
Longer(n, m) == IF n < m THEN m ELSE n
Resized(i, n) == [u \in 0..(n - 1) |-> IF u < Size(i) THEN tree[i].data[u] ELSE 0]
Resize(i, n) ==
    tree' = IF i \in DOMAIN tree THEN [tree EXCEPT ![i].data = Resized(i, n)] ELSE tree

\* The value goes to S, within the size n.
Store(i, S, v, n) ==
    tree' = IF i \notin DOMAIN tree THEN tree
            ELSE [tree EXCEPT ![i].data =
                      [u \in 0..(n - 1) |-> IF u \in S THEN v ELSE Resized(i, n)[u]]]

\* What the call c does to the tree when it succeeds. What is written to a file that was
\* unlinked while open is not in the tree.
Done(c) ==
    CASE c[1] = "create" -> Make(c[2], c[3], New("file"))
      [] c[1] = "mknod" -> Make(c[2], c[3], New("special"))
      [] c[1] = "mkdir" -> Make(c[2], c[3], New("dir"))
      [] c[1] = "symlink" -> Make(c[2], c[3], [New("symlink") EXCEPT !.data = 0 :> c[4]])
      [] c[1] = "link" -> Link(c[2], c[3], c[4])
      [] c[1] \in {"unlink", "rmdir"} -> Remove(c[2], c[3])
      [] c[1] = "rename" -> Rename(c[2], c[3], c[4], c[5])
      [] c[1] = "write" -> Store(c[2], c[3]..(c[4] - 1), c[5], Longer(c[4], Size(c[2])))
      [] c[1] = "fallocate" -> Resize(c[2], Longer(c[3], Size(c[2])))
      [] c[1] = "truncate" -> Resize(c[2], c[3])
      [] OTHER -> tree' = tree

\* Of an interrupted write some of the data that was already there is new.
Torn(c) ==
    /\ c[1] = "write" /\ c[2] \in DOMAIN tree
    /\ \E S \in SUBSET ((c[3]..(c[4] - 1)) \cap DOMAIN tree[c[2]].data) :
          Store(c[2], S, c[5], Size(c[2]))

Calls == ~down /\ ~down' /\ Done(call')
Fail == ~down /\ down' /\ tree' = tree
RecoverWhole == down /\ ~down' /\ (tree' = tree \/ Done(call))
Recover == RecoverWhole \/ (down /\ ~down' /\ Torn(call))

Init == /\ ~down /\ call = Idle /\ Root \in DOMAIN tree /\ tree[Root].type = "dir"
        /\ \A d \in Dirs : \A e \in tree[d].ents : e[2] \in DOMAIN tree \ {Root}
Next == Calls \/ Fail \/ Recover
Spec == Init /\ [][Next]_vars
==============================================================================
