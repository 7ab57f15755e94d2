------------------------------ MODULE NameTree ------------------------------
(***************************************************************************)
(* What the directory operations of fsx600 promise: a tree of named links. *)
(* A link says that directory `dir` holds `node` under `name`.  Operations *)
(* that fail are stuttering steps.                                         *)
(***************************************************************************)
EXTENDS Integers

CONSTANTS Nodes,   \* what a link may lead to
          Names,   \* what it may be called
          Root

VARIABLE links

Link == [dir : Nodes, name : Names, node : Nodes, isDir : BOOLEAN]

IsDirectory(d)   == d = Root \/ \E l \in links : l.node = d /\ l.isDir
Taken(d, name)   == \E l \in links : l.dir = d /\ l.name = name
InUse(n)         == n = Root \/ \E l \in links : l.node = n
HasChildren(n)   == \E l \in links : l.dir = n

(* A file system starts with some tree: directories that are in it, and    *)
(* one link to a node and to a name in a directory.                        *)
Init ==
    /\ \A l \in links : IsDirectory(l.dir) /\ l.node # Root
    /\ \A l, m \in links :
          l.node = m.node \/ (l.dir = m.dir /\ l.name = m.name) => l = m

(* A new link has a directory of the tree, a name nothing in it has, and a *)
(* node that is nowhere else in the tree.                                  *)
Create(d, name, n, isDir) ==
    /\ IsDirectory(d) /\ ~Taken(d, name) /\ ~InUse(n)
    /\ links' = links \cup {[dir |-> d, name |-> name, node |-> n, isDir |-> isDir]}

(* Only a node without children is removed, and one link goes with it.     *)
Remove(l) ==
    /\ ~HasChildren(l.node)
    /\ links' = links \ {l}

(* Renaming replaces the name of one link by a free one, in place.         *)
Rename(l, name) ==
    /\ ~Taken(l.dir, name)
    /\ links' = (links \ {l}) \cup {[l EXCEPT !.name = name]}

Next ==
    \/ \E d, n \in Nodes, name \in Names, isDir \in BOOLEAN : Create(d, name, n, isDir)
    \/ \E l \in links : Remove(l)
    \/ \E l \in links, name \in Names : Rename(l, name)

Spec == Init /\ [][Next]_links

=============================================================================
