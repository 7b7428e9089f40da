----------------------------- MODULE GroupFiles -----------------------------
(***************************************************************************)
(* group_files(): copy_files() and delete_files() split their list of      *)
(* files into groups, each a directory with the paths below it, and give   *)
(* every group to a job as --files-from.  A directory is the sequence of   *)
(* its names below the remote; each holds one file of the list at most.    *)
(***************************************************************************)
EXTENDS Integers, Sequences, FiniteSets, SequencesExt

CONSTANT Homes \* the directories the files of a list may be in

ASSUME HomesAssumption == \A d \in Homes : d \in Seq(Nat)

VARIABLES
  listing, \* the directories of the files listed
  groups   \* the groups made of them: [dir, path] of each file

groupVars == <<listing, groups>>

Pending == {[dir |-> <<>>, path |-> <<>>]} \* not grouped yet

\* The file in a directory, by its name 0.
PathOf(d) == Append(d, 0)

Above(d) == {SubSeq(d, 1, i) : i \in 0 .. Len(d)}
Nodes    == UNION {Above(d) : d \in listing}

\* _make_tree puts a file at every node named as its last directory.
Held(node) ==
  {d \in listing : IF d = <<>> THEN node = <<>>
                   ELSE node # <<>> /\ node \in Above(d) /\ Last(node) = Last(d)}

ChildNodes(node) == {e \in Nodes : e # <<>> /\ Front(e) = node}

\* _merge makes a group of the first node that has files or many children.
Merges(node)  == Held(node) # {} \/ Cardinality(ChildNodes(node)) > 2
IsGroup(node) == Merges(node) /\ \A e \in Above(node) \ {node} : ~Merges(e)

\* Mutant: the paths are those below the remote.
SubpathFromRoot(node, e) == IF e = node THEN <<0>> ELSE PathOf(e)

\* TreeNode.get_child_subpaths: the path of a file below the group, of which
\* each level keeps only its own name and not the ones it was called with.
Subpath(node, e) == IF e = node THEN <<0>> ELSE <<Last(e), 0>>

GroupInit == listing \in SUBSET Homes \ {{}} /\ groups = Pending

Group ==
  /\ groups = Pending
  /\ groups' = UNION {{[dir |-> node, path |-> Subpath(node, e)] :
                         e \in {n \in Nodes : IsPrefix(node, n) /\ Held(n) # {}}} :
                      node \in {n \in Nodes : IsGroup(n)}}
  /\ UNCHANGED listing

GroupTypeOK ==
  listing \subseteq Homes /\ \A g \in groups : g.dir \in Seq(Nat) /\ g.path \in Seq(Nat)

Named == {g.dir \o g.path : g \in groups}

(* What the docstring says: the list is split between filename and parent    *)
(* directory path.  The groups then name the files listed, and no other.     *)
GroupsNameTheFiles == groups # Pending => Named = {PathOf(d) : d \in listing}

\* The lists the tests have: no directory under one of its own name, and no
\* file more than a directory below its group.
Shallow ==
  /\ \A d \in listing : \A i, j \in DOMAIN d : i # j => d[i] # d[j]
  /\ \A node \in Nodes : IsGroup(node) => \A d \in listing : IsPrefix(node, d) => Len(d) <= Len(node) + 1

(* Of such lists it is true.                                                 *)
ShallowGroupsAreTrue == Shallow => GroupsNameTheFiles
=============================================================================
