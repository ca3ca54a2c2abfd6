------------------------------- MODULE Curdir --------------------------------
(***************************************************************************)
(* utilities/curdir.c and dir_change: the current directory of a task.     *)
(*                                                                         *)
(* A path is the sequence of its components, as the slots of dir_ hold     *)
(* them; the first one is the root.  A directory that is not set is <<>>.  *)
(***************************************************************************)
EXTENDS Integers, Sequences, SequencesExt

CONSTANTS MAX_OPEN_DIR,   \* components that dir_ has room for
          Dir,            \* the paths of the directories of the tree
          File            \* the paths of its files

RootPath == <<"/">>

ASSUME CurdirAssumption ==
  /\ MAX_OPEN_DIR \in Nat \ {0} /\ RootPath \in Dir /\ Dir \cap File = {}
  /\ \A path \in Dir \cup File :
       path \in Seq(Range(path)) /\ path # <<>> /\ Head(path) = Head(RootPath)
  \* The directories are a tree.
  /\ \A path \in Dir : \A n \in 1..Len(path) : SubSeq(path, 1, n) \in Dir

curdir_init == <<>>

\* What has no room is left out, and dir_change does not look at the result.
curdir_set(path) == IF Len(path) <= MAX_OPEN_DIR THEN path ELSE SubSeq(path, 1, MAX_OPEN_DIR)

\* The parent of the root is the root.
get_parent_child_filename(path) == IF Len(path) > 1 THEN Front(path) ELSE path

\* What cd may be given: nothing, ".", "..", an absolute path or a name.
Operand ==
  [kind : {"null", "cur", "pre"}] \cup [kind : {"abs"}, path : Dir \cup File]
    \cup [kind : {"rel"}, name : {Last(path) : path \in Dir \cup File}]

AbsolutePath(cwd, dir) ==
  CASE dir.kind = "null" -> RootPath
    [] dir.kind = "abs"  -> dir.path
    [] dir.kind = "pre"  -> get_parent_child_filename(cwd)
    [] dir.kind = "rel"  -> Append(cwd, dir.name)
    [] dir.kind = "cur"  -> cwd

\* A slip: the type of what is found is not looked at.
Changes_Untyped(cwd, dir) == dir.kind # "cur" /\ AbsolutePath(cwd, dir) \in Dir \cup File

\* diritem_find finds a directory; a file is -2 and nothing is -1.
Changes(cwd, dir) == dir.kind # "cur" /\ AbsolutePath(cwd, dir) \in Dir
=============================================================================
