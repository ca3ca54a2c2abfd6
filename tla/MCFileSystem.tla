---------------------------- MODULE MCFileSystem ----------------------------
(* An instance of FileSystem: the root and one level of directories, and     *)
(* paths that go down and up again.                                          *)
EXTENDS FileSystem, TLC

MCDirs == {<<>>} \cup {<<name>> : name \in Name} \cup {<<name, "..">> : name \in Name}

\* The programs are loaded into the root.
MCLoader == <<>>

\* Nothing is claimed of a tree that has suffered: it is not followed.
Sound == torn = "no"

Names == Permutations(Name)
=============================================================================
