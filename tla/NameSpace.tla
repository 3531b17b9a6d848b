----------------------------- MODULE NameSpace -----------------------------
(***************************************************************************)
(* What the directory tree of one mounted VTFS promises: a set of names    *)
(* in directories, each naming a file or a directory.  A file may have     *)
(* several names; a step adds one name or removes one name, and only       *)
(* unmounting takes several away at once.                                  *)
(***************************************************************************)
EXTENDS Naturals

CONSTANTS RootIno,    \* inode number of the root directory
          Inos,       \* the other inode numbers
          Names       \* the names an entry can have

VARIABLES names,      \* <<directory, name>> |-> inode number, for each name
          dirs        \* the inode numbers that are directories, the root apart

nsVars == <<names, dirs>>

Used == {names[k] : k \in DOMAIN names}

NSInit == names = <<>> /\ dirs = {}

Bind(k, x) == names' = [l \in DOMAIN names \cup {k} |-> IF l = k THEN x ELSE names[l]]

\* A new file or directory: an inode number that nothing names yet.
NSMake(k, x, isDir) ==
  /\ k[1] \in dirs \cup {RootIno}
  /\ k \notin DOMAIN names
  /\ x \notin Used
  /\ Bind(k, x)
  /\ dirs' = IF isDir THEN dirs \cup {x} ELSE dirs

\* One more name for a file that has one.
NSLink(k, x) ==
  /\ k[1] \in dirs \cup {RootIno}
  /\ k \notin DOMAIN names
  /\ x \in Used \ dirs
  /\ Bind(k, x)
  /\ UNCHANGED dirs

\* One name goes, and every other name still means what it meant.  The name
\* of a directory goes only when nothing is left in the directory.
NSRemove(k) ==
  /\ k \in DOMAIN names
  /\ \A l \in DOMAIN names : names[k] \in dirs => l[1] # names[k]
  /\ names' = [l \in DOMAIN names \ {k} |-> names[l]]
  /\ dirs' = dirs \ {names[k]}

\* Nothing in RAM mode survives the unmount.
NSUnmount == names' = <<>> /\ dirs' = {}

NSStep == \E k \in (Inos \cup {RootIno}) \X Names :
            \/ \E x \in Inos : \/ \E isDir \in BOOLEAN : NSMake(k, x, isDir)
                               \/ NSLink(k, x)
            \/ NSRemove(k)

NSNext == NSStep \/ NSUnmount

NSSpec == NSInit /\ [][NSNext]_nsVars
=============================================================================
