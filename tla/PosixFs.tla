------------------------------ MODULE PosixFs ------------------------------
(***************************************************************************)
(* The name space together with what POSIX promises of the bytes of a      *)
(* file: a write puts its bytes at the offset and fills a gap with zeros,  *)
(* a truncation cuts or fills with zeros, and no other operation changes   *)
(* what any file contains.                                                 *)
(***************************************************************************)
EXTENDS NameSpace, Sequences

CONSTANTS Payloads,   \* what one write can carry
          MaxSize,    \* bound on the size of a file
          Nul         \* the zero byte

VARIABLE data         \* the bytes of each file, by inode number

posixVars == <<names, dirs, data>>

At(s, i) == IF i <= Len(s) THEN s[i] ELSE Nul

Larger(m, n) == IF m >= n THEN m ELSE n

Overwrite(s, off, p) ==
  [i \in 1 .. Larger(Len(s), off + Len(p)) |->
     IF off < i /\ i <= off + Len(p) THEN p[i - off] ELSE At(s, i)]

Resize(s, n) == [i \in 1 .. n |-> At(s, i)]

\* A new file is empty; a file without a name has no bytes; the rest stays.
Follows == data' = [x \in {y \in Used' : y \notin dirs'} |->
                      IF x \in DOMAIN data THEN data[x] ELSE <<>>]

PInit == NSInit /\ data = <<>>

PNames == NSNext /\ Follows

PWrite(x, off, p) ==
  /\ off + Len(p) <= MaxSize
  /\ data' = [data EXCEPT ![x] = Overwrite(@, off, p)]
  /\ UNCHANGED nsVars

PTruncate(x, n) ==
  /\ data' = [data EXCEPT ![x] = Resize(@, n)]
  /\ UNCHANGED nsVars

PNext ==
  \/ \E x \in DOMAIN data : \/ \E off \in 0 .. MaxSize, p \in Payloads : PWrite(x, off, p)
                            \/ \E n \in 0 .. MaxSize : PTruncate(x, n)
  \/ PNames

PosixSpec == PInit /\ [][PNext]_posixVars
=============================================================================
