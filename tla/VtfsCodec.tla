----------------------------- MODULE VtfsCodec -----------------------------
(***************************************************************************)
(* What data and mode bits are turned into on their way between the kernel *)
(* module and the server: base64 in the URL of a write request, text in    *)
(* the requests that create and in the answers that list.                  *)
(***************************************************************************)
EXTENDS Naturals, Sequences

-----------------------------------------------------------------------------
(* encode, with the URL and the decoder at the other end *)

\* The 64 characters of base64_table are the numbers of their places in it.
Plus     == 62
Equals   == 64
Space    == 65
Rejected == <<Space>>

\* Where strlen stops.
CString(s) ==
  LET end == {i \in DOMAIN s : s[i] = 0}
  IN IF end = {} THEN s ELSE SubSeq(s, 1, (CHOOSE i \in end : \A j \in end : i <= j) - 1)

ByteAt(s, i) == IF i <= Len(s) THEN s[i] ELSE 0

\* Fault: the last character is written for two bytes, too.
Padded_TwoBytes(n, group, place) == place >= 2 /\ 3 * group + 2 > n

\* The place of the group stands for no byte.
Padded(n, group, place) == place >= 2 /\ 3 * group + place > n

\* encode: four characters for each group of three bytes
Encode(s) ==
  [j \in 1 .. 4 * ((Len(s) + 2) \div 3) |->
     LET group    == (j - 1) \div 4
         place    == (j - 1) % 4
         combined == 65536 * ByteAt(s, 3 * group + 1) + 256 * ByteAt(s, 3 * group + 2)
                     + ByteAt(s, 3 * group + 3)
     IN IF Padded(Len(s), group, place) THEN Equals
        ELSE (combined \div 64 ^ (3 - place)) % 64]

\* In the query of a URL a plus sign stands for a space.
InQuery(d) == [j \in DOMAIN d |-> IF d[j] = Plus THEN Space ELSE d[j]]

\* java.util.Base64's decoder
Decode(d) ==
  LET Value(j)  == IF d[j] = Equals THEN 0 ELSE d[j]
      pads      == {j \in DOMAIN d : d[j] = Equals}
      Group(g)  == 262144 * Value(4 * g + 1) + 4096 * Value(4 * g + 2)
                   + 64 * Value(4 * g + 3) + Value(4 * g + 4)
      missing   == IF pads = {} THEN 0 ELSE IF Len(d) - 1 \in pads THEN 2 ELSE 1
  IN IF \E j \in DOMAIN d : d[j] = Space THEN Rejected
     ELSE [k \in 1 .. 3 * (Len(d) \div 4) - missing |->
             (Group((k - 1) \div 3) \div 256 ^ (2 - ((k - 1) % 3))) % 256]

-----------------------------------------------------------------------------
(* Modes *)

\* snprintf with "%o", and the controller's decimal Integer parameter
AsDecimal(m) == 100 * (m \div 64) + 10 * ((m \div 8) % 8) + (m % 8)

\* Fault: the mode of a directory is stored as it comes.
Stored_NoFlag(v, isDir) == v

\* createFile and createDirectory: (mode & 0777) | 0040000
Stored(v, isDir) == IF isDir THEN 16384 + (v % 512) ELSE v

\* vtfs_server_load_files: "%u" and the test for S_IFDIR
LoadedAsDir(v) == v >= 16384
=============================================================================
