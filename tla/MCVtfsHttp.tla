----------------------------- MODULE MCVtfsHttp -----------------------------
(***************************************************************************)
(* A small instance of VtfsHttp for TLC: lengths of answers at the scale   *)
(* of the model, a word of 2 bytes, a caller's buffer of 3 and room for a  *)
(* head of 3.                                                              *)
(***************************************************************************)
EXTENDS VtfsHttp

\* Heads that fit and do not; bodies from less than a word to more than the raw
\* buffer.  A refused request is answered too.
SomeAnswers == [status : {200, 500}, head : {1, 3, 4}, body : {1, 2, 3, 4, 7}]

\* Bytes with all combinations of first and last bits, and zero.
SomeBytes == {0, 1, 62, 128, 251, 255}

AllModes == 0 .. 511
=============================================================================
