------------------------- MODULE MCRequestAdmission -------------------------
(***************************************************************************)
(* Instances of RequestAdmission.  A client sends one nonce with two         *)
(* timestamps, through a channel and to the probe; a second channel request  *)
(* comes from outside, while its address is listed and removed again; two of *)
(* the messages share a trace id.                                            *)
(***************************************************************************)
EXTENDS RequestAdmission, TLC

CONSTANTS home, guest, n1, n2, t1, t2, r1, r2

Sent(path, from, nonce, stamp, trace) ==
  [path |-> path, from |-> from, nonce |-> nonce, stamp |-> stamp, trace |-> trace,
   ip |-> guest]

MCMessages ==
  {Sent("channel", home, n1, 2, t1), Sent("probe", home, n1, 0, t2),
   Sent("channel", guest, n2, 0, t2)}
  \cup {Sent(path, home, n2, 0, t1) : path \in {"add", "remove", "static", "unknown"}}

\* requests differ by what they do
RequestSymmetry == Permutations(Requests)
=============================================================================
