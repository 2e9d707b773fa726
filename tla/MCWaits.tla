------------------------------- MODULE MCWaits -------------------------------
(***************************************************************************)
(* One ordinary call and two monitoring waits, of one session or of two,   *)
(* at the mutation mutex and one materialisation mutex.  A session is      *)
(* admitted one wait at a time.                                            *)
(***************************************************************************)
EXTENDS Waits

CONSTANTS c1, w1, w2, d1, s1, s2

MCCalls == {c1, w1, w2}
MCWaitCalls == {w1, w2}
MCDeclarations == {d1}
MCSessions == {s1, s2}
MCAsked == {3}
MCBackoffs == {1, 2}
=============================================================================
