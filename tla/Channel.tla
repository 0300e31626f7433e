------------------------------ MODULE Channel ------------------------------
(***************************************************************************)
(* What a connection promises to those who read from it: what was put in   *)
(* comes out in the same order, each thing once and unchanged.  It may     *)
(* stop giving at any time, but it never skips, repeats or makes up a      *)
(* thing, and never takes one back.                                        *)
(***************************************************************************)
EXTENDS Naturals, Sequences

CONSTANT Things

VARIABLES
    put,        \* what went in
    got         \* what came out

vars == <<put, got>>

Init == put = <<>> /\ got = <<>>

Put(x) == put' = Append(put, x) /\ UNCHANGED got

Get ==
    /\ Len(got) < Len(put)
    /\ got' = Append(got, put[Len(got) + 1])
    /\ UNCHANGED put

Next == Get \/ \E x \in Things : Put(x)

Spec == Init /\ [][Next]_vars
=============================================================================
