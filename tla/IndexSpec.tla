------------------------------ MODULE IndexSpec ------------------------------
(***************************************************************************)
(* The contract of torann's BaseIndex (base.py), without any table: an     *)
(* index files every id under the place the caller last gave it, the first *)
(* nStatic ids are anchors, and promote turns candidates into anchors.     *)
(* A "place" is whatever an implementation files by: coordinates for the   *)
(* exact index, one hash key per table for the LSH ones.  Build files      *)
(* anything anywhere, so an implementation is compared call by call: each  *)
(* of its calls must be the call of the same name with the same points.    *)
(***************************************************************************)
EXTENDS Integers, Sequences

VARIABLES filed,      \* filed[i] is the place of id i - 1
          nStatic     \* ids below nStatic are anchors

ixVars == <<filed, nStatic>>

Init == filed = <<>> /\ nStatic = 0

Build(P, ns) ==
    /\ ns \in 0..Len(P)
    /\ filed' = P
    /\ nStatic' = ns

Update(C) ==
    /\ Len(C) = Len(filed) - nStatic
    /\ filed' = SubSeq(filed, 1, nStatic) \o C
    /\ UNCHANGED nStatic

Promote(C) ==
    /\ nStatic' = Len(filed)
    /\ filed' = filed \o C
=============================================================================
