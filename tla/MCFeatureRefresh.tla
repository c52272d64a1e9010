-------------------------- MODULE MCFeatureRefresh --------------------------
(* Small instances of FeatureRefresh for TLC. *)
EXTENDS FeatureRefresh

CONSTANTS left, middle, right

\* The middle one is alike both others, which are not alike each other.
ThreeAudio == {left, middle, right}
Chain == {<<left, middle>>, <<middle, left>>, <<middle, right>>, <<right, middle>>}
LeftMiddleRight == <<left, middle, right>>

\* Files change twice, a decode fails and a refresh breaks off; or the program is upgraded, a file
\* changes, a decode fails and a refresh breaks off.
ChangesOrUpgrade ==
    {[changes |-> 2, upgrades |-> 0, failures |-> 1, breaks |-> 1],
     [changes |-> 1, upgrades |-> 1, failures |-> 1, breaks |-> 1]}
=============================================================================
