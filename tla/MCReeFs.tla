------------------------------ MODULE MCReeFs ------------------------------
(* Instances of ReeFs.  Only clients that do not list open objects to write *)
(* to them; every client writes to the objects it creates.                  *)
EXTENDS ReeFs, TLC

MCOpenFlags ==
  [c \in Clients |-> {{"R", "SR"}}
                       \cup IF c \in Enumerators THEN {} ELSE {{"R", "W", "M"}}]
MCCreateFlags == {{"R", "W", "M"}}
MCShared == {{"W", "SW"}}
MCSharedFlags == [c \in Clients |-> MCShared]
MCSymmetry == Permutations(Names)
=============================================================================
