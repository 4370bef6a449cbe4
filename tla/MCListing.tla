----------------------------- MODULE MCListing -----------------------------
(* Instances of Listing: a directory inside another, and unrelated ones.   *)
EXTENDS Listing

MCNested == [d \in Dirs |-> IF d = "p/c" THEN "p" ELSE NoDir]

MCUnrelated == [d \in Dirs |-> NoDir]
=============================================================================
