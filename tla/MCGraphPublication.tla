------------------------- MODULE MCGraphPublication -------------------------
(* A small instance of GraphPublication for TLC: two versions of a document,  *)
(* with two executable bundles or with a reader beside them.                  *)
EXTENDS GraphPublication, TLC

CONSTANTS d1, d2, e1, e2

MCDocument == {d1, d2}
MCSource   == [d \in MCDocument |-> "sop.md"]
MCBundles  == {e1, e2}
MCSymmetry == {p @@ q : p \in Permutations(MCDocument), q \in Permutations(MCBundles)}

\* Bound: a reader beside the documents and one crash, or the bundles beside the
\* documents and MaxCrash crashes, not all of them together.
MCNoReader  == /\ \A p \in Reader : boot[p] = "down"
               /\ session = NoSession /\ overtaken = {} /\ ~index.raced
MCNoBundles == /\ MCBundles \cap (todo \cup store[Objects]) = {}
               /\ \A f \in File : file[f] = Torn \/ file[f] \cap MCBundles = {}
MCBound     == MCNoReader \/ (MCNoBundles /\ crashes < MaxCrash)
=============================================================================
