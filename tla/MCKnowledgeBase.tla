--------------------------- MODULE MCKnowledgeBase ---------------------------
(***************************************************************************)
(* KnowledgeBase with two tenants, documents of no or two chunks, batches  *)
(* of one, and two processes of the script.                                *)
(***************************************************************************)
EXTENDS KnowledgeBase, TLC

CONSTANTS Hdfc, Swiggy, Fees, Loans

MCTenants == <<Hdfc, Swiggy>>
MCDocuments == {<<>>, <<Fees, Loans>>}

\* The processes run the same script.
MCSymmetry == Permutations(Ingestors)
=============================================================================
