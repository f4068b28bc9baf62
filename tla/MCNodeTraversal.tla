-------------------------- MODULE MCNodeTraversal --------------------------
(***************************************************************************)
(* Small DAGs for NodeTraversal.                                           *)
(***************************************************************************)
EXTENDS NodeTraversal, TLC

CONSTANTS s, x, y, j

GraphWith(down, cases, needs) ==
    [down  |-> [n \in Nodes |-> IF n \in DOMAIN down THEN down[n] ELSE <<>>],
     cases |-> [n \in Nodes |-> IF n \in DOMAIN cases THEN cases[n] ELSE {}],
     needs |-> [n \in Nodes |-> IF n \in DOMAIN needs THEN needs[n] ELSE {}]]

Graph(down, cases) == GraphWith(down, cases, [n \in {} |-> {}])

NoCases == [n \in {} |-> {}]

(* Two parallel nodes and one that waits for both.                         *)
Join == Graph((s :> <<x, y>>) @@ (x :> <<j>>) @@ (y :> <<j>>), NoCases)

(* A chain beside a node that comes later in the traversal.                *)
Chain == Graph((s :> <<x, y>>) @@ (x :> <<j>>), NoCases)

(* A branch with one case and a node after it, or with two.                *)
BranchThen == Graph((s :> <<x>>) @@ (x :> <<j>>), x :> {y})
BranchOfTwo == Graph(s :> <<x>>, x :> {y, j})

(* A branch whose only case is a branch.                                   *)
BranchInBranch == Graph(s :> <<x>>, (x :> {y}) @@ (y :> {j}))

(* A branch whose case needs a node that the branch itself does not.       *)
CaseNeeds == GraphWith(s :> <<x, j>>, x :> {y}, y :> {s, j})

AllGraphs == {Join, Chain, BranchThen, BranchOfTwo, CaseNeeds, BranchInBranch}
ChainOnly == {Chain}
============================================================================
