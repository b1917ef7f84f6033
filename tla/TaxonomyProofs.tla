--------------------------- MODULE TaxonomyProofs ---------------------------
(***************************************************************************)
(* Machine-checked properties of Taxonomy, for workbooks of any length.    *)
(***************************************************************************)
EXTENDS Taxonomy, SequenceTheorems, TLAPS

-----------------------------------------------------------------------------
(* The inductive invariant.                                                *)

\* Category j is the last one before k that is of a higher rank.
Nearest(j, k) == j \in Above(k) /\ \A i \in Above(k) : i <= j

\* What category k owes to the one above it.
OfParent(k, j) ==
    /\ Nearest(j, k)
    /\ nodes[j].level = nodes[k].level - 1
    /\ nodes[k].parent_code = nodes[j].code
    /\ nodes[k].inherited_description = effective_description(nodes[j])

NodeFits(k) ==
    /\ nodes[k].code \in {k, None} /\ nodes[k].description \in {k, None}
    /\ nodes[k].level = 1 =>
          nodes[k].parent_code = None /\ nodes[k].inherited_description = None
    /\ nodes[k].level # 1 => \E j \in DOMAIN nodes : OfParent(k, j)
    /\ \A c \in Positions :
          c \in nodes[k].children <=> c \in DOMAIN nodes /\ Nearest(k, c)

NodesFit == \A k \in DOMAIN nodes : NodeFits(k)

\* What parse_xlsx carries from row to row: the last top category, and the
\* last middle one if it comes after that.
CurrentFits ==
    /\ {current_l1, current_l2} \subseteq DOMAIN nodes \cup {None}
    /\ \A i \in DOMAIN nodes : nodes[i].level = 1 => i <= current_l1
    /\ \A i \in DOMAIN nodes : nodes[i].level = 2 /\ current_l2 # None => i <= current_l2
    /\ current_l1 # None => nodes[current_l1].level = 1
    /\ current_l2 # None => nodes[current_l2].level = 2 /\ current_l1 # None /\ current_l1 < current_l2

FileFits ==
    /\ file = [k \in DOMAIN nodes |-> encode(nodes[k])] \/ file = <<>>
    /\ phase = "parse" => file = <<>>
    /\ phase \in {"parse", "failed", "written"}

NodesType == nodes \in Seq(Nodes) /\ Len(nodes) <= MaxRows

TInv == NodesType /\ CurrentFits /\ NodesFit /\ FileFits

-----------------------------------------------------------------------------
(* The nearest category above another one.                                 *)

LEMMA NodeTypes ==
  ASSUME NodesType
  PROVE  /\ DOMAIN nodes = 1..Len(nodes) /\ Len(nodes) \in Nat /\ MaxRows \in Nat
         /\ \A k \in DOMAIN nodes : nodes[k] \in Nodes /\ k \in Nat /\ k # None /\ k \in Positions
<1>1. Len(nodes) \in Nat /\ MaxRows \in Nat /\ Len(nodes) <= MaxRows
  BY TaxonomyAssumption DEF NodesType
<1>2. DOMAIN nodes = 1..Len(nodes) /\ \A k \in 1..Len(nodes) : nodes[k] \in Nodes
  BY DEF NodesType
<1>3. QED BY <1>1, <1>2 DEF None, Positions

LEMMA NearestUnique ==
  ASSUME NodesType, NEW k \in DOMAIN nodes, NEW i, NEW j, Nearest(i, k), Nearest(j, k)
  PROVE  i = j
<1>1. i \in 1..(k - 1) /\ j \in 1..(k - 1) /\ i <= j /\ j <= i
  BY DEF Nearest, Above
<1>2. QED BY <1>1, NodeTypes

LEMMA ParentIsNearest ==
  ASSUME NodesType, NEW k \in DOMAIN nodes, NEW j, Nearest(j, k)
  PROVE  Parent(k) = j
<1>1. Above(k) # {} /\ \E i \in Above(k) : \A h \in Above(k) : h <= i
  BY DEF Nearest
<1>2. Parent(k) = CHOOSE i \in Above(k) : \A h \in Above(k) : h <= i
  BY <1>1 DEF Parent
<1>3. Nearest(Parent(k), k)
  BY <1>1, <1>2 DEF Nearest
<1>4. QED BY <1>3, NearestUnique

LEMMA TopHasNoneAbove ==
  ASSUME NodesType, NEW k \in DOMAIN nodes, nodes[k].level = 1
  PROVE  Above(k) = {} /\ Parent(k) = None /\ \A j : ~Nearest(j, k)
<1>1. ASSUME NEW j \in Above(k) PROVE FALSE
  <2>1. j \in DOMAIN nodes /\ nodes[j].level < 1
    BY NodeTypes DEF Above
  <2>2. nodes[j] \in Nodes
    BY <2>1, NodeTypes
  <2>3. QED BY <2>1, <2>2 DEF Nodes
<1>2. QED BY <1>1 DEF Parent, Nearest

-----------------------------------------------------------------------------
(* A new node.                                                             *)

\* The list after a row of the workbook: a node at its end, which its parent
\* has among its children.
Grows(p, node) ==
    /\ Len(nodes') = Len(nodes) + 1 /\ nodes' \in Seq(Nodes)
    /\ nodes'[Len(nodes) + 1] = node
    /\ \A k \in DOMAIN nodes :
          nodes'[k] = IF k = p THEN [nodes[k] EXCEPT !.children = @ \cup {Len(nodes) + 1}]
                      ELSE nodes[k]

LEMMA NextNodeType ==
  ASSUME NodesType, Reading, NEW level \in 1..3,
         NEW parent_code \in Positions \cup {None}, NEW inherited \in Positions \cup {None},
         NEW node \in NextNode(level, parent_code, inherited)
  PROVE  /\ node \in Nodes
         /\ node.code \in {Len(nodes) + 1, None} /\ node.description \in {Len(nodes) + 1, None}
         /\ node.inherited_description = inherited /\ node.level = level
         /\ node.parent_code = parent_code /\ node.children = {}
<1>1. Len(nodes) + 1 \in Positions
  BY NodeTypes DEF Reading, Positions
<1>2. QED BY <1>1 DEF NextNode, Nodes

LEMMA AppendGrows ==
  ASSUME NodesType, NEW node \in Nodes, nodes' = Append(nodes, node)
  PROVE  Grows(None, node)
<1>1. /\ Len(nodes') = Len(nodes) + 1 /\ nodes' \in Seq(Nodes)
      /\ nodes'[Len(nodes) + 1] = node
      /\ \A k \in 1..Len(nodes) : nodes'[k] = nodes[k]
  BY AppendProperties DEF NodesType
<1>2. \A k \in DOMAIN nodes : k # None
  BY NodeTypes
<1>3. QED BY <1>1, <1>2, NodeTypes DEF Grows

LEMMA AdoptGrows ==
  ASSUME NodesType, Reading, NEW p \in DOMAIN nodes, NEW node \in Nodes, nodes' = Adopt(p, node)
  PROVE  Grows(p, node)
<1> DEFINE n == Len(nodes)
<1>1. n \in Nat /\ n + 1 \in Positions /\ DOMAIN nodes = 1..n
  BY NodeTypes DEF Reading, Positions
<1>2. \A k \in 1..n : [nodes[k] EXCEPT !.children = @ \cup {n + 1}] \in Nodes
  BY <1>1, NodeTypes DEF Nodes
<1>3. \A k \in 1..n : nodes[k] \in Nodes
  BY <1>1, NodeTypes
<1>4. nodes' = [k \in 1..(n + 1) |->
                   IF k > n THEN node
                   ELSE IF k = p THEN [nodes[k] EXCEPT !.children = @ \cup {n + 1}]
                   ELSE nodes[k]]
  BY DEF Adopt
<1>5. nodes' \in [1..(n + 1) -> Nodes]
  <2>1. ASSUME NEW k \in 1..(n + 1)
        PROVE  (IF k > n THEN node
                ELSE IF k = p THEN [nodes[k] EXCEPT !.children = @ \cup {n + 1}]
                ELSE nodes[k]) \in Nodes
    BY <1>1, <1>2, <1>3
  <2>2. QED BY <1>4, <2>1
<1>6. nodes' \in Seq(Nodes) /\ Len(nodes') = n + 1
  BY <1>1, <1>5
<1>7. nodes'[n + 1] = node
  BY <1>1, <1>4
<1>8. \A k \in 1..n : nodes'[k] = IF k = p THEN [nodes[k] EXCEPT !.children = @ \cup {n + 1}]
                                  ELSE nodes[k]
  BY <1>1, <1>4
<1>9. QED BY <1>1, <1>6, <1>7, <1>8 DEF Grows

\* The nodes that were there keep all but their children, and so what is above
\* them.
LEMMA OldNodes ==
  ASSUME NodesType, NEW p, NEW node, Grows(p, node)
  PROVE  /\ DOMAIN nodes' = 1..(Len(nodes) + 1)
         /\ \A k \in DOMAIN nodes :
               /\ nodes'[k].code = nodes[k].code
               /\ nodes'[k].description = nodes[k].description
               /\ nodes'[k].inherited_description = nodes[k].inherited_description
               /\ nodes'[k].level = nodes[k].level
               /\ nodes'[k].parent_code = nodes[k].parent_code
               /\ nodes'[k].children =
                     IF k = p THEN nodes[k].children \cup {Len(nodes) + 1} ELSE nodes[k].children
         /\ \A k \in DOMAIN nodes : \A j : Nearest(j, k)' <=> Nearest(j, k)
<1>1. DOMAIN nodes' = 1..(Len(nodes) + 1)
  BY NodeTypes DEF Grows
<1>2. ASSUME NEW k \in DOMAIN nodes
      PROVE  /\ nodes'[k].code = nodes[k].code
             /\ nodes'[k].description = nodes[k].description
             /\ nodes'[k].inherited_description = nodes[k].inherited_description
             /\ nodes'[k].level = nodes[k].level
             /\ nodes'[k].parent_code = nodes[k].parent_code
             /\ nodes'[k].children =
                   IF k = p THEN nodes[k].children \cup {Len(nodes) + 1} ELSE nodes[k].children
  <2>1. nodes[k] \in Nodes
    BY NodeTypes
  <2>2. nodes'[k] = IF k = p THEN [nodes[k] EXCEPT !.children = @ \cup {Len(nodes) + 1}]
                    ELSE nodes[k]
    BY DEF Grows
  <2>3. QED BY <2>1, <2>2 DEF Nodes
<1>3. ASSUME NEW k \in DOMAIN nodes, NEW j PROVE Nearest(j, k)' <=> Nearest(j, k)
  <2>1. \A i \in 1..(k - 1) : i \in DOMAIN nodes
    BY NodeTypes
  <2>2. Above(k)' = Above(k)
    BY <1>2, <2>1 DEF Above
  <2>3. QED BY <2>2 DEF Nearest
<1>4. QED BY <1>1, <1>2, <1>3

\* A new node fits under a parent that is the last category of a higher rank.
LEMMA NewNodeFits ==
  ASSUME NodesType, NodesFit, Reading, NEW n, n = Len(nodes),
         NEW level \in 1..3, NEW p \in DOMAIN nodes \cup {None},
         NEW parent_code \in Positions \cup {None}, NEW inherited \in Positions \cup {None},
         NEW node \in NextNode(level, parent_code, inherited), Grows(p, node),
         level = 1 <=> p = None,
         p = None => parent_code = None /\ inherited = None,
         p # None => /\ nodes[p].level = level - 1
                     /\ \A i \in DOMAIN nodes : nodes[i].level < level => i <= p
                     /\ parent_code = nodes[p].code
                     /\ inherited = effective_description(nodes[p])
  PROVE  NodesType' /\ NodesFit'
<1>1. /\ n \in Nat /\ DOMAIN nodes = 1..n /\ n < MaxRows /\ MaxRows \in Nat
      /\ DOMAIN nodes' = 1..(n + 1) /\ nodes'[n + 1] = node
  BY NodeTypes, OldNodes DEF Reading, Grows
<1>2. /\ node \in Nodes /\ node.code \in {n + 1, None} /\ node.description \in {n + 1, None}
      /\ node.inherited_description = inherited /\ node.level = level
      /\ node.parent_code = parent_code /\ node.children = {}
  BY NextNodeType
<1>3. NodesType'
  BY <1>1 DEF NodesType, Grows
<1>4. \A j : Nearest(j, n + 1)' <=> p # None /\ j = p
  <2>1. Above(n + 1)' = {j \in 1..n : nodes[j].level < level}
    <3>1. Above(n + 1)' = {j \in 1..(n + 1 - 1) : nodes'[j].level < nodes'[n + 1].level}
      BY DEF Above
    <3>2. 1..(n + 1 - 1) = 1..n /\ nodes'[n + 1].level = level
      BY <1>1, <1>2
    <3>3. \A j \in 1..n : nodes'[j].level = nodes[j].level
      BY <1>1, OldNodes
    <3>4. QED BY <3>1, <3>2, <3>3
  <2>2. CASE p = None
    <3>1. \A j \in 1..n : ~(nodes[j].level < 1)
      BY <1>1, NodeTypes DEF Nodes
    <3>2. Above(n + 1)' = {}
      BY <2>1, <2>2, <3>1
    <3>3. QED BY <2>2, <3>2 DEF Nearest
  <2>3. CASE p # None
    <3>1. p \in 1..n /\ nodes[p].level < level
      BY <1>1, <2>3
    <3>2. p \in Above(n + 1)' /\ \A i \in Above(n + 1)' : i <= p
      BY <1>1, <2>1, <2>3, <3>1
    <3>3. ASSUME NEW j, Nearest(j, n + 1)' PROVE j = p
      <4>1. j \in 1..n /\ j <= p /\ p <= j
        BY <2>1, <3>2, <3>3 DEF Nearest
      <4>2. QED BY <3>1, <4>1, <1>1
    <3>4. Nearest(p, n + 1)'
      BY <3>2 DEF Nearest
    <3>5. QED BY <2>3, <3>3, <3>4
  <2>4. QED BY <2>2, <2>3
<1>5. ASSUME NEW k \in DOMAIN nodes PROVE NodeFits(k)'
  <2>1. /\ nodes'[k].code \in {k, None} /\ nodes'[k].description \in {k, None}
        /\ nodes'[k].level = 1 =>
              nodes'[k].parent_code = None /\ nodes'[k].inherited_description = None
    BY OldNodes DEF NodesFit, NodeFits
  <2>2. ASSUME nodes'[k].level # 1 PROVE \E j \in DOMAIN nodes' : OfParent(k, j)'
    <3>1. PICK j \in DOMAIN nodes : OfParent(k, j)
      <4>1. nodes[k].level # 1
        BY <2>2, OldNodes
      <4>2. NodeFits(k)
        BY DEF NodesFit
      <4>3. QED BY <4>1, <4>2 DEF NodeFits
    <3>2. j \in DOMAIN nodes'
      BY <1>1
    <3>3. effective_description(nodes[j]) = effective_description(nodes'[j])
      BY OldNodes DEF effective_description
    <3>4. OfParent(k, j)'
      <4>1. Nearest(j, k)'
        BY <3>1, OldNodes DEF OfParent
      <4>2. nodes'[j].level = nodes'[k].level - 1
        BY <3>1, OldNodes DEF OfParent
      <4>3. nodes'[k].parent_code = nodes'[j].code
        BY <3>1, OldNodes DEF OfParent
      <4>4. nodes'[k].inherited_description = effective_description(nodes'[j])
        BY <3>1, <3>3, OldNodes DEF OfParent
      <4>5. QED BY <4>1, <4>2, <4>3, <4>4 DEF OfParent, effective_description
    <3>5. QED BY <3>2, <3>4
  <2>3. ASSUME NEW c \in Positions
        PROVE  c \in nodes'[k].children <=> c \in DOMAIN nodes' /\ Nearest(k, c)'
    <3>1. c \in nodes[k].children <=> c \in DOMAIN nodes /\ Nearest(k, c)
      BY DEF NodesFit, NodeFits
    <3>2. nodes'[k].children = IF k = p THEN nodes[k].children \cup {n + 1} ELSE nodes[k].children
      BY OldNodes
    <3>3. CASE c = n + 1
      <4>1. c \notin DOMAIN nodes /\ c \in DOMAIN nodes' /\ k # None
        BY <1>1, <3>3, NodeTypes
      <4>2. QED BY <1>4, <3>1, <3>2, <3>3, <4>1
    <3>4. CASE c # n + 1
      <4>1. c \in DOMAIN nodes' <=> c \in DOMAIN nodes
        BY <1>1, <3>4 DEF Positions
      <4>2. c \in DOMAIN nodes => (Nearest(k, c)' <=> Nearest(k, c))
        BY OldNodes
      <4>3. QED BY <3>1, <3>2, <3>4, <4>1, <4>2
    <3>5. QED BY <3>3, <3>4
  <2>4. QED BY <2>1, <2>2, <2>3 DEF NodeFits
<1>6. NodeFits(n + 1)'
  <2>1. /\ nodes'[n + 1].code \in {n + 1, None} /\ nodes'[n + 1].description \in {n + 1, None}
        /\ nodes'[n + 1].level = 1 =>
              nodes'[n + 1].parent_code = None /\ nodes'[n + 1].inherited_description = None
    BY <1>1, <1>2
  <2>2. ASSUME nodes'[n + 1].level # 1 PROVE \E j \in DOMAIN nodes' : OfParent(n + 1, j)'
    <3>1. p # None /\ p \in DOMAIN nodes /\ p \in DOMAIN nodes'
      BY <1>1, <1>2, <2>2
    <3>2. effective_description(nodes[p]) = effective_description(nodes'[p])
      BY <3>1, OldNodes DEF effective_description
    <3>3. nodes'[p].level = nodes[p].level /\ nodes'[p].code = nodes[p].code
      BY <3>1, OldNodes
    <3>4. Nearest(p, n + 1)'
      BY <1>4, <3>1
    <3>5. OfParent(n + 1, p)'
      BY <1>1, <1>2, <3>1, <3>2, <3>3, <3>4 DEF OfParent
    <3>6. QED BY <3>1, <3>5
  <2>3. ASSUME NEW c \in Positions
        PROVE  c \in nodes'[n + 1].children <=> c \in DOMAIN nodes' /\ Nearest(n + 1, c)'
    <3>1. c \notin nodes'[n + 1].children
      BY <1>1, <1>2
    <3>2. ASSUME c \in DOMAIN nodes', Nearest(n + 1, c)' PROVE FALSE
      <4>1. n + 1 \in 1..(c - 1) /\ c \in 1..(n + 1)
        BY <1>1, <3>2 DEF Nearest, Above
      <4>2. QED BY <1>1, <4>1
    <3>3. QED BY <3>1, <3>2
  <2>4. QED BY <2>1, <2>2, <2>3 DEF NodeFits
<1>7. \A k \in DOMAIN nodes' : k \in DOMAIN nodes \/ k = n + 1
  BY <1>1
<1>8. QED BY <1>3, <1>5, <1>6, <1>7 DEF NodesFit

-----------------------------------------------------------------------------
(* The steps.                                                              *)

\* A top category has no description but its own.
LEMMA TopDescribesItself ==
  ASSUME NodesFit, NEW k \in DOMAIN nodes, nodes[k].level = 1
  PROVE  effective_description(nodes[k]) = nodes[k].description
<1>1. nodes[k].inherited_description = None
  BY DEF NodesFit, NodeFits
<1>2. QED BY <1>1 DEF effective_description

LEMMA TopStep ==
  ASSUME TInv, ParseTop
  PROVE  NodesType' /\ NodesFit' /\ CurrentFits'
<1>1. PICK n : n = Len(nodes)
  OBVIOUS
<1>2. NodesType /\ NodesFit /\ Reading
  BY DEF TInv, ParseTop
<1>3. PICK node \in NextNode(1, None, None) : nodes' = Append(nodes, node)
  BY DEF ParseTop
<1>4. node \in Nodes /\ node.level = 1
  BY <1>2, <1>3, NextNodeType DEF None
<1>5. Grows(None, node)
  BY <1>2, <1>3, <1>4, AppendGrows
<1>6. NodesType' /\ NodesFit'
  BY <1>1, <1>2, <1>3, <1>5, NewNodeFits
<1>7. n \in Nat /\ DOMAIN nodes' = 1..(n + 1) /\ nodes'[n + 1].level = 1
  BY <1>1, <1>2, <1>4, <1>5, NodeTypes, OldNodes DEF Grows
<1>8. current_l1' = n + 1 /\ current_l2' = None
  BY <1>1 DEF ParseTop
<1>9. CurrentFits'
  BY <1>7, <1>8 DEF CurrentFits
<1>10. QED BY <1>6, <1>9

LEMMA MiddleStep ==
  ASSUME TInv, ParseMiddle
  PROVE  NodesType' /\ NodesFit' /\ CurrentFits'
<1>1. PICK n : n = Len(nodes)
  OBVIOUS
<1>2. PICK p : p = current_l1
  OBVIOUS
<1>3. NodesType /\ NodesFit /\ Reading /\ CurrentFits
  BY DEF TInv, ParseMiddle
<1>4. p \in DOMAIN nodes /\ p # None /\ nodes[p].level = 1 /\ nodes[p] \in Nodes
  BY <1>2, <1>3, NodeTypes DEF ParseMiddle, CurrentFits
<1>5. PICK node \in NextNode(2, nodes[p].code, nodes[p].description) : nodes' = Adopt(p, node)
  BY <1>2 DEF ParseMiddle
<1>6. nodes[p].code \in Positions \cup {None} /\ nodes[p].description \in Positions \cup {None}
  BY <1>4 DEF Nodes
<1>7. node \in Nodes /\ node.level = 2
  BY <1>3, <1>5, <1>6, NextNodeType
<1>8. Grows(p, node)
  BY <1>3, <1>4, <1>5, <1>7, AdoptGrows
<1>9. \A i \in DOMAIN nodes : nodes[i].level < 2 => i <= p
  <2>1. ASSUME NEW i \in DOMAIN nodes, nodes[i].level < 2 PROVE nodes[i].level = 1
    BY <2>1, <1>3, NodeTypes DEF Nodes
  <2>2. QED BY <1>2, <1>3, <2>1 DEF CurrentFits
<1>10. nodes[p].description = effective_description(nodes[p])
  BY <1>3, <1>4, TopDescribesItself
<1>11. NodesType' /\ NodesFit'
  BY <1>1, <1>3, <1>4, <1>5, <1>6, <1>8, <1>9, <1>10, NewNodeFits
<1>12. /\ n \in Nat /\ DOMAIN nodes = 1..n /\ DOMAIN nodes' = 1..(n + 1)
       /\ nodes'[n + 1].level = 2
       /\ \A i \in 1..n : nodes'[i].level = nodes[i].level
  <2>1. nodes'[n + 1] = node
    BY <1>1, <1>8 DEF Grows
  <2>2. QED BY <1>1, <1>3, <1>7, <1>8, <2>1, NodeTypes, OldNodes
<1>13. current_l1' = p /\ current_l2' = n + 1
  BY <1>1, <1>2 DEF ParseMiddle
<1>14. \A i \in 1..(n + 1) : nodes'[i].level = 1 => i <= p
  <2>1. \A i \in 1..n : nodes[i].level = 1 => i <= p
    BY <1>2, <1>3, <1>12 DEF CurrentFits
  <2>2. QED BY <1>12, <2>1
<1>15. p \in 1..n /\ nodes'[p].level = 1
  BY <1>4, <1>12
<1>16. CurrentFits'
  BY <1>4, <1>12, <1>13, <1>14, <1>15 DEF CurrentFits
<1>17. QED BY <1>11, <1>16

\* The last middle category lies below the last top one, and what a leaf
\* inherits is the effective description of the middle one.
LEMMA InheritedIsEffective ==
  ASSUME TInv, current_l2 # None
  PROVE  Inherited = effective_description(nodes[current_l2])
<1>1. /\ NodesType /\ NodesFit
      /\ current_l1 \in DOMAIN nodes /\ current_l2 \in DOMAIN nodes /\ current_l1 < current_l2
      /\ nodes[current_l1].level = 1 /\ nodes[current_l2].level = 2
      /\ \A i \in DOMAIN nodes : nodes[i].level = 1 => i <= current_l1
  BY DEF TInv, CurrentFits
<1>2. Nearest(current_l1, current_l2)
  <2>1. current_l1 \in Above(current_l2)
    BY <1>1, NodeTypes DEF Above
  <2>2. ASSUME NEW i \in Above(current_l2) PROVE i <= current_l1
    <3>1. i \in DOMAIN nodes /\ nodes[i].level < 2
      BY <1>1, NodeTypes DEF Above
    <3>2. nodes[i].level = 1
      BY <1>1, <3>1, NodeTypes DEF Nodes
    <3>3. QED BY <1>1, <3>1, <3>2
  <2>3. QED BY <2>1, <2>2 DEF Nearest
<1>3. PICK j \in DOMAIN nodes : OfParent(current_l2, j)
  BY <1>1 DEF NodesFit, NodeFits
<1>4. j = current_l1
  BY <1>1, <1>2, <1>3, NearestUnique DEF OfParent
<1>5. nodes[current_l2].inherited_description = nodes[current_l1].description
  BY <1>1, <1>3, <1>4, TopDescribesItself DEF OfParent
<1>6. QED BY <1>5 DEF Inherited, effective_description

LEMMA LeafStep ==
  ASSUME TInv, ParseLeaf
  PROVE  NodesType' /\ NodesFit' /\ CurrentFits'
<1>1. PICK n : n = Len(nodes)
  OBVIOUS
<1>2. PICK p : p = current_l2
  OBVIOUS
<1>3. NodesType /\ NodesFit /\ Reading /\ CurrentFits
  BY DEF TInv, ParseLeaf
<1>4. p \in DOMAIN nodes /\ p # None /\ nodes[p].level = 2 /\ nodes[p] \in Nodes
  BY <1>2, <1>3, NodeTypes DEF ParseLeaf, CurrentFits
<1>5. PICK inherited : inherited = effective_description(nodes[p])
  OBVIOUS
<1>6. PICK node \in NextNode(3, nodes[p].code, inherited) : nodes' = Adopt(p, node)
  <2>1. Inherited = inherited
    BY <1>2, <1>4, <1>5, InheritedIsEffective
  <2>2. QED BY <1>2, <2>1 DEF ParseLeaf
<1>7. nodes[p].code \in Positions \cup {None} /\ inherited \in Positions \cup {None}
  BY <1>4, <1>5 DEF Nodes, effective_description
<1>8. node \in Nodes /\ node.level = 3
  BY <1>3, <1>6, <1>7, NextNodeType
<1>9. Grows(p, node)
  BY <1>3, <1>4, <1>6, <1>8, AdoptGrows
<1>10. \A i \in DOMAIN nodes : nodes[i].level < 3 => i <= p
  <2>1. ASSUME NEW i \in DOMAIN nodes, nodes[i].level < 3 PROVE i <= p
    <3>1. nodes[i].level \in {1, 2}
      BY <2>1, <1>3, NodeTypes DEF Nodes
    <3>2. CASE nodes[i].level = 2
      BY <1>2, <1>3, <1>4, <3>2 DEF CurrentFits
    <3>3. CASE nodes[i].level = 1
      <4>1. i <= current_l1 /\ current_l1 < p /\ current_l1 \in DOMAIN nodes
        BY <1>2, <1>3, <1>4, <3>3 DEF CurrentFits
      <4>2. QED BY <4>1, <1>3, <1>4, NodeTypes
    <3>4. QED BY <3>1, <3>2, <3>3
  <2>2. QED BY <2>1
<1>11. NodesType' /\ NodesFit'
  BY <1>1, <1>3, <1>4, <1>5, <1>6, <1>7, <1>9, <1>10, NewNodeFits
<1>12. /\ n \in Nat /\ DOMAIN nodes = 1..n /\ DOMAIN nodes' = 1..(n + 1)
       /\ nodes'[n + 1].level = 3
       /\ \A i \in 1..n : nodes'[i].level = nodes[i].level
  <2>1. nodes'[n + 1] = node
    BY <1>1, <1>9 DEF Grows
  <2>2. QED BY <1>1, <1>3, <1>8, <1>9, <2>1, NodeTypes, OldNodes
<1>13. current_l1' = current_l1 /\ current_l2' = current_l2
  BY DEF ParseLeaf
<1>14. CurrentFits'
  <2>1. {current_l1, current_l2} \subseteq DOMAIN nodes' \cup {None}
    BY <1>3, <1>12 DEF CurrentFits
  <2>2. \A i \in DOMAIN nodes' : nodes'[i].level = 1 => i <= current_l1
    BY <1>3, <1>12 DEF CurrentFits
  <2>3. \A i \in DOMAIN nodes' : nodes'[i].level = 2 /\ current_l2 # None => i <= current_l2
    BY <1>3, <1>12 DEF CurrentFits
  <2>4. current_l1 # None => nodes'[current_l1].level = 1
    BY <1>3, <1>12 DEF CurrentFits
  <2>5. current_l2 # None =>
           nodes'[current_l2].level = 2 /\ current_l1 # None /\ current_l1 < current_l2
    BY <1>3, <1>12 DEF CurrentFits
  <2>6. QED BY <1>13, <2>1, <2>2, <2>3, <2>4, <2>5 DEF CurrentFits
<1>15. QED BY <1>11, <1>14

\* A step that reads no row leaves the list and its bookkeeping alone.
LEMMA ListUntouched ==
  ASSUME TInv, UNCHANGED <<nodes, current_l1, current_l2>>
  PROVE  /\ NodesType' /\ NodesFit' /\ CurrentFits'
         /\ [k \in DOMAIN nodes |-> encode(nodes[k])]' = [k \in DOMAIN nodes |-> encode(nodes[k])]
<1>1. NodesType'
  BY DEF TInv, NodesType
<1>2. NodesFit'
  BY DEF TInv, NodesFit, NodeFits, OfParent, Nearest, Above, effective_description
<1>3. CurrentFits'
  BY DEF TInv, CurrentFits
<1>4. [k \in DOMAIN nodes |-> encode(nodes[k])]' = [k \in DOMAIN nodes |-> encode(nodes[k])]
  BY DEF encode, effective_description
<1>5. QED BY <1>1, <1>2, <1>3, <1>4

LEMMA TInvStep ==
  ASSUME TInv, [Next]_vars
  PROVE  TInv'
<1>1. ASSUME phase = "parse", phase' = phase, file' = file PROVE FileFits'
  BY <1>1 DEF TInv, FileFits
<1>2. CASE ParseTop
  BY <1>1, <1>2, TopStep DEF TInv, ParseTop, Reading
<1>3. CASE ParseMiddle
  BY <1>1, <1>3, MiddleStep DEF TInv, ParseMiddle, Reading
<1>4. CASE ParseLeaf
  BY <1>1, <1>4, LeafStep DEF TInv, ParseLeaf, Reading
<1>5. CASE ParseFails
  <2>1. phase = "parse" /\ phase' = "failed" /\ file' = file
        /\ UNCHANGED <<nodes, current_l1, current_l2>>
    BY <1>5 DEF ParseFails, Reading
  <2>2. FileFits'
    BY <2>1 DEF TInv, FileFits
  <2>3. QED BY <2>1, <2>2, ListUntouched DEF TInv
<1>6. CASE WriteJson
  <2>1. /\ phase' = "written" /\ file' = [k \in DOMAIN nodes |-> encode(nodes[k])]
        /\ UNCHANGED <<nodes, current_l1, current_l2>>
    BY <1>6 DEF WriteJson
  <2>2. FileFits'
    BY <2>1, ListUntouched DEF FileFits
  <2>3. QED BY <2>1, <2>2, ListUntouched DEF TInv
<1>7. ASSUME UNCHANGED <<nodes, current_l1, current_l2, phase, file>> PROVE TInv'
  <2>1. FileFits'
    BY <1>7, ListUntouched DEF TInv, FileFits
  <2>2. QED BY <1>7, <2>1, ListUntouched DEF TInv
<1>8. CASE Choose
  BY <1>7, <1>8 DEF Choose
<1>9. CASE UNCHANGED vars
  BY <1>7, <1>9 DEF vars
<1>10. QED BY <1>2, <1>3, <1>4, <1>5, <1>6, <1>8, <1>9 DEF Next

LEMMA TInvInit ==
  ASSUME Init
  PROVE  TInv
<1>1. nodes = <<>> /\ current_l1 = None /\ current_l2 = None /\ file = <<>> /\ phase = "parse"
  BY DEF Init
<1>2. DOMAIN nodes = {} /\ NodesType
  BY <1>1, TaxonomyAssumption DEF NodesType
<1>3. QED BY <1>1, <1>2 DEF TInv, CurrentFits, NodesFit, FileFits

-----------------------------------------------------------------------------
(* The theorems.                                                           *)

\* In every reachable state the nodes that parse_xlsx has built, what it
\* carries from row to row and the file fit together.
THEOREM TaxonomyInvariance == Spec => []TInv
<1>1. Init => TInv
  BY TInvInit
<1>2. TInv /\ [Next]_vars => TInv'
  BY TInvStep
<1>3. QED BY <1>1, <1>2, PTL DEF Spec

\* What a category other than a top one owes to its parent.
LEMMA OfItsParent ==
  ASSUME TInv, NEW k \in DOMAIN nodes, nodes[k].level # 1
  PROVE  Parent(k) \in DOMAIN nodes /\ OfParent(k, Parent(k))
<1>1. PICK j \in DOMAIN nodes : OfParent(k, j)
  BY DEF TInv, NodesFit, NodeFits
<1>2. Parent(k) = j
  BY <1>1, ParentIsNearest DEF TInv, OfParent
<1>3. QED BY <1>1, <1>2

LEMMA TreeFollows ==
  ASSUME TInv
  PROVE  TreeIsOfSheet
<1> SUFFICES ASSUME NEW k \in DOMAIN nodes
             PROVE  /\ nodes[k].level = 1 <=> Parent(k) = None
                    /\ Parent(k) # None =>
                          /\ nodes[Parent(k)].level = nodes[k].level - 1
                          /\ nodes[k].parent_code = nodes[Parent(k)].code
                    /\ \A j \in DOMAIN nodes : k \in nodes[j].children <=> j = Parent(k)
  BY DEF TreeIsOfSheet
<1>1. NodesType /\ k \in Positions /\ \A j \in DOMAIN nodes : j # None
  BY NodeTypes DEF TInv
<1>2. \A j \in DOMAIN nodes : k \in nodes[j].children <=> Nearest(j, k)
  BY <1>1 DEF TInv, NodesFit, NodeFits
<1>3. CASE nodes[k].level = 1
  BY <1>1, <1>2, <1>3, TopHasNoneAbove
<1>4. CASE nodes[k].level # 1
  <2>1. Parent(k) \in DOMAIN nodes /\ OfParent(k, Parent(k))
    BY <1>4, OfItsParent
  <2>2. \A j \in DOMAIN nodes : Nearest(j, k) <=> j = Parent(k)
    BY <1>1, <2>1, NearestUnique DEF OfParent
  <2>3. QED BY <1>1, <1>2, <1>4, <2>1, <2>2 DEF OfParent
<1>5. QED BY <1>3, <1>4

\* The tree that the parser builds is that of the workbook: the nearest
\* category of a higher rank, and nothing else, has the node as its child.
THEOREM TreesAreOfSheets == Spec => []TreeIsOfSheet
<1>1. QED BY TaxonomyInvariance, TreeFollows, PTL

LEMMA LinksFollow ==
  ASSUME TInv
  PROVE  LinksAgree
<1> SUFFICES ASSUME NEW j \in DOMAIN file, NEW k \in DOMAIN file,
                    file[j].code # None, file[k].code # None
             PROVE  file[k].parent_code = file[j].code <=> file[k].code \in file[j].children_codes
  BY DEF LinksAgree
<1>1. file = [i \in DOMAIN nodes |-> encode(nodes[i])]
  BY DEF TInv, FileFits
<1>2. /\ NodesType /\ j \in DOMAIN nodes /\ k \in DOMAIN nodes /\ k \in Positions /\ j # None
      /\ nodes[j] \in Nodes
  BY <1>1, NodeTypes DEF TInv
<1>3. /\ file[j].code = nodes[j].code /\ file[k].code = nodes[k].code
      /\ file[k].parent_code = nodes[k].parent_code
      /\ file[j].children_codes = {nodes[c].code : c \in nodes[j].children} \ {None}
  BY <1>1, <1>2 DEF encode
<1>4. nodes[j].code = j /\ nodes[k].code = k /\ k # None
  BY <1>2, <1>3 DEF TInv, NodesFit, NodeFits
<1>5. \A c \in nodes[j].children : c \in DOMAIN nodes /\ nodes[c].code \in {c, None}
  <2>1. nodes[j].children \subseteq Positions
    BY <1>2 DEF Nodes
  <2>2. QED BY <1>2, <2>1 DEF TInv, NodesFit, NodeFits
<1>6. k \in file[j].children_codes <=> k \in nodes[j].children
  BY <1>3, <1>4, <1>5
<1>7. k \in nodes[j].children <=> Nearest(j, k)
  BY <1>2 DEF TInv, NodesFit, NodeFits
<1>8. CASE nodes[k].level = 1
  <2>1. nodes[k].parent_code = None
    BY <1>2, <1>8 DEF TInv, NodesFit, NodeFits
  <2>2. ~Nearest(j, k)
    BY <1>2, <1>8, TopHasNoneAbove
  <2>3. QED BY <1>2, <1>3, <1>4, <1>6, <1>7, <2>1, <2>2
<1>9. CASE nodes[k].level # 1
  <2>1. PICK i \in DOMAIN nodes : OfParent(k, i)
    BY <1>2, <1>9 DEF TInv, NodesFit, NodeFits
  <2>2. nodes[k].parent_code = nodes[i].code /\ nodes[i].code \in {i, None} /\ Nearest(i, k)
    BY <2>1 DEF OfParent, TInv, NodesFit, NodeFits
  <2>3. nodes[k].parent_code = j <=> i = j
    BY <1>2, <1>4, <2>2
  <2>4. i = j <=> Nearest(j, k)
    BY <1>2, <2>2, NearestUnique
  <2>5. QED BY <1>3, <1>4, <1>6, <1>7, <2>3, <2>4
<1>10. QED BY <1>8, <1>9

\* In the file parent_code and children_codes tell the same tree.
THEOREM LinksAlwaysAgree == Spec => []LinksAgree
<1>1. QED BY TaxonomyInvariance, LinksFollow, PTL

\* What a node below the top says of itself, or else its parent does.
LEMMA EffectiveBelow ==
  ASSUME TInv, NEW k \in DOMAIN nodes, nodes[k].level # 1
  PROVE  effective_description(nodes[k]) =
            IF nodes[k].description # None THEN nodes[k].description
            ELSE effective_description(nodes[Parent(k)])
<1>1. nodes[k].inherited_description = effective_description(nodes[Parent(k)])
  BY OfItsParent DEF OfParent
<1>2. QED BY <1>1 DEF effective_description

LEMMA InheritanceFollows ==
  ASSUME TInv
  PROVE  InheritsNearest
<1> DEFINE Lineage(k) == {k, Parent(k), IF Parent(k) = None THEN None ELSE Parent(Parent(k))}
           Described(k) == {j \in Lineage(k) \ {None} : nodes[j].description # None}
           Nearby(k) == IF Described(k) = {} THEN file[k].effective_description = None
                        ELSE \E j \in Described(k) :
                                /\ \A i \in Described(k) : i <= j
                                /\ file[k].effective_description = nodes[j].description
<1> SUFFICES ASSUME NEW k \in DOMAIN file PROVE Nearby(k)
  BY DEF InheritsNearest
<1>1. file = [i \in DOMAIN nodes |-> encode(nodes[i])]
  BY DEF TInv, FileFits
<1>2. k \in DOMAIN nodes /\ k \in Nat /\ k # None /\ NodesType /\ NodesFit
  BY <1>1, NodeTypes DEF TInv
<1>3. file[k].effective_description = effective_description(nodes[k])
  BY <1>1, <1>2 DEF encode
<1>4. CASE nodes[k].level = 1
  <2>1. Parent(k) = None /\ effective_description(nodes[k]) = nodes[k].description
    BY <1>2, <1>4, TopHasNoneAbove, TopDescribesItself
  <2>2. Described(k) = IF nodes[k].description = None THEN {} ELSE {k}
    BY <1>2, <2>1
  <2>3. QED BY <1>2, <1>3, <2>1, <2>2
<1>5. CASE nodes[k].level # 1
  <2>1. PICK j \in DOMAIN nodes : j = Parent(k) /\ OfParent(k, j)
    BY <1>2, <1>5, OfItsParent
  <2>2. j \in Nat /\ j # None /\ j < k /\ nodes[j].level = nodes[k].level - 1
    BY <1>2, <2>1, NodeTypes DEF OfParent, Nearest, Above
  <2>3. effective_description(nodes[k]) =
           IF nodes[k].description # None THEN nodes[k].description
           ELSE effective_description(nodes[j])
    BY <1>2, <1>5, <2>1, EffectiveBelow
  <2>4. CASE nodes[j].level = 1
    <3>1. Parent(j) = None /\ effective_description(nodes[j]) = nodes[j].description
      BY <1>2, <2>4, TopHasNoneAbove, TopDescribesItself
    <3>2. Described(k) = {i \in {k, j} : nodes[i].description # None}
      BY <1>2, <2>1, <2>2, <3>1
    <3>3. CASE nodes[k].description # None
      BY <1>2, <1>3, <2>2, <2>3, <3>2, <3>3
    <3>4. CASE nodes[k].description = None
      BY <1>2, <1>3, <2>2, <2>3, <3>1, <3>2, <3>4
    <3>5. QED BY <3>3, <3>4
  <2>5. CASE nodes[j].level # 1
    <3>1. PICK h \in DOMAIN nodes : h = Parent(j) /\ OfParent(j, h)
      BY <2>5, OfItsParent
    <3>2. h \in Nat /\ h # None /\ h < j /\ nodes[h].level = nodes[j].level - 1
      BY <1>2, <2>2, <3>1, NodeTypes DEF OfParent, Nearest, Above
    <3>3. nodes[h].level = 1
      <4>1. nodes[k].level \in 1..3 /\ nodes[h].level \in 1..3
        BY <1>2, NodeTypes DEF Nodes
      <4>2. QED BY <2>2, <3>2, <4>1
    <3>4. effective_description(nodes[h]) = nodes[h].description
      BY <1>2, <3>3, TopDescribesItself
    <3>5. effective_description(nodes[j]) =
             IF nodes[j].description # None THEN nodes[j].description ELSE nodes[h].description
      BY <2>5, <3>1, <3>4, EffectiveBelow
    <3>6. Described(k) = {i \in {k, j, h} : nodes[i].description # None}
      BY <1>2, <2>1, <2>2, <3>1, <3>2
    <3>7. CASE nodes[k].description # None
      BY <1>2, <1>3, <2>2, <2>3, <3>2, <3>6, <3>7
    <3>8. CASE nodes[k].description = None /\ nodes[j].description # None
      BY <1>2, <1>3, <2>2, <2>3, <3>2, <3>5, <3>6, <3>8
    <3>9. CASE nodes[k].description = None /\ nodes[j].description = None
      BY <1>2, <1>3, <2>2, <2>3, <3>2, <3>5, <3>6, <3>9
    <3>10. QED BY <3>7, <3>8, <3>9
  <2>6. QED BY <2>4, <2>5
<1>6. QED BY <1>4, <1>5

\* The description in the file is that of the nearest category on the way up
\* which has one.
THEOREM InheritanceIsNearest == Spec => []InheritsNearest
<1>1. QED BY TaxonomyInvariance, InheritanceFollows, PTL

-----------------------------------------------------------------------------
(* Type correctness.                                                       *)

\* The select boxes are empty until the file is there.
ChoiceFits ==
    /\ choice \in Seq(DOMAIN file \cup {None}) /\ Len(choice) \in {0, 3}
    /\ phase # "written" => choice = <<>>

LEMMA ChoiceStep ==
  ASSUME TInv, ChoiceFits, [Next]_vars
  PROVE  ChoiceFits'
<1>1. ASSUME choice' = <<>> PROVE ChoiceFits'
  BY <1>1 DEF ChoiceFits
<1>2. CASE ParseTop \/ ParseMiddle \/ ParseLeaf \/ ParseFails \/ WriteJson
  <2>1. phase = "parse" /\ choice' = choice
    BY <1>2 DEF ParseTop, ParseMiddle, ParseLeaf, ParseFails, WriteJson, Reading
  <2>2. QED BY <1>1, <2>1 DEF ChoiceFits
<1>3. CASE Choose
  <2>1. PICK top \in TopLevel : \E mid \in OrNone(Mids(top)) :
           \E leaf \in OrNone(Leaves(mid)) : choice' = <<top, mid, leaf>>
    BY <1>3 DEF Choose
  <2>2. PICK mid \in OrNone(Mids(top)) :
           \E leaf \in OrNone(Leaves(mid)) : choice' = <<top, mid, leaf>>
    BY <2>1
  <2>3. PICK leaf \in OrNone(Leaves(mid)) : choice' = <<top, mid, leaf>>
    BY <2>2
  <2>4. {top, mid, leaf} \subseteq DOMAIN file \cup {None}
    BY DEF TopLevel, OrNone, Mids, Leaves, Below
  <2>5. file' = file /\ phase' = phase /\ phase = "written"
    BY <1>3 DEF Choose
  <2>6. choice' \in Seq(DOMAIN file \cup {None}) /\ Len(choice') = 3
    BY <2>3, <2>4
  <2>7. QED BY <2>5, <2>6 DEF ChoiceFits
<1>4. CASE UNCHANGED vars
  BY <1>4 DEF vars, ChoiceFits
<1>5. QED BY <1>2, <1>3, <1>4 DEF Next

LEMMA TypeFollows ==
  ASSUME TInv, ChoiceFits
  PROVE  TypeOK
<1>1. /\ NodesType /\ DOMAIN nodes = 1..Len(nodes) /\ Len(nodes) \in Nat
      /\ \A k \in DOMAIN nodes : nodes[k] \in Nodes
  BY NodeTypes DEF TInv
<1>2. IsList(nodes, Nodes) /\ Len(nodes) <= MaxRows
  BY <1>1 DEF IsList, NodesType
<1>3. \A k \in DOMAIN nodes : encode(nodes[k]) \in Entries
  <2>1. ASSUME NEW k \in DOMAIN nodes PROVE encode(nodes[k]) \in Entries
    <3>1. nodes[k] \in Nodes /\ nodes[k].children \subseteq DOMAIN nodes
      <4>1. nodes[k].children \subseteq Positions
        BY <1>1 DEF Nodes
      <4>2. \A c \in Positions : c \in nodes[k].children => c \in DOMAIN nodes
        BY DEF TInv, NodesFit, NodeFits
      <4>3. QED BY <1>1, <4>1, <4>2
    <3>2. {nodes[c].code : c \in nodes[k].children} \ {None} \subseteq Positions
      BY <1>1, <3>1 DEF Nodes
    <3>3. effective_description(nodes[k]) \in Positions \cup {None}
      BY <3>1 DEF effective_description, Nodes
    <3>4. /\ nodes[k].code \in Positions \cup {None} /\ nodes[k].level \in 1..3
          /\ nodes[k].parent_code \in Positions \cup {None}
      BY <3>1 DEF Nodes
    <3>5. QED BY <3>2, <3>3, <3>4 DEF encode, Entries
  <2>2. QED BY <2>1
<1>4. IsList(file, Entries)
  <2>1. CASE file = <<>>
    BY <2>1 DEF IsList
  <2>2. CASE file = [k \in DOMAIN nodes |-> encode(nodes[k])]
    <3>1. DOMAIN file = 1..Len(nodes) /\ \A k \in 1..Len(nodes) : file[k] \in Entries
      BY <1>1, <1>3, <2>2
    <3>2. file \in [1..Len(nodes) -> Entries]
      BY <1>1, <1>3, <2>2
    <3>3. Len(file) = Len(nodes)
      BY <1>1, <3>2
    <3>4. QED BY <3>1, <3>3 DEF IsList
  <2>3. QED BY <2>1, <2>2 DEF TInv, FileFits
<1>5. QED BY <1>2, <1>4 DEF TypeOK, ChoiceFits, TInv, CurrentFits, FileFits

\* In every reachable state the variables have the types that TypeOK gives.
THEOREM TreeTypeCorrect == Spec => []TypeOK
<1>1. Init => ChoiceFits
  BY DEF Init, ChoiceFits
<1>2. TInv /\ ChoiceFits /\ [Next]_vars => ChoiceFits'
  BY ChoiceStep
<1>3. TInv /\ ChoiceFits => TypeOK
  BY TypeFollows
<1>4. QED BY TaxonomyInvariance, <1>1, <1>2, <1>3, PTL DEF Spec

=============================================================================
