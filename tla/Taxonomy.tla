------------------------------ MODULE Taxonomy ------------------------------
(***************************************************************************)
(* The tree of categories: parse_xlsx reads the rows of the workbook, a    *)
(* JSON file takes the nodes, and the review page offers them in three     *)
(* select boxes that depend on each other.                                 *)
(*                                                                         *)
(* Source: src/lib/taxonomy.py, scripts/parse_taxonomy.py and              *)
(* src/hitl_ui/pages/1_review_queue.py.                                    *)
(***************************************************************************)
EXTENDS Naturals, Sequences, FiniteSets

CONSTANT MaxRows  \* bound: rows of the workbook that name a category

ASSUME TaxonomyAssumption == MaxRows \in Nat

VARIABLES
    nodes,       \* parse_xlsx: the list it returns
    current_l1,  \* position in nodes of the last top category, or None
    current_l2,  \* the same of the last middle category
    phase,
    file,        \* taxonomy_tree.json
    choice       \* what the select boxes of the page hold

vars == <<nodes, current_l1, current_l2, phase, file, choice>>

\* A code and a description of a node are named by its position in the list,
\* since no two categories of the workbook share one. None also is the empty
\* description.
None == 0
Positions == 1..MaxRows
OrNone(S) == IF S = {} THEN {None} ELSE S

Nodes ==
    [code : Positions \cup {None}, description : Positions \cup {None},
     inherited_description : Positions \cup {None}, level : 1..3,
     parent_code : Positions \cup {None}, children : SUBSET Positions]

Entries ==
    [code : Positions \cup {None}, effective_description : Positions \cup {None},
     level : 1..3, parent_code : Positions \cup {None},
     children_codes : SUBSET Positions]

IsList(list, S) == DOMAIN list = 1..Len(list) /\ \A k \in DOMAIN list : list[k] \in S

TypeOK ==
    /\ IsList(nodes, Nodes) /\ Len(nodes) <= MaxRows
    /\ {current_l1, current_l2} \subseteq DOMAIN nodes \cup {None}
    /\ phase \in {"parse", "failed", "written"}
    /\ IsList(file, Entries)
    /\ choice \in Seq(DOMAIN file \cup {None}) /\ Len(choice) \in {0, 3}

-----------------------------------------------------------------------------
(* parse_xlsx. A row without any name is skipped and is no step.           *)

\* The next node of the list. Its own code and description may be missing.
NextNode(level, parent_code, inherited) ==
    LET own == Len(nodes) + 1
    IN [code : {own, None}, description : {own, None},
        inherited_description : {inherited}, level : {level},
        parent_code : {parent_code}, children : {{}}]

\* Mutant of Adopt: the new node is missing from the children of its parent.
Orphan(parent, node) == Append(nodes, node)

\* The new node goes to the end of the list and to the children of its parent.
Adopt(parent, node) ==
    [k \in 1..(Len(nodes) + 1) |->
        IF k > Len(nodes) THEN node
        ELSE IF k = parent THEN [nodes[k] EXCEPT !.children = @ \cup {Len(nodes) + 1}]
        ELSE nodes[k]]

Reading == phase = "parse" /\ Len(nodes) < MaxRows

\* Mutant of ParseTop: a new top category leaves the middle one in place.
ParseTopOnly ==
    /\ Reading
    /\ \E node \in NextNode(1, None, None) : nodes' = Append(nodes, node)
    /\ current_l1' = Len(nodes) + 1
    /\ UNCHANGED <<current_l2, phase, file, choice>>

ParseTop ==
    /\ Reading
    /\ \E node \in NextNode(1, None, None) : nodes' = Append(nodes, node)
    /\ current_l1' = Len(nodes) + 1
    /\ current_l2' = None
    /\ UNCHANGED <<phase, file, choice>>

\* Mutant of ParseMiddle: its nodes take the place of the top category.
ParseMiddleAsTop ==
    /\ Reading
    /\ current_l1 # None
    /\ \E node \in NextNode(2, nodes[current_l1].code, nodes[current_l1].description) :
          nodes' = Adopt(current_l1, node)
    /\ current_l1' = Len(nodes) + 1
    /\ current_l2' = Len(nodes) + 1
    /\ UNCHANGED <<phase, file, choice>>

ParseMiddle ==
    /\ Reading
    /\ current_l1 # None
    /\ \E node \in NextNode(2, nodes[current_l1].code, nodes[current_l1].description) :
          nodes' = Adopt(current_l1, node)
    /\ current_l2' = Len(nodes) + 1
    /\ UNCHANGED <<current_l1, phase, file, choice>>

\* Mutant of Inherited: a leaf looks no further than its middle category.
InheritedFromMiddle == nodes[current_l2].description

\* What a leaf inherits.
Inherited ==
    IF nodes[current_l2].description # None THEN nodes[current_l2].description
    ELSE nodes[current_l1].description

ParseLeaf ==
    /\ Reading
    /\ current_l2 # None
    /\ \E node \in NextNode(3, nodes[current_l2].code, Inherited) :
          nodes' = Adopt(current_l2, node)
    /\ UNCHANGED <<current_l1, current_l2, phase, file, choice>>

\* The assertions of parse_xlsx: a middle category or a leaf that comes before
\* any category above it.
ParseFails ==
    /\ Reading
    /\ current_l2 = None
    /\ phase' = "failed"
    /\ UNCHANGED <<nodes, current_l1, current_l2, file, choice>>

-----------------------------------------------------------------------------
(* to_json.                                                                *)

effective_description(node) ==
    IF node.description # None THEN node.description ELSE node.inherited_description

\* Mutant of encode: children without a code are not left out.
encodeAllChildren(node) ==
    [code |-> node.code, effective_description |-> effective_description(node),
     level |-> node.level, parent_code |-> node.parent_code,
     children_codes |-> {nodes[c].code : c \in node.children}]

\* An entry of the file; children without a code are left out.
encode(node) ==
    [code |-> node.code, effective_description |-> effective_description(node),
     level |-> node.level, parent_code |-> node.parent_code,
     children_codes |-> {nodes[c].code : c \in node.children} \ {None}]

WriteJson ==
    /\ phase = "parse"
    /\ phase' = "written"
    /\ file' = [k \in DOMAIN nodes |-> encode(nodes[k])]
    /\ UNCHANGED <<nodes, current_l1, current_l2, choice>>

-----------------------------------------------------------------------------
(* The select boxes of the page.                                           *)

\* _walk puts every entry of the file into flat, under the parent code that it
\* is called with: None, since no entry has a key "children" to walk into.
FlatParentCode(k) == None

Below(level, code) ==
    {k \in DOMAIN file : file[k].level = level /\ FlatParentCode(k) = code}

TopLevel == {k \in DOMAIN file : file[k].level = 1}
Mids(top) == Below(2, file[top].code)
Leaves(mid) == IF mid = None THEN {} ELSE Below(3, file[mid].code)

\* A choice in each of the boxes that are there.
Choose ==
    /\ phase = "written" /\ choice = <<>>
    /\ \E top \in TopLevel : \E mid \in OrNone(Mids(top)) :
          \E leaf \in OrNone(Leaves(mid)) : choice' = <<top, mid, leaf>>
    /\ UNCHANGED <<nodes, current_l1, current_l2, phase, file>>

-----------------------------------------------------------------------------

Init ==
    /\ nodes = <<>> /\ file = <<>> /\ choice = <<>>
    /\ current_l1 = None /\ current_l2 = None
    /\ phase = "parse"

Next ==
    \/ ParseTop \/ ParseMiddle \/ ParseLeaf \/ ParseFails
    \/ WriteJson
    \/ Choose

Spec == Init /\ [][Next]_vars

-----------------------------------------------------------------------------
(* Properties.                                                             *)

\* The reference: what a category belongs to is the last one before it that
\* is of a higher rank.
Above(k) == {j \in 1..(k - 1) : nodes[j].level < nodes[k].level}
Parent(k) ==
    IF Above(k) = {} THEN None
    ELSE CHOOSE j \in Above(k) : \A i \in Above(k) : i <= j

\* The parser builds the tree of the workbook: the nearest category of a
\* higher rank is one rank above, it and nothing else has the node among its
\* children, and the node carries its code.
TreeIsOfSheet ==
    \A k \in DOMAIN nodes :
        /\ nodes[k].level = 1 <=> Parent(k) = None
        /\ Parent(k) # None =>
              /\ nodes[Parent(k)].level = nodes[k].level - 1
              /\ nodes[k].parent_code = nodes[Parent(k)].code
        /\ \A j \in DOMAIN nodes : k \in nodes[j].children <=> j = Parent(k)

\* The description in the file is that of the nearest category on the way up
\* that has one, which is what the prompt tells the model.
InheritsNearest ==
    LET Lineage(k) == {k, Parent(k), IF Parent(k) = None THEN None ELSE Parent(Parent(k))}
        Described(k) == {j \in Lineage(k) \ {None} : nodes[j].description # None}
    IN \A k \in DOMAIN file :
          IF Described(k) = {} THEN file[k].effective_description = None
          ELSE \E j \in Described(k) :
                  /\ \A i \in Described(k) : i <= j
                  /\ file[k].effective_description = nodes[j].description

\* The file has each edge twice, as parent_code and in children_codes, and
\* wherever the parent has a code the two agree.
LinksAgree ==
    \A j, k \in DOMAIN file :
        file[j].code # None /\ file[k].code # None =>
            (file[k].parent_code = file[j].code <=> file[k].code \in file[j].children_codes)

-----------------------------------------------------------------------------
(* What the documents say and the code does not do.                        *)

\* Design 6.1 of the review page, "cascade" from the top category down: each
\* box offers the categories under the one chosen in the box above it.
CascadeFollowsTree ==
    choice # <<>> =>
        /\ choice[2] \in OrNone(nodes[choice[1]].children)
        /\ choice[2] # None => choice[3] \in OrNone(nodes[choice[2]].children)

=============================================================================
