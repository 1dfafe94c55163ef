-------------------------- MODULE ConversationProofs --------------------------
(***************************************************************************)
(* Every node of the conversation trees descends from a root, for any ids, *)
(* tenants and additions.                                                  *)
(***************************************************************************)
EXTENDS Conversation, TLAPS

\* The kinds of the variables that Lineage relies on: items are sequences,
\* versions are numbers, and a node's id has not ended.
NodesOK ==
  /\ DOMAIN nodes \subseteq Ids
  /\ DOMAIN nodes \cap ended = {}
  /\ \A i \in DOMAIN nodes : nodes[i].items \in Seq(Items) /\ nodes[i].version \in Nat

\* What adding a node changes: the new node, and nothing else.
LEMMA AddedNode ==
  ASSUME NEW id, NEW node, Unused(id), Add(id, node)
  PROVE  /\ DOMAIN nodes' = DOMAIN nodes \cup {id}
         /\ nodes'[id] = node
         /\ \A i \in DOMAIN nodes : nodes'[i] = nodes[i]
         /\ id \notin DOMAIN nodes
         /\ id \notin ended
BY DEF Add, Unused

\* A continued node begins with its parent's items.
LEMMA ItemsOfContinuation ==
  ASSUME NEW up \in Seq(Items), NEW added \in Seq(Items)
  PROVE  /\ up \o added \in Seq(Items)
         /\ Len(up) <= Len(up \o added)
         /\ \A k \in 1..Len(up) : (up \o added)[k] = up[k]
OBVIOUS

\* The invariant of the trees.
IInv == NodesOK /\ Lineage

LEMMA TreeInit == Init => IInv
BY DEF Init, IInv, NodesOK, Lineage

LEMMA BeginKeeps ==
  ASSUME NEW id \in Ids, IInv, Begin(id)
  PROVE  IInv'
<1>1. PICK tenant \in Tenants, items \in Additions : Add(id, Node(NoId, tenant, 1, items))
  BY DEF Begin
<1> DEFINE new == Node(NoId, tenant, 1, items)
<1>2. /\ DOMAIN nodes' = DOMAIN nodes \cup {id}
      /\ nodes'[id] = new
      /\ \A i \in DOMAIN nodes : nodes'[i] = nodes[i]
      /\ id \notin DOMAIN nodes
      /\ id \notin ended
      /\ ended' = ended
  BY <1>1, AddedNode DEF Begin
<1>3. /\ new.parent = NoId
      /\ new.version = 1
      /\ new.items \in Seq(Items)
  BY AdditionsAssumption DEF Node
<1> HIDE DEF new
<1>4. NodesOK'
  BY <1>2, <1>3 DEF IInv, NodesOK
<1>5. Lineage'
  BY <1>2, <1>3 DEF IInv, Lineage
<1> QED
  BY <1>4, <1>5 DEF IInv

LEMMA ContinueKeeps ==
  ASSUME NEW id \in Ids, NEW parent \in Ids, IInv, Continue(id, parent)
  PROVE  IInv'
<1> DEFINE up == nodes[parent]
<1>1. PICK items \in Additions :
        Add(id, Node(parent, up.tenant, up.version + 1, up.items \o items))
  BY DEF Continue
<1> DEFINE new == Node(parent, up.tenant, up.version + 1, up.items \o items)
<1>2. /\ DOMAIN nodes' = DOMAIN nodes \cup {id}
      /\ nodes'[id] = new
      /\ \A i \in DOMAIN nodes : nodes'[i] = nodes[i]
      /\ id \notin DOMAIN nodes
      /\ id \notin ended
      /\ ended' = ended
      /\ parent \in DOMAIN nodes
  BY <1>1, AddedNode DEF Continue
<1>3. /\ up.items \in Seq(Items)
      /\ up.version \in Nat
      /\ items \in Seq(Items)
  BY <1>2, AdditionsAssumption DEF IInv, NodesOK
<1>4. /\ new.parent = parent
      /\ new.tenant = up.tenant
      /\ new.version = up.version + 1
      /\ new.items = up.items \o items
  BY DEF Node
<1>5. /\ new.items \in Seq(Items)
      /\ new.version \in Nat
      /\ Len(up.items) <= Len(new.items)
      /\ \A k \in 1..Len(up.items) : new.items[k] = up.items[k]
  <2> HIDE DEF up, new
  <2> QED
    BY <1>3, <1>4, ItemsOfContinuation
<1>6. /\ nodes'[parent] = up
      /\ parent \in DOMAIN nodes' \ ended'
  BY <1>2 DEF IInv, NodesOK
<1> HIDE DEF up, new
<1>7. NodesOK'
  <2>1. NodesOK
    BY DEF IInv
  <2> QED
    BY <1>2, <1>5, <2>1 DEF NodesOK
<1>8. Lineage'
  <2> SUFFICES ASSUME NEW i \in DOMAIN nodes'
               PROVE  LET node == nodes'[i] IN
                        \/ node.parent = NoId /\ node.version = 1
                        \/ /\ node.parent \in DOMAIN nodes' \ ended'
                           /\ LET above == nodes'[node.parent] IN
                                /\ node.tenant = above.tenant
                                /\ node.version = above.version + 1
                                /\ Len(above.items) <= Len(node.items)
                                /\ \A k \in 1..Len(above.items) : node.items[k] = above.items[k]
    BY DEF Lineage
  <2>1. CASE i = id
    BY <1>2, <1>4, <1>5, <1>6, <2>1
  <2>2. CASE i # id
    <3>1. i \in DOMAIN nodes /\ ended' = ended /\ DOMAIN nodes \subseteq DOMAIN nodes'
      BY <1>2, <2>2
    <3>2. nodes'[i] = nodes[i]
      BY <1>2, <3>1
    <3>3. CASE nodes[i].parent = NoId /\ nodes[i].version = 1
      BY <3>2, <3>3
    <3>4. CASE ~ (nodes[i].parent = NoId /\ nodes[i].version = 1)
      <4>1. /\ nodes[i].parent \in DOMAIN nodes \ ended
            /\ LET above == nodes[nodes[i].parent] IN
                 /\ nodes[i].tenant = above.tenant
                 /\ nodes[i].version = above.version + 1
                 /\ Len(above.items) <= Len(nodes[i].items)
                 /\ \A k \in 1..Len(above.items) : nodes[i].items[k] = above.items[k]
        BY <3>1, <3>4 DEF IInv, Lineage
      <4>2. nodes'[nodes[i].parent] = nodes[nodes[i].parent]
        BY <1>2, <4>1
      <4> QED
        BY <3>1, <3>2, <4>1, <4>2
    <3> QED
      BY <3>3, <3>4
  <2> QED
    BY <2>1, <2>2
<1> QED
  BY <1>7, <1>8 DEF IInv

LEMMA EndKeeps ==
  ASSUME NEW id \in Ids, IInv, End(id)
  PROVE  IInv'
<1>1. /\ nodes' = nodes
      /\ ended' = ended \cup {id}
      /\ id \notin DOMAIN nodes
  BY DEF End, Unused
<1>2. NodesOK'
  BY <1>1 DEF IInv, NodesOK
<1>3. Lineage'
  BY <1>1 DEF IInv, Lineage, NodesOK
<1> QED
  BY <1>2, <1>3 DEF IInv

LEMMA TreeStep == IInv /\ [Next]_treeVars => IInv'
<1> SUFFICES ASSUME IInv, [Next]_treeVars
             PROVE  IInv'
  OBVIOUS
<1>1. CASE Next
  BY <1>1, BeginKeeps, ContinueKeeps, EndKeeps DEF Next
<1>2. CASE UNCHANGED treeVars
  BY <1>2 DEF treeVars, IInv, NodesOK, Lineage
<1> QED
  BY <1>1, <1>2

\* A node is the next version of a node that is there, has its tenant, and
\* begins with its items: continuing a response never forks its past.
THEOREM LineageHolds == Spec => []Lineage
<1>1. IInv => Lineage
  BY DEF IInv
<1> QED
  BY TreeInit, TreeStep, <1>1, PTL DEF Spec
===============================================================================
