---------------------------- MODULE Conversation -----------------------------
(***************************************************************************)
(* What previous_response_id promises to a client: the completed responses *)
(* are the nodes of trees that only grow.  A node is whole when it appears *)
(* and never changes; it holds its parent's items followed by its own, its *)
(* parent's tenant, and the version after its parent's.  A response that   *)
(* did not complete is no node and is never continued.                     *)
(*                                                                         *)
(* TurnDriver.tla implements this specification.                           *)
(***************************************************************************)
EXTENDS Naturals, Sequences

CONSTANTS
  Ids,        \* response ids
  NoId,       \* the parent of a root
  Tenants,    \* tenants
  Items,      \* the items of transcripts
  Additions   \* the sequences of items that a turn may add to its parent's

ASSUME NoIdAssumption == NoId \notin Ids
ASSUME AdditionsAssumption == Additions \subseteq Seq(Items)

VARIABLES
  nodes,  \* id |-> node
  ended   \* the ids of the responses that ended without completing

treeVars == <<nodes, ended>>

Node(parent, tenant, version, items) ==
  [parent |-> parent, tenant |-> tenant, version |-> version, items |-> items]

\* The id is no response's yet.
Unused(id) == id \notin DOMAIN nodes \cup ended

Add(id, node) ==
  nodes' = [i \in DOMAIN nodes \cup {id} |-> IF i = id THEN node ELSE nodes[i]]

-----------------------------------------------------------------------------

\* A conversation starts.
Begin(id) ==
  /\ Unused(id)
  /\ \E tenant \in Tenants, items \in Additions : Add(id, Node(NoId, tenant, 1, items))
  /\ UNCHANGED ended

\* Mutant of Continue: the version does not advance.
ContinueInPlace(id, parent) ==
  /\ Unused(id)
  /\ parent \in DOMAIN nodes
  /\ \E items \in Additions :
       Add(id, Node(parent, nodes[parent].tenant, nodes[parent].version,
                    nodes[parent].items \o items))
  /\ UNCHANGED ended

\* A response is continued; any number of times.
Continue(id, parent) ==
  /\ Unused(id)
  /\ parent \in DOMAIN nodes
  /\ \E items \in Additions :
       Add(id, Node(parent, nodes[parent].tenant, nodes[parent].version + 1,
                    nodes[parent].items \o items))
  /\ UNCHANGED ended

\* A turn fails or stays incomplete.
End(id) ==
  /\ Unused(id)
  /\ ended' = ended \cup {id}
  /\ UNCHANGED nodes

Init ==
  /\ nodes = [i \in {} |-> i]
  /\ ended = {}

Next == \E id \in Ids :
  \/ Begin(id)
  \/ \E parent \in Ids : Continue(id, parent)
  \/ End(id)

Spec == Init /\ [][Next]_treeVars

-----------------------------------------------------------------------------
(* Properties                                                                *)

\* Every node's parent is a node, of which it is the next version, and whose
\* items it begins with; so the items of a node begin with those of every
\* ancestor, and nothing that ended is an ancestor.
Lineage ==
  \A i \in DOMAIN nodes : LET node == nodes[i] IN
    \/ node.parent = NoId /\ node.version = 1
    \/ /\ node.parent \in DOMAIN nodes \ ended
       /\ LET up == nodes[node.parent] IN
            /\ node.tenant = up.tenant
            /\ node.version = up.version + 1
            /\ Len(up.items) <= Len(node.items)
            /\ \A k \in 1..Len(up.items) : node.items[k] = up.items[k]
=============================================================================
