------------------------------ MODULE ReplyList ------------------------------
(***************************************************************************)
(* redis::ReplyList, the singly linked list that holds the replies of a    *)
(* batch.  A list is a record                                              *)
(*   nodes  the nodes of m_replies, in list order; a node is whatever the  *)
(*          user of the module identifies it by,                           *)
(*   next   m_next_iterator as a position: BeforeBegin, the position of a  *)
(*          node, or End, the null iterator one past the last node,        *)
(*   size   m_size, counted apart from the nodes.                          *)
(***************************************************************************)
EXTENDS Integers, SequencesExt

BeforeBegin == 0
End == -1

NewReplyList == [nodes |-> <<>>, next |-> BeforeBegin, size |-> 0]

(* begin() of a std::forward_list: for an empty list it is end(). *)
BeginOf(nodes) == IF nodes = <<>> THEN End ELSE 1

(* emplace_after() reads the node it inserts after: end() has none.        *)
CanAdd(list) == list.next # End

(* Mutant: m_next_iterator is not moved to the new node. *)
AddReply_SamePlace(list, node) ==
    [nodes |-> InsertAt(list.nodes, list.next + 1, node),
     next  |-> list.next,
     size  |-> list.size + 1]

AddReply(list, node) ==
    [nodes |-> InsertAt(list.nodes, list.next + 1, node),
     next  |-> list.next + 1,
     size  |-> list.size + 1]

ClearReplies == [nodes |-> <<>>, next |-> BeginOf(<<>>), size |-> 0]

(* begin() .. end(), what a range over the replies walks through. *)
RepliesOf(list) == list.nodes
=============================================================================
