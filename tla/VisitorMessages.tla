--------------------------- MODULE VisitorMessages ---------------------------
(***************************************************************************)
(* The message list of the visitor's chat page: what each source of         *)
(* messages (the visitor's own input, the acknowledgement of a send, the    *)
(* push into the conversation's room, the history request) makes of it.     *)
(*                                                                         *)
(* A stored message has a positive id, the position of its insertion; a     *)
(* bubble that waits for its acknowledgement has the negative number of the  *)
(* send.  The order of display follows the ids.                            *)
(***************************************************************************)
EXTENDS Integers, FiniteSets

CONSTANTS Sends, TextOf   \* the visitor's sends and what each says

ASSUME SendsAssumption == Sends \subseteq Nat \ {0} /\ IsFiniteSet(Sends)

Statuses == {"sending", "delivered", "read"}
Entry(id, conv, by, status) == [id |-> id, conv |-> conv, by |-> by, status |-> status]

Has(list, id) == \E e \in list : e.id = id
Without(list, id) == {e \in list : e.id # id}

AddOptimistic(list, k, conv) == list \cup {Entry(-k, conv, k, "sending")}

\* The first placeholder with the text of the incoming message, or 0.
OptimisticFor(list, k) ==
  LET like == {-e.id : e \in {x \in list : x.id < 0 /\ TextOf[x.by] = TextOf[k]}}
  IN  IF like = {} THEN 0 ELSE CHOOSE n \in like : \A m \in like : n <= m

\* Mutant: the push is not compared with what the list already holds.
NewMessageAgain(list, e) ==
  LET n == IF e.by \in Sends THEN OptimisticFor(list, e.by) ELSE 0
  IN  Without(list, -n) \cup {e}

\* new_message
NewMessage(list, e) ==
  LET n == IF e.by \in Sends THEN OptimisticFor(list, e.by) ELSE 0
  IN  IF Has(list, e.id) THEN list ELSE Without(list, -n) \cup {e}

\* confirmOptimisticMessage: a bubble that has gone is not brought back.
ConfirmOptimistic(list, k, e) ==
  Without(list, -k) \cup IF Has(list, -k) /\ ~Has(list, e.id) THEN {e} ELSE {}

\* Mutant: the history overwrites the receipt.
MergeMessageUpdateTakes(current, incoming) == incoming

\* mergeMessageUpdate: a late answer does not make a read message unread.
MergeMessageUpdate(current, incoming) ==
  IF current.status = "read" THEN [incoming EXCEPT !.status = "read"] ELSE incoming

Merged(kept, history) ==
  {IF Has(kept, e.id) THEN MergeMessageUpdate(CHOOSE x \in kept : x.id = e.id, e) ELSE e :
     e \in history}

\* Mutant: what the history does not hold is dropped.
ReconcileReplaces(list, conv, history) == Merged({e \in list : e.conv = conv}, history)

\* reconcileConversationMessages: what was pushed after the history was read,
\* and the bubbles, stay.
Reconcile(list, conv, history) ==
  LET kept == {e \in list : e.conv = conv}
  IN  {e \in kept : ~Has(history, e.id)} \cup Merged(kept, history)

\* markVisitorMessagesRead
MarkRead(list, conv) ==
  {IF e.conv = conv /\ e.by \in Sends THEN [e EXCEPT !.status = "read"] ELSE e : e \in list}
=============================================================================
