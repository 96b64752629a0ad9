---------------------------- MODULE AtomicStore ----------------------------
(***************************************************************************)
(* What the trait Cache of cache.rs (and the interface Cache of the Java   *)
(* container) promises its callers: a map whose operations take effect at  *)
(* one instant between the call and the answer.  A failed call takes       *)
(* effect or not.  keys() is not here: see KeyListing.                     *)
(***************************************************************************)
CONSTANTS
  Client,   \* tasks and threads that call the store
  Cell,     \* one key of one store
  Value     \* payloads

VARIABLES
  content,  \* what each cell holds, or Absent
  calls     \* the call each client has in progress

Absent == "absent"
Pending == "pending"
Ok == "ok"
Error == "error"
Yes == "yes"
No == "no"

Ops == {"get", "insert", "remove", "contains_key"}
NoCall == [op |-> "none"]
Argument(op) == IF op = "insert" THEN Value ELSE {Absent}

(* What an operation does to the cell it names, and what it answers.       *)
After(call, old) ==
  IF call.op = "insert" THEN call.val
  ELSE IF call.op = "remove" THEN Absent ELSE old

AnswerTo(call, old) ==
  IF call.op = "insert" THEN Ok
  ELSE IF call.op = "contains_key" THEN (IF old = Absent THEN No ELSE Yes)
  ELSE old

Init ==
  /\ content = [x \in Cell |-> Absent]
  /\ calls = [c \in Client |-> NoCall]

Call(c, op, x, v) ==
  /\ calls[c].op = "none"
  /\ calls' = [calls EXCEPT ![c] =
                 [op |-> op, cell |-> x, val |-> v, ret |-> Pending]]
  /\ UNCHANGED content

InProgress(c) == calls[c].op # "none" /\ calls[c].ret = Pending
Answer(c, r) == calls' = [calls EXCEPT ![c] = [@ EXCEPT !.ret = r]]
Applied(c) ==
  [content EXCEPT ![calls[c].cell] = After(calls[c], @)]

Effect(c) ==
  /\ InProgress(c)
  /\ content' = Applied(c)
  /\ Answer(c, AnswerTo(calls[c], content[calls[c].cell]))

Failure(c) ==
  /\ InProgress(c)
  /\ content' = content \/ content' = Applied(c)
  /\ Answer(c, Error)

Return(c) ==
  /\ calls[c].op # "none" /\ calls[c].ret # Pending
  /\ calls' = [calls EXCEPT ![c] = NoCall]
  /\ UNCHANGED content

Next ==
  \E c \in Client :
    \/ \E op \in Ops, x \in Cell : \E v \in Argument(op) : Call(c, op, x, v)
    \/ Effect(c)
    \/ Failure(c)
    \/ Return(c)

Spec == Init /\ [][Next]_<<content, calls>>
=============================================================================
