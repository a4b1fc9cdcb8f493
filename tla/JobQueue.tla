------------------------------- MODULE JobQueue -------------------------------
(***************************************************************************)
(* What a command queue promises its clients, with no hardware in it: a    *)
(* bounded buffer of jobs numbered in the order they were pushed.  A job   *)
(* becomes visible to the consumer when the client submits, and every      *)
(* visible job is consumed whole, once, and in order.                      *)
(***************************************************************************)
EXTENDS Integers, Sequences

CONSTANT Capacity     \* jobs pushed and not consumed, at most

VARIABLES pushed,     \* number of the last job pushed
          exposed,    \* number of the last job submitted
          consumed    \* the jobs consumed, in order

qvars == <<pushed, exposed, consumed>>

QInit == pushed = 0 /\ exposed = 0 /\ consumed = <<>>

Push ==
  /\ pushed - Len(consumed) < Capacity
  /\ pushed' = pushed + 1 /\ UNCHANGED exposed

Submit == exposed' = pushed /\ UNCHANGED pushed

(* A client that resynchronises drops what it has not submitted.           *)
Forget == pushed' = exposed /\ UNCHANGED exposed

Consume ==
  /\ Len(consumed) < exposed
  /\ consumed' = Append(consumed, Len(consumed) + 1)

(* Both sides may move at once.                                            *)
QNext ==
  /\ Push \/ Submit \/ Forget \/ UNCHANGED <<pushed, exposed>>
  /\ Consume \/ UNCHANGED consumed

QSpec == QInit /\ [][QNext]_qvars
=============================================================================
