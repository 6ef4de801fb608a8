--------------------------- MODULE OutboxContract ---------------------------
(***************************************************************************)
(* What the transactional outbox promises to the code that records events  *)
(* in it (src/outbox/enums.py, models.py, service.py): at-least-once       *)
(* delivery of what is PENDING, and an outcome that only a publisher in    *)
(* doubt may revise: one whose dispatch raised while the event was still   *)
(* PENDING, and who gave up its row lock to write that down.  With one     *)
(* pair of hands nothing is delivered or decided while there is a doubt,   *)
(* so that an outcome is final; with more, it is not.  Outbox is shown to  *)
(* implement this for any number of publishers; JobPipeline relies on it.  *)
(***************************************************************************)
EXTENDS Naturals

CONSTANTS
  Events,
  Hands    \* how many publishers may have an event in hand or in doubt

VARIABLES
  status,  \* status[e]: "absent" or an OutboxStatus
  sent,    \* sent[e]: how often e was handed to the broker
  doubts   \* doubts[e]: how many publishers do not know whether e was delivered

vars == <<status, sent, doubts>>

Init ==
  /\ status = [e \in Events |-> "absent"]
  /\ sent = [e \in Events |-> 0]
  /\ doubts = [e \in Events |-> 0]

Record(e) ==
  /\ status[e] = "absent"
  /\ status' = [status EXCEPT ![e] = "pending"]
  /\ UNCHANGED <<sent, doubts>>

\* Somebody who is not in doubt has the event in hand.
InHand(e) == status[e] = "pending" /\ doubts[e] < Hands

Deliver(e) ==
  /\ InHand(e)
  /\ sent' = [sent EXCEPT ![e] = @ + 1]
  /\ UNCHANGED <<status, doubts>>

\* Only what was delivered is PUBLISHED.
MarkPublished(e) ==
  /\ InHand(e)
  /\ sent[e] > 0
  /\ status' = [status EXCEPT ![e] = "published"]
  /\ UNCHANGED <<sent, doubts>>

GiveUp(e) ==
  /\ InHand(e)
  /\ status' = [status EXCEPT ![e] = "failed"]
  /\ UNCHANGED <<sent, doubts>>

\* A delivery failed, or seemed to.
Doubt(e) ==
  /\ InHand(e)
  /\ doubts' = [doubts EXCEPT ![e] = @ + 1]
  /\ sent' \in {sent, [sent EXCEPT ![e] = @ + 1]}
  /\ UNCHANGED status

\* The failure is written down, whatever has become of the event since.
Settle(e) ==
  /\ doubts[e] > 0
  /\ doubts' = [doubts EXCEPT ![e] = @ - 1]
  /\ \E s \in {status[e], "pending", "failed"} : status' = [status EXCEPT ![e] = s]
  /\ UNCHANGED sent

\* The publisher dies with its doubt.
Forget(e) ==
  /\ doubts[e] > 0
  /\ doubts' = [doubts EXCEPT ![e] = @ - 1]
  /\ UNCHANGED <<status, sent>>

Next ==
  \E e \in Events :
    \/ Record(e) \/ Deliver(e) \/ MarkPublished(e) \/ GiveUp(e)
    \/ Doubt(e) \/ Settle(e) \/ Forget(e)

Spec == Init /\ [][Next]_vars
=============================================================================
