-------------------------------- MODULE Inbox --------------------------------
(***************************************************************************)
(* What an idempotent event store promises (the class comment of           *)
(* attest/webhooks.py EventLog): deliveries are judged one after another,  *)
(* each against the first delivery on record under the same key.  A        *)
(* delivery that is refused is listed too, and weighs nothing.             *)
(***************************************************************************)
EXTENDS Sequences, Naturals

VARIABLE log      \* deliveries, oldest first, each with what was made of it

Init == log = <<>>

Refusals == {"bad_signature", "unverifiable"}

OnRecord(k) == {i \in DOMAIN log : log[i].key = k /\ log[i].status \notin Refusals}

\* The first delivery on record under key k decides what a repeat is.
First(k) == CHOOSE i \in OnRecord(k) : \A j \in OnRecord(k) : i <= j

Judgements(e) ==
  IF OnRecord(e.key) = {} THEN {"accepted", "unsupported"}
  ELSE IF log[First(e.key)].digest = e.digest THEN {"duplicate"}
  ELSE {"replay_mismatch"}

\* A delivery of whatever key, content and kind.
Judge(e) ==
  /\ e.status \in Refusals \cup Judgements(e)
  /\ log' = Append(log, e)

Next == \E i \in DOMAIN log' : Judge(log'[i])

Spec == Init /\ [][Next]_log
=============================================================================
