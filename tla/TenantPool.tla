----------------------------- MODULE TenantPool -----------------------------
(***************************************************************************)
(* What scheduler.run_mixed promises, without saying how: requests are     *)
(* sent once, not before they are due, never more at a time than the two   *)
(* limits allow; every answer becomes one receipt; the call returns only   *)
(* with all receipts, and raises only after a request was lost.            *)
(***************************************************************************)
EXTENDS Naturals, Sequences, FiniteSets

CONSTANTS
  Requests,      (* the arrivals of the contract                           *)
  Owner,         (* request -> tenant                                      *)
  Due,           (* request -> nominal time                                *)
  GlobalLimit,   (* concurrent requests of all tenants                     *)
  OwnerLimit     (* concurrent requests of one tenant                      *)

VARIABLES clock, status, receipts, result

poolVars == <<clock, status, receipts, result>>

Flying == {r \in Requests : status[r] = "in_flight"}

Init ==
  /\ clock = 0
  /\ status = [r \in Requests |-> "waiting"]
  /\ receipts = <<>>
  /\ result = "running"

Advance ==
  /\ result = "running"
  /\ clock' = clock + 1
  /\ UNCHANGED <<status, receipts, result>>

SendRequest(r) ==
  /\ result = "running"
  /\ status[r] = "waiting"
  /\ clock >= Due[r]
  /\ Cardinality(Flying) < GlobalLimit
  /\ Cardinality({q \in Flying : Owner[q] = Owner[r]}) < OwnerLimit
  /\ status' = [status EXCEPT ![r] = "in_flight"]
  /\ UNCHANGED <<clock, receipts, result>>

Receive(r) ==
  /\ result = "running"
  /\ status[r] = "in_flight"
  /\ status' = [status EXCEPT ![r] = "recorded"]
  /\ receipts' = Append(receipts, r)
  /\ UNCHANGED <<clock, result>>

Lose(r) ==
  /\ result = "running"
  /\ status[r] = "in_flight"
  /\ status' = [status EXCEPT ![r] = "lost"]
  /\ UNCHANGED <<clock, receipts, result>>

Return ==
  /\ result = "running"
  /\ \A r \in Requests : status[r] = "recorded"
  /\ result' = "returned"
  /\ UNCHANGED <<clock, status, receipts>>

(* The caller gives up: what has no receipt by then never gets one.        *)
Raise ==
  /\ result = "running"
  /\ \E r \in Requests : status[r] = "lost"
  /\ status' = [r \in Requests |->
                  IF status[r] = "recorded" THEN "recorded" ELSE "lost"]
  /\ result' = "raised"
  /\ UNCHANGED <<clock, receipts>>

PoolNext == \/ \E r \in Requests : SendRequest(r) \/ Receive(r) \/ Lose(r)
            \/ Advance
            \/ Return
            \/ Raise

PoolSpec == Init /\ [][PoolNext]_poolVars
=============================================================================
