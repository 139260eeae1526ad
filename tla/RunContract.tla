---------------------------- MODULE RunContract -----------------------------
(***************************************************************************)
(* What the platform promises about a run, whatever the order in which     *)
(* requests, workers and redelivered messages meet: its status only moves  *)
(* along                                                                   *)
(*      none -> queued -> running -> waiting_input | done | failed |       *)
(*                                   cancelled                             *)
(*      queued -> cancelled,  waiting_input -> cancelled,                  *)
(* it is started once, by a worker that owns it until the outcome is       *)
(* announced or the worker dies, only the owner settles it, and only an    *)
(* outcome that has been settled is announced.                             *)
(***************************************************************************)
EXTENDS Naturals, FiniteSets

CONSTANTS Runs, Workers

VARIABLES status,    \* status of each run
          owners,    \* pairs <<run, worker>>: the worker owns the run
          announced  \* pairs <<run, outcome>> clients were told

vars == <<status, owners, announced>>

Outcomes == {"waiting_input", "done", "failed", "cancelled"}

Init ==
  /\ status = [r \in Runs |-> "none"]
  /\ owners = {}
  /\ announced = {}

Settled(r, k) == status[r] = k \/ (k = "waiting_input" /\ status[r] = "cancelled")

Accept(r) ==
  /\ status[r] = "none"
  /\ status' = [status EXCEPT ![r] = "queued"]
  /\ UNCHANGED <<owners, announced>>

Claim(r, w) ==
  /\ status[r] = "queued"
  /\ \A o \in owners : o[1] # r /\ o[2] # w
  /\ status' = [status EXCEPT ![r] = "running"]
  /\ owners' = owners \cup {<<r, w>>}
  /\ UNCHANGED announced

Settle(r, w, k) ==
  /\ <<r, w>> \in owners
  /\ status[r] = "running"
  /\ status' = [status EXCEPT ![r] = k]
  /\ UNCHANGED <<owners, announced>>

\* A queued run is cancelled, or one that waits is abandoned with its session.
Withdraw(r) ==
  /\ status[r] \in {"queued", "waiting_input"}
  /\ status' = [status EXCEPT ![r] = "cancelled"]
  /\ UNCHANGED <<owners, announced>>

\* A settled outcome is announced: by the owner, who then lets go, or by a request.
Announce(r, k) ==
  /\ Settled(r, k)
  /\ announced' = announced \cup {<<r, k>>}
  /\ owners' = owners \/ \E w \in Workers : owners' = owners \ {<<r, w>>}
  /\ UNCHANGED status

\* The owner dies.
Release(r, w) ==
  /\ <<r, w>> \in owners
  /\ owners' = owners \ {<<r, w>>}
  /\ UNCHANGED <<status, announced>>

Next ==
  \/ \E r \in Runs : Accept(r) \/ Withdraw(r)
  \/ \E r \in Runs, w \in Workers : Claim(r, w) \/ Release(r, w)
  \/ \E r \in Runs, w \in Workers, k \in Outcomes : Settle(r, w, k)
  \/ \E r \in Runs, k \in Outcomes : Announce(r, k)

Spec == Init /\ [][Next]_vars
=============================================================================
