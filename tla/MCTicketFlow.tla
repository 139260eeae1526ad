---------------------------- MODULE MCTicketFlow ----------------------------
(* TicketFlow for TLC: the texts and extractions that tell its cases apart.  *)
EXTENDS TicketFlow, TLC

MCUsers == {"u1", "u2"}
MCLocations == {"library"}
MCMessages == {{"net", "down", "library"}}

\* A complete incident, the same for another object, and one with an level that is a
\* number but none of the four.
MCExtractions == {
  [subject |-> {"wifi"}, othersDesc |-> {}, serviceLevel |-> "medium", levelConf |-> 0,
   priority |-> "fault", prioConf |-> 90],
  [subject |-> {"vpn"}, othersDesc |-> {}, serviceLevel |-> "2", levelConf |-> 80,
   priority |-> "3", prioConf |-> 0],
  [subject |-> {"wifi"}, othersDesc |-> {}, serviceLevel |-> "10", levelConf |-> 90,
   priority |-> "3", prioConf |-> 90]}
MCEdits == {{"edited"}}

Symmetry == Permutations(Requests)
=============================================================================
