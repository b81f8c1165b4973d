---------------------------- MODULE MCFleetModel ----------------------------
EXTENDS FleetModel

CONSTANTS u1, u2, h1, h2, p1, p2, save, s1, s2, t1, t2, t3

MCConfig == [edit : Edit, focus : Host \cup {None}, liveness : Policy]
MCCaller == Editor \cup Task

\* Every backend lists hosts of its own.
MCHostsAt(u) == IF u = u2 THEN {h2} \cap Host ELSE {h1} \cap Host
=============================================================================
