-------------------------- MODULE MCIngressBridge --------------------------
(* IngressBridge for TLC: a group, which has a listener of its own, and a     *)
(* direct conversation.                                                       *)
EXTENDS IngressBridge

CONSTANTS team, peer

Spent == spent.faults + spent.pauses + spent.crashes + spent.changes

\* What is explored together: in the group, two disturbances of different kinds
\* within two ticks, or two breaks within three; in the direct conversation, one
\* break, failure or pause; in both together, one disturbance at the first tick.
Few ==
    \/ /\ groups \subseteq {team} /\ posted[peer] = {} /\ now <= 2
       /\ Spent <= 2 /\ spent.faults <= 1 /\ (spent.changes = 0 \/ Spent <= 1)
    \/ groups = {team} /\ Spent = spent.faults /\ wire[team] = {}
    \/ groups = {peer} /\ Spent <= 1 /\ spent.crashes = 0 /\ spent.changes = 0 /\ now <= 2
    \/ groups = {team, peer} /\ Spent <= 1 /\ now = 1 /\ posted[peer] = {}
=============================================================================
