---------------------------- MODULE MCMembership ----------------------------
(***************************************************************************)
(* Instances of Membership for TLC.                                        *)
(***************************************************************************)
EXTENDS MembershipLedger, TLC

CONSTANTS p1, p2, web, tab, g1, g2, you, b

\* Peers other than the browser ones are interchangeable.
AgentSymmetry == Permutations(Peers \ WebPeers)

=============================================================================
