--------------------------- MODULE MCSafetyRules ---------------------------
(***************************************************************************)
(* Two honest validators with two and one units of voting power and a      *)
(* faulty one with one unit; a quorum needs three of the four.  Three      *)
(* rounds in the first epoch and one in the second.                        *)
(***************************************************************************)
EXTENDS SafetyRules, FiniteSets, TLC

CONSTANTS v1, v2, b1, p

MCHonest == {v1, v2}
MCFaulty == {b1}
MCPayloads == {p}
MCQuorums == {{v1, v2}, {v1, b1}, {v1, v2, b1}}
MCMaxRound == <<3, 1>>
=============================================================================
