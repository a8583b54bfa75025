------------------------------ MODULE MCRouter ------------------------------
EXTENDS Router, TLC

CONSTANTS u1, u2

TwoMembers == <<u1, u2>>

(* One class for each arm of select: direct, rejected, a group that is not *)
(* in the table, and (by default) the group.                               *)
AllClasses == {"local", "blocked", "dangling", "web"}
AllRules == << [matches |-> {"local"}, action |-> "Direct"],
               [matches |-> {"blocked", "local"}, action |-> "Reject"],
               [matches |-> {"dangling"}, action |-> "MissingGroup"] >>
=============================================================================
