----------------------------- MODULE MCChallenges -----------------------------
(* What clients send and how labs are saved, for checking Challenges: a        *)
(* challenge by either user, new or failed, and labs that leave deletion to    *)
(* the challenger, to the challenged user, or to an editor, who is neither.    *)
EXTENDS Challenges, TLC

CONSTANTS r1, r2, alice, bob, carol

SomeBodies ==
    {[by |-> alice, status |-> "created", times |-> {"created"}],
     [by |-> bob, status |-> "failed", times |-> {"created"}]}

SomeReports == {"accepted"}

SomeVersions ==
    {[staff |-> {}, challengerMay |-> TRUE, userMay |-> FALSE],
     [staff |-> {}, challengerMay |-> FALSE, userMay |-> TRUE],
     [staff |-> {carol}, challengerMay |-> FALSE, userMay |-> FALSE]}

Symmetric == Permutations({r1, r2})
=============================================================================
