----------------------------- MODULE MCSession -----------------------------
(***************************************************************************)
(* Small instances of Session for TLC.                                     *)
(***************************************************************************)
EXTENDS Session, TLC

Sizes == <<1, 2, 3>>

(***************************************************************************)
(* Budgets: exactly so many disturbances of the given kinds, in every      *)
(* combination.                                                            *)
(***************************************************************************)
Calm == [d \in Disturbances |-> 0]

And(b, d) == [b EXCEPT ![d] = @ + 1]

Two(kinds) == {And(And(Calm, x), y) : x, y \in kinds}
Three(kinds) == {And(b, x) : b \in Two(kinds), x \in kinds}
Four(kinds) == {And(b, x) : b \in Three(kinds), x \in kinds}

NoTrouble == {Calm}
LossyReplies == Four({"loseReply", "badReply"})
Anything == Two(Disturbances)
OneRequestLost == {And(Calm, "loseRequest")}
OneReplyLost == {And(Calm, "loseReply")}
OneReplyLostOneLate == {And(And(Calm, "loseReply"), "late")}
OneExpiry == {And(Calm, "expire")}
=============================================================================
