--------------------------- MODULE MCContractRoll ---------------------------
(* One or two rolls of the user's contracts beside a notice and a close of  *)
(* the bot.                                                                 *)
EXTENDS ContractRoll, TLC

Tale(user, bot, limit, same, auto, apart, closes) ==
    [user |-> user, bot |-> bot, limit |-> limit, same |-> same, auto |-> auto, apart |-> apart,
     closes |-> closes]

MCStories ==
    {Tale(2, 0, limit, same, FALSE, FALSE, FALSE) : limit, same \in BOOLEAN}
    \cup {Tale(user, bot, TRUE, FALSE, auto, apart, TRUE) :
             user \in {0, 1}, bot \in {1, 2}, auto, apart \in BOOLEAN}

\* The venue's line with an automatic roll in it.
FrozenStories == {Tale(0, 1, FALSE, FALSE, TRUE, FALSE, TRUE)}

MCSymmetry == Permutations(Requests)
=============================================================================
