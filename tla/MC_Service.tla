---------------------------- MODULE MC_Service ----------------------------
(* Small instances of Service. *)
EXTENDS Service

CONSTANTS full, silent, stars, banned   \* consumers, one per kind of policy

\* The texts of consumer c: one with secrets, one without.
TextsOf(c) == {<<Secret("fio", c), Word("w"), Secret("tel", c)>>, <<Word("hi")>>}
\* Two texts with secrets, and one without.
TwoTextsOf(c) ==
    {<<Secret("fio", c), Word("w")>>, <<Secret("tel", c)>>, <<Word("hi")>>}

FewOriginals == [c \in Consumers |-> TextsOf(c)]
MoreOriginals == [c \in Consumers |-> TwoTextsOf(c)]

\* full: the default policy; silent: tokens, no restore, one type only;
\* stars: the mode "mask".
ModeOf == [c \in Consumers |-> IF c = stars THEN "mask" ELSE "token"]
RestoreOf == [c \in Consumers |-> c = full]
TypesOf == [c \in Consumers |-> IF c = silent THEN {"fio"} ELSE {}]
AllButBanned == Consumers \ {banned}

Symm == Permutations(Procs) \cup Permutations(Ids)
===========================================================================
