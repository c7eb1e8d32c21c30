------------------------------- MODULE MCRoom -------------------------------
(* One loca, a participant and an administrator who take turns. *)
EXTENDS RoomLog

CONSTANTS ann, master, o1

MCOrder == <<ann, master>>
MCPosts == {<<ann, o1>>, <<master, o1>>}
MCModes == {[kind |-> "free", turn |-> 0], [kind |-> "round_robin", turn |-> 2]}
MCSettings == {<<"archived", TRUE>>, <<"archived", FALSE>>, <<"live", TRUE>>}
MCMods == {<<"mute", ann>>}
RequestSymmetry == Permutations(Request)
=============================================================================
