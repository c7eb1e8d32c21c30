----------------------------- MODULE MCAdapter -----------------------------
(* Instances of the adapter specification for TLC. *)
EXTENDS CodexAdapter, TLC

OneCall == 1..1
TwoCalls == 1..2
ThreeCalls == 1..3

Direct == <<"direct">>
DirectAndChat == <<"direct", "chat">>
DirectLegacyChat == <<"direct", "legacy", "chat">>
TaskThenStop == <<"task", "stop">>
TaskChatStop == <<"task", "chat", "stop">>
DirectChatClosed == <<"direct", "chat", "closed">>

(* Processes that have not started are interchangeable. *)
OwnerSymmetry == Permutations(Owner)
=============================================================================
