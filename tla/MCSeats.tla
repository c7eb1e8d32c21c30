------------------------------ MODULE MCSeats ------------------------------
(* Instances of the seat specification for TLC. *)
EXTENDS Seats

C(session, identity, name, kind) ==
    [session |-> session, identity |-> identity, name |-> name, kind |-> kind]

(* Two devices of one human, and two runtimes of an agent of which the      *)
(* second wears a new label, compete for one seat.                          *)
MixedConns == {C(1, "h", "hope", "user"), C(2, "h", "hope", "user"),
               C(3, "a", "ada", "agent"), C(4, "a", "ada2", "agent")}

(* A reader and a watcher of a loca that is being deleted. *)
ReaderAndWatcher == {C(1, "h", "hope", "user"), C(2, "h", "hope", "user"),
                     C(3, "w", "wes", "watch")}
=============================================================================
