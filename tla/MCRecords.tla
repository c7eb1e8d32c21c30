----------------------------- MODULE MCRecords -----------------------------
(***************************************************************************)
(* The record-keeping components side by side.  They share no state, so a  *)
(* behaviour of this module is a behaviour of the one component that       *)
(* focus names, with the others at rest: the states explored are the sum   *)
(* of the components', not their product.                                  *)
(***************************************************************************)
EXTENDS Attachments, Building, Authority, Wiki, TLC

CONSTANTS b1, b2, c1, e1, k1

VARIABLE focus

recordVars == <<focus, attVars, bldVars, authVars, wikiVars>>

MCSize == [b \in Blob |-> IF b = b1 THEN 1 ELSE 2]
MCMime == [b \in Blob |-> IF b = b1 THEN "text/plain" ELSE "image/png"]

RecordsInit ==
    /\ AttInit /\ BldInit /\ AuthInit /\ WikiInit
    /\ focus \in {"attachments", "admission", "lobby", "bearers", "sessions", "operators", "wiki"}
    /\ focus # "operators" => label = NoPrincipal
    /\ root = k1

(* Bound of the building: one member, admitted once by one call. *)
OneMember ==
    /\ \A m \in Mb \ {1} : rows'[m].row = "none"
    /\ \A c \in Call : calls'[c].at = "admit" => c = c1 /\ rows[1].row = "none"

MembershipStep == MemberStep \/ DavetStep \/ BarStep \/ BldRestart

(* Editors are interchangeable: the first one is e1. *)
FirstEditor == wiki.editor = NoEditor => wiki'.editor \in {NoEditor, e1}

RecordsNext ==
    /\ UNCHANGED focus
    /\ \/ focus = "attachments" /\ AttNext /\ UNCHANGED <<bldVars, authVars, wikiVars>>
       \/ focus = "admission" /\ (AdmNext \/ AdmRestart) /\ UNCHANGED <<attVars, holdVars, authVars, wikiVars>>
       \/ focus = "lobby" /\ (MembershipStep \/ LobbyStep) /\ OneMember /\ UNCHANGED <<attVars, authVars, wikiVars>>
       \/ focus = "bearers" /\ (MembershipStep \/ BearerStep) /\ OneMember /\ UNCHANGED <<attVars, authVars, wikiVars>>
       \/ focus = "sessions" /\ (SessionStep \/ KeyStep \/ BootStep) /\ UNCHANGED <<attVars, bldVars, wikiVars>>
       \/ focus = "operators" /\ (OperatorStep \/ KeyStep \/ BootStep) /\ UNCHANGED <<attVars, bldVars, wikiVars>>
       \/ focus = "wiki" /\ WikiNext /\ FirstEditor /\ UNCHANGED <<attVars, bldVars, authVars>>

RecordsSpec == RecordsInit /\ [][RecordsNext]_recordVars

(* The tables and hot maps of every component hold what their columns and  *)
(* Rust types allow.                                                       *)
RecordsTypeOK ==
    CASE focus = "attachments" -> AttTypeOK
      [] focus \in {"admission", "lobby", "bearers"} -> AdmTypeOK /\ BldTypeOK
      [] focus \in {"sessions", "operators"} -> AuthTypeOK
      [] focus = "wiki" -> WikiTypeOK
=============================================================================
