------------------------------- MODULE Lease -------------------------------
(***************************************************************************)
(* The fencing lease of one agent identity: the `leases' row of the        *)
(* attention ledger (skill/agent-room/attention_store.py) and the adapter  *)
(* processes that compete for it.                                          *)
(*                                                                         *)
(* An owner is one adapter PROCESS: its name "<pid>-<uuid>" is drawn once, *)
(* so a restarted adapter is a new owner and a dead owner never returns.   *)
(* Wall-clock time appears only as the number of ticks a lease has left:   *)
(* lease_expires_at_ms <= now is left = 0.                                 *)
(***************************************************************************)
EXTENDS Naturals

CONSTANTS
    Owner,      \* adapter processes that may ever run for the identity
    NoOwner,    \* the identity has no lease row yet
    TTL,        \* LEASE_TTL_MS, in ticks
    MaxEpoch    \* bound: no claim takes the epoch past this value

ASSUME NoOwnerAssumption == NoOwner \notin Owner
ASSUME TTLAssumption == TTL \in Nat \ {0}
ASSUME MaxEpochAssumption == MaxEpoch \in Nat

VARIABLES
    lease,      \* the durable row: owner, epoch and ticks until it expires
    epochOf,    \* each process's self.epoch, in memory; 0 before its claim
    alive       \* the processes the operating system still runs

leaseVars == <<lease, epochOf, alive>>

LeaseTypeOK ==
    /\ lease \in [owner: Owner \cup {NoOwner}, epoch: Nat, left: 0..TTL]
    /\ epochOf \in [Owner -> Nat]
    /\ alive \in SUBSET Owner

LeaseInit ==
    /\ lease = [owner |-> NoOwner, epoch |-> 0, left |-> 0]
    /\ epochOf = [o \in Owner |-> 0]
    /\ alive = Owner

-----------------------------------------------------------------------------
(* The row's owner is `o' at the epoch `o' remembers. *)
Current(o) == lease.owner = o /\ lease.epoch = epochOf[o]

(* _assert_fence: what every ledger transaction of an adapter requires. *)
Fenced(o) == Current(o) /\ lease.left > 0

(* lease_owner_process_alive: false only for a provably dead owner. *)
OwnerAlive == lease.owner \in alive

(* claim_lease raises LeaseBusy. *)
LeaseBusy(o) ==
    /\ lease.owner \notin {NoOwner, o}
    /\ lease.left > 0
    /\ OwnerAlive

(* Mutant of ClaimedEpoch: a takeover forgets to open a new epoch. *)
ClaimedEpochReused(o) == IF lease.owner = NoOwner THEN 1 ELSE lease.epoch

(* A first claim and a takeover open a new epoch; the owner keeps its own. *)
ClaimedEpoch(o) == IF lease.owner = o THEN lease.epoch ELSE lease.epoch + 1

claim_lease(o) ==
    /\ ~LeaseBusy(o)
    /\ ClaimedEpoch(o) <= MaxEpoch
    /\ lease' = [owner |-> o, epoch |-> ClaimedEpoch(o), left |-> TTL]
    /\ epochOf' = [epochOf EXCEPT ![o] = ClaimedEpoch(o)]
    /\ UNCHANGED alive

(* renew_lease: the fence is checked first, so an expired owner cannot renew. *)
renew_lease(o) ==
    /\ Fenced(o)
    /\ lease' = [lease EXCEPT !.left = TTL]
    /\ UNCHANGED <<epochOf, alive>>

(* release_lease: only the current row is touched, and only its expiry. *)
release_lease(o) ==
    /\ lease' = IF Current(o) THEN [lease EXCEPT !.left = 0] ELSE lease
    /\ UNCHANGED <<epochOf, alive>>

(* One tick of wall-clock time. *)
Tick ==
    /\ lease.left > 0
    /\ lease' = [lease EXCEPT !.left = @ - 1]
    /\ UNCHANGED <<epochOf, alive>>

(* The process is killed; nothing durable changes. *)
Die(o) ==
    /\ alive' = alive \ {o}
    /\ UNCHANGED <<lease, epochOf>>

LeaseNext ==
    \/ \E o \in alive : \/ claim_lease(o)
                        \/ renew_lease(o)
                        \/ release_lease(o)
                        \/ Die(o)
    \/ Tick

(* What the processes of one identity may do to the lease; the adapter,    *)
(* with its recoveries, dispatches and relays, implements it (every use of *)
(* the row in codex_adapter_v2.py goes through these transactions).        *)
LeaseSpec == LeaseInit /\ [][LeaseNext]_leaseVars

-----------------------------------------------------------------------------
(* Two processes never remember the same epoch, whatever the interleaving  *)
(* of claims, expiries, deaths and releases: the fencing token identifies  *)
(* its holder (claim_lease, ADR 0001 "monotonically increasing").          *)
OneOwnerPerEpoch ==
    \A o, p \in Owner : epochOf[o] = epochOf[p] /\ epochOf[o] # 0 => o = p

(* A process that lost the row to a takeover can never pass the fence      *)
(* again with the epoch it remembers: only a fresh claim helps it.         *)
SupersededStaysSuperseded ==
    [][\A o \in Owner :
          epochOf[o] # 0 /\ ~Current(o) /\ epochOf'[o] = epochOf[o]
          => ~Current(o)']_leaseVars

(* The inductive invariant behind both: remembered epochs never exceed the *)
(* row's, and only the row's owner can remember the row's own epoch.       *)
LeaseInv ==
    /\ LeaseTypeOK
    /\ lease.owner = NoOwner <=> lease.epoch = 0
    /\ \A o \in Owner : epochOf[o] <= lease.epoch
    /\ \A o \in Owner : epochOf[o] = lease.epoch /\ epochOf[o] # 0 => lease.owner = o
    /\ lease.owner \in Owner => epochOf[lease.owner] = lease.epoch
    /\ OneOwnerPerEpoch
=============================================================================
