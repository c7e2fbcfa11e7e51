--------------------------- MODULE AuditedSession ---------------------------
(***************************************************************************)
(* What the audit view promises of a session record, whoever writes it.    *)
(* A record is created as Connecting, is bound to one asset at most once,  *)
(* becomes Connected only from Connecting, and a record that has been      *)
(* Disconnected or deleted never comes back to life.  The operations of    *)
(* the proxy, the administrator and the start-up repair all have to be     *)
(* steps of this machine.                                                  *)
(***************************************************************************)
CONSTANTS Sessions,     \* identifiers of session records
          Assets,       \* assets a session may be bound to
          NoAsset       \* the asset of a record that is not bound yet

VARIABLES row,          \* row[s]: status of the record of s
          rowAsset      \* rowAsset[s]: asset the record names

vars == <<row, rowAsset>>

Present  == {"connecting", "connected", "disconnected"}

Init == /\ row = [s \in Sessions |-> "none"]
        /\ rowAsset = [s \in Sessions |-> NoAsset]

\* The record of an accepted connection is inserted.
Open(s) == /\ row[s] = "none"
           /\ row' = [row EXCEPT ![s] = "connecting"]
           /\ UNCHANGED rowAsset

\* The session is established and its asset recorded.
Bind(s, a) == /\ row[s] = "connecting"
              /\ row' = [row EXCEPT ![s] = "connected"]
              /\ rowAsset' = [rowAsset EXCEPT ![s] = a]

\* The session ends; a session refused during login may name its asset now.
Finish(s) == /\ row[s] \in Present
             /\ row' = [row EXCEPT ![s] = "disconnected"]
             /\ \/ UNCHANGED rowAsset
                \/ /\ rowAsset[s] = NoAsset
                   /\ \E a \in Assets : rowAsset' = [rowAsset EXCEPT ![s] = a]

\* Several sessions end in one step: the repair made at start-up.
FinishAll == /\ row' = [s \in Sessions |-> IF row[s] = "connected"
                                             THEN "disconnected" ELSE row[s]]
             /\ UNCHANGED rowAsset

\* The record is removed.
Purge(s) == /\ row[s] \in Present
            /\ row' = [row EXCEPT ![s] = "deleted"]
            /\ UNCHANGED rowAsset

Next == \/ FinishAll
        \/ \E s \in Sessions : \/ Open(s) \/ Finish(s) \/ Purge(s)
                               \/ \E a \in Assets : Bind(s, a)

Spec == Init /\ [][Next]_vars
=============================================================================
