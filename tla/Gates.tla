------------------------------- MODULE Gates -------------------------------
(***************************************************************************)
(* The gates an entry point of the StellarGrants contract may consult      *)
(* before it does anything else:                                           *)
(*   - the emergency flag (emergency.rs),                                  *)
(*   - one circuit breaker per protocol module (circuit_breaker.rs),       *)
(*   - the owner's pause of a single grant (grant_pause.rs).               *)
(*                                                                         *)
(* One clock stands for the ledger timestamp and the ledger sequence: both *)
(* only grow and no property compares the two.  A breaker whose reset      *)
(* ledger is past is removed lazily by whoever looks at it first           *)
(* (circuit_breaker.rs:90-104, 136-140, 150-186); here an expired record   *)
(* simply counts as open, which no caller can tell from a removed one.     *)
(***************************************************************************)
EXTENDS Grants

CONSTANTS
    Module,     \* the protocol modules that have a breaker
    MaxTime     \* bound: the clock stops here

ASSUME MaxTimeAssumption == MaxTime \in Nat

\* types.rs `ProtocolModule`: the module the grant entry points consult.
GrantsModule == "Grants"

ASSUME ModuleAssumption == GrantsModule \in Module

VARIABLES
    now,        \* env.ledger().timestamp() and .sequence()
    paused,     \* DataKey::IsPaused
    breaker,    \* module -> its breaker: NoRecord, Forever or the reset ledger
    pause       \* grant -> its pause: NoRecord, Forever or auto_unpause_at

gateVars == <<now, paused, breaker, pause>>

NoRecord == -1   \* nothing stored
Forever  == -2   \* stored, with no automatic end

Time == 0..MaxTime
Until == Time \cup {NoRecord, Forever}

GatesTypeOK ==
    /\ now \in Time
    /\ paused \in BOOLEAN
    /\ breaker \in [Module -> Until]
    /\ pause \in [Grant -> Until]

GatesInit ==
    /\ now = 0
    /\ paused = FALSE
    /\ breaker = [m \in Module |-> NoRecord]
    /\ pause = [g \in Grant |-> NoRecord]

-----------------------------------------------------------------------------
(* What the guards at the top of the entry points ask.                     *)

ModuleOpen(m) == breaker[m] = NoRecord \/ (breaker[m] # Forever /\ now > breaker[m])

GrantPaused(g) == pause[g] # NoRecord /\ (pause[g] = Forever \/ now < pause[g])

\* Mutation of GrantsGateOpen: the breaker that pause() trips stands for it.
GateOpenByBreaker == ModuleOpen(GrantsModule)

\* The guard of grant_create, grant_fund, milestone_vote, milestone_reject and
\* milestone_submit.
GrantsGateOpen == ~paused /\ ModuleOpen(GrantsModule)

-----------------------------------------------------------------------------

\* pause(): every breaker is tripped with no reset ledger, whatever it held.
EmergencyPause ==
    /\ ~paused
    /\ paused' = TRUE
    /\ breaker' = [m \in Module |-> Forever]
    /\ UNCHANGED <<now, pause>>

\* unpause(): the breakers that pause() tripped are left as they are.
EmergencyUnpause ==
    /\ paused
    /\ paused' = FALSE
    /\ UNCHANGED <<now, breaker, pause>>

\* trip(): replaces the record of a breaker that is tripped already.
Trip(m, until) ==
    /\ until # NoRecord
    /\ breaker' = [breaker EXCEPT ![m] = until]
    /\ UNCHANGED <<now, paused, pause>>

Reset(m) ==
    /\ breaker[m] # NoRecord
    /\ breaker' = [breaker EXCEPT ![m] = NoRecord]
    /\ UNCHANGED <<now, paused, pause>>

\* grant_pause::pause by the owner.  An end that is not in the future is
\* dropped, so the pause has no end.
PauseGrant(g, until) ==
    /\ until # NoRecord
    /\ pause' = [pause EXCEPT ![g] = IF until # Forever /\ until <= now
                                     THEN Forever ELSE until]
    /\ UNCHANGED <<now, paused, breaker>>

\* grant_pause::unpause moves the end of the recorded pause to the present;
\* with no record it changes nothing.
UnpauseGrant(g) ==
    /\ pause[g] # NoRecord
    /\ pause' = [pause EXCEPT ![g] = now]
    /\ UNCHANGED <<now, paused, breaker>>

Tick ==
    /\ now < MaxTime
    /\ now' = now + 1
    /\ UNCHANGED <<paused, breaker, pause>>

GatesNext ==
    \/ EmergencyPause
    \/ EmergencyUnpause
    \/ \E m \in Module :
          \/ \E until \in Until : Trip(m, until)
          \/ Reset(m)
    \/ \E g \in Grant :
          \/ \E until \in Until : PauseGrant(g, until)
          \/ UnpauseGrant(g)
    \/ Tick

GatesSpec == GatesInit /\ [][GatesNext]_gateVars
=============================================================================
