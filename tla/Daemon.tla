------------------------------ MODULE Daemon ------------------------------
(***************************************************************************)
(* The daemon across starts: porla::Data::Migrate (Migrate) runs first; if *)
(* it returns true the Session is constructed, which starts its timers     *)
(* (Timers); ~Session destroys them, and the process exits.  A failed     *)
(* migration ends the start before any Session exists (spec 7).  The      *)
(* order of these steps is main's, which is not under src/ (spec 4.C, 6). *)
(***************************************************************************)
EXTENDS Integers

CONSTANTS Builds, MaxStarts, VersionWriteFails, TimerOrder, MaxObj

VARIABLES phase, build, uv, i, applied, starts,
          tstate, vec, cap, alive, owner, waits, nextId

M == INSTANCE Migrate
T == INSTANCE Timers

mvars == <<phase, build, uv, i, applied, starts>>
tvars == <<tstate, vec, cap, alive, owner, waits, nextId>>
dvars == <<mvars, tvars>>

TypeOK == M!TypeOK /\ T!TypeOK

Init == M!Init /\ T!Init

\* Start-up: one start of a build and its migrations, which may fail or
\* be cut short by a crash.
Migrating ==
    /\ \/ \E s \in Builds : M!Start(s)
       \/ M!MigrationStep \/ M!Finish \/ M!Crash
    /\ UNCHANGED tvars

\* Migrate returned true: Session::Session runs and starts the timers.
SessionStart == phase = "ok" /\ T!Construct /\ UNCHANGED mvars

\* The io_context runs the timers while the Session lives.
TimerStep == (\E w \in waits : T!Expire(w) \/ T!OnExpired(w)) /\ UNCHANGED mvars

\* Shutdown: ~Session clears m_timers.
SessionEnd == phase = "ok" /\ T!Destroy /\ UNCHANGED mvars

\* The process exits: after ~Session, or after a failed start-up.
Exit ==
    /\ M!Stop
    /\ \/ phase = "failed" /\ tstate = "none" /\ UNCHANGED tvars
       \/ phase = "ok" /\ T!Reset

Next ==
    \/ Migrating \/ SessionStart \/ TimerStep \/ SessionEnd \/ Exit
    \/ M!Exhausted /\ UNCHANGED tvars

\* main constructs the Session once Migrate returned true; the deadline
\* timers expire and the io_context runs every queued handler.
Fairness ==
    /\ WF_dvars(SessionStart)
    /\ \A o \in T!Ids :
        /\ WF_dvars(\E w \in waits : w.timer = o /\ T!Expire(w) /\ UNCHANGED mvars)
        /\ WF_dvars(\E w \in waits : w.target = o /\ T!OnExpired(w) /\ UNCHANGED mvars)

Spec == Init /\ [][Next]_dvars /\ Fairness

-----------------------------------------------------------------------------
(* The properties of the components, checked in the composition.            *)

\* See Migrate: what user_version claims was made, across starts.
VersionBelowApplied == M!VersionBelowApplied

\* See Migrate: the daemon never runs on a partly migrated schema.
StartsOnlyMigrated == M!StartsOnlyMigrated

\* See Timers: the vector's relocation leaves no live handler naming a
\* destroyed Timer.
NoCallbackOnDeadTimer == T!NoCallbackOnDeadTimer

\* See Timers: each started timer keeps firing while its Session lives.
TimersKeepFiring == T!TimersKeepFiring
====
