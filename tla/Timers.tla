------------------------------ MODULE Timers ------------------------------
(***************************************************************************)
(* Session::Timer and m_timers (src/src/session.cpp).  Session::Session    *)
(* emplace_backs one Timer per enabled interval into the std::vector       *)
(* m_timers; each Timer arms a boost deadline_timer whose handler captures *)
(* `this`.  When the vector grows it relocates its elements with Timer's   *)
(* move constructor, which takes over the moved-from deadline_timer, with  *)
(* its pending wait (whose handler still names the old object), cancels    *)
(* it and arms a wait of its own; then the old objects are destroyed.      *)
(*                                                                         *)
(* A wait is a record: the deadline_timer it is queued on (named by the    *)
(* Timer object that now owns it), the object its handler's `this` names,  *)
(* and its state: "armed", "ready" (expired, its handler queued on the     *)
(* io_context with success) or "aborted" (cancelled, its handler queued    *)
(* with operation_aborted).  Intervals are abstracted away: any armed wait *)
(* may expire.                                                             *)
(***************************************************************************)
EXTENDS Integers, Sequences, SequencesExt, FiniteSets

CONSTANTS
    TimerOrder,   \* the timers Session::Session may start, in its order
    MaxObj        \* bound: Timer objects one construction creates

ASSUME IsInjective(TimerOrder) /\ MaxObj \in Nat

Kinds == ToSet(TimerOrder)
Ids == 1..MaxObj
WaitStates == {"armed", "ready", "aborted"}
Waits == [timer : Ids, target : Ids, st : WaitStates]

VARIABLES
    tstate,   \* "none", "running" (constructed), "destroyed" (m_timers.clear())
    vec,      \* m_timers: the objects in its storage, in order
    cap,      \* m_timers.capacity()
    alive,    \* Timer objects not yet destroyed
    owner,    \* object -> the timer (m_callback) it carries
    waits,    \* the pending async_waits and queued handlers
    nextId    \* the next object identity

tvars == <<tstate, vec, cap, alive, owner, waits, nextId>>

TypeOK ==
    /\ tstate \in {"none", "running", "destroyed"}
    /\ vec \in Seq(Ids) /\ cap \in 0..MaxObj
    /\ alive \subseteq Ids /\ waits \subseteq Waits
    /\ owner \in [Ids -> Kinds \cup {"none"}]
    /\ nextId \in 1..(MaxObj + 1)

Empty == [vec |-> <<>>, cap |-> 0, alive |-> {}, waits |-> {},
          owner |-> [o \in Ids |-> "none"], next |-> 1]

Init ==
    /\ tstate = "none" /\ vec = Empty.vec /\ cap = Empty.cap
    /\ alive = Empty.alive /\ owner = Empty.owner /\ waits = Empty.waits
    /\ nextId = Empty.next

\* An armed wait of the deadline_timer owned by o, whose handler calls
\* o->OnExpired: m_timer.async_wait([this](...) { OnExpired(...); }).
Arm(o) == [timer |-> o, target |-> o, st |-> "armed"]

\* Mutant: the move constructor forgets m_timer.cancel(ec).
MoveTimerNoCancel(ws, o, n) ==
    {IF w.timer = o THEN [w EXCEPT !.timer = n] ELSE w : w \in ws} \cup {Arm(n)}

\* Mutant: the move constructor cancels but does not arm a new wait.
MoveTimerNoRearm(ws, o, n) ==
    {IF w.timer = o
     THEN [w EXCEPT !.timer = n, !.st = IF @ = "armed" THEN "aborted" ELSE @]
     ELSE w : w \in ws}

\* Timer(Timer&& t): take over t's deadline_timer and its waits, cancel
\* them (their handlers get operation_aborted, still naming t), then arm
\* a wait for the new object.
MoveTimer(ws, o, n) ==
    {IF w.timer = o
     THEN [w EXCEPT !.timer = n, !.st = IF @ = "armed" THEN "aborted" ELSE @]
     ELSE w : w \in ws} \cup {Arm(n)}

\* m_timers.emplace_back(io, interval, cb) for timer k: when the storage
\* is full it doubles (libstdc++), moving element i into a new object
\* s.next + i and destroying the old ones; then Timer(io, interval, cb)
\* constructs the new element and arms its wait.
EmplaceBack(s, k) ==
    LET grow == Len(s.vec) = s.cap
        n == Len(s.vec)
        new(i) == IF grow THEN s.next + i - 1 ELSE s.vec[i]
        moved == FoldLeft(LAMBDA ws, i : MoveTimer(ws, s.vec[i], new(i)),
                             s.waits, [i \in 1..n |-> i])
        ws == IF grow THEN moved ELSE s.waits
        vec1 == [i \in 1..n |-> new(i)]
        id == IF grow THEN s.next + n ELSE s.next
    IN [vec |-> Append(vec1, id),
        cap |-> IF grow THEN (IF s.cap = 0 THEN 1 ELSE 2 * s.cap) ELSE s.cap,
        alive |-> (IF grow THEN s.alive \ ToSet(s.vec) ELSE s.alive)
                    \cup ToSet(vec1) \cup {id},
        owner |-> [o \in Ids |->
                     IF o = id THEN k
                     ELSE IF o \in ToSet(vec1)
                          THEN s.owner[s.vec[CHOOSE i \in 1..n : new(i) = o]]
                          ELSE s.owner[o]],
        waits |-> ws \cup {Arm(id)},
        next |-> id + 1]
-----------------------------------------------------------------------------

\* Session::Session: one emplace_back per timer whose interval is not 0, in
\* the order dht_stats, session_stats, torrent_updates.  The constructor
\* runs on the event-loop thread, so no handler runs in between.
Construct ==
    /\ tstate = "none"
    /\ \E enabled \in SUBSET Kinds :
        LET s == FoldLeft(EmplaceBack, Empty,
                          SelectSeq(TimerOrder, LAMBDA k : k \in enabled))
        IN /\ vec' = s.vec /\ cap' = s.cap /\ alive' = s.alive
           /\ owner' = s.owner /\ waits' = s.waits /\ nextId' = s.next
    /\ tstate' = "running"

\* The interval of an armed wait elapses: its handler is queued with
\* success.
Expire(w) ==
    /\ tstate = "running" /\ w \in waits /\ w.st = "armed"
    /\ waits' = (waits \ {w}) \cup {[w EXCEPT !.st = "ready"]}
    /\ UNCHANGED <<tstate, vec, cap, alive, owner, nextId>>

\* The io_context runs a queued handler: OnExpired(ec) on w.target.  With
\* operation_aborted it returns at once.  Otherwise it calls m_callback
\* (post_dht_stats, post_session_stats or post_torrent_updates) and arms
\* the object's deadline_timer again for the same interval.
OnExpired(w) ==
    /\ tstate = "running" /\ w \in waits /\ w.st # "armed"
    /\ waits' = IF w.st = "aborted" THEN waits \ {w}
                ELSE (waits \ {w}) \cup {Arm(w.target)}
    /\ UNCHANGED <<tstate, vec, cap, alive, owner, nextId>>

\* The handler of a wait that expired ran m_callback of timer k.
Fire(k) == \E w \in waits : w.st = "ready" /\ owner[w.target] = k /\ OnExpired(w)

\* ~Session: m_timers.clear() destroys every Timer; a deadline_timer's
\* destructor cancels its armed waits.  A handler already queued keeps
\* its outcome.
Destroy ==
    /\ tstate = "running"
    /\ tstate' = "destroyed" /\ alive' = {} /\ vec' = <<>>
    /\ waits' = {IF w.st = "armed" THEN [w EXCEPT !.st = "aborted"] ELSE w : w \in waits}
    /\ UNCHANGED <<cap, owner, nextId>>

\* The process exits; the next start constructs a new Session.
Reset ==
    /\ tstate = "destroyed"
    /\ tstate' = "none" /\ vec' = Empty.vec /\ cap' = Empty.cap
    /\ alive' = Empty.alive /\ owner' = Empty.owner /\ waits' = Empty.waits
    /\ nextId' = Empty.next

Next ==
    \/ Construct \/ Destroy \/ Reset
    \/ \E w \in waits : Expire(w) \/ OnExpired(w)

\* The deadline timers expire when their interval has passed, and the
\* io_context runs every queued handler.
Fairness ==
    \A o \in Ids :
        /\ WF_tvars(\E w \in waits : w.timer = o /\ Expire(w))
        /\ WF_tvars(\E w \in waits : w.target = o /\ OnExpired(w))

Spec == Init /\ [][Next]_tvars /\ Fairness

-----------------------------------------------------------------------------
(* Properties.                                                              *)

\* No handler that will get past the operation_aborted test names a Timer
\* object that the vector's relocation or m_timers.clear() destroyed:
\* the move constructor's cancel turns every wait left behind by a
\* relocated Timer into an aborted one before the old object dies.
NoCallbackOnDeadTimer ==
    tstate = "running" => \A w \in waits : w.st # "aborted" => w.target \in alive

\* Spec 4.C.6: while the session lives, every timer it started keeps
\* firing and re-arming, relocations by emplace_back included.
TimersKeepFiring ==
    \A k \in Kinds :
        <>[](tstate = "running" /\ k \in {owner[o] : o \in alive})
            => []<><<Fire(k)>>_tvars
====
