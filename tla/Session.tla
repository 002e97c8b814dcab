------------------------------- MODULE Session -------------------------------
(***************************************************************************)
(* The porla Session supervisor (src/src/session.cpp) and the parts of the *)
(* libtorrent engine it talks to.  The event loop runs one task at a time: *)
(* a user operation (AddTorrent, Recheck, Remove, Pause, Resume), or a     *)
(* ReadAlerts task that pops the engine's alert queue and runs one handler *)
(* per alert.  The engine runs on its own threads: it finishes checks,     *)
(* downloads, answers save_resume_data requests and appends alerts to its  *)
(* queue at any time.  The destructor ~Session is the shutdown protocol:   *)
(* it stops draining alerts, requests resume data chunk by chunk and waits *)
(* for the answers itself.  The torrents table of the SQLite store is      *)
(* modelled as the map db, one row per info hash.                          *)
(***************************************************************************)
EXTENDS Integers, FiniteSets, Sequences

SX == INSTANCE SequencesExt

CONSTANTS
    Hashes,     \* info hashes of the torrents a user may add
    ChunkSize,  \* torrents per shutdown chunk (chunk_size, 1000 in the code)
    MaxGen,     \* bound: torrent instances per info hash (adds and loads)
    MaxVer,     \* bound: resume-state versions of one torrent instance
    MaxQueue,   \* bound: length of the engine's alert queue
    MaxCb,      \* bound: one-shot callbacks pending per info hash
    AddFlags    \* auto_managed/paused flags a torrent may be added with

ASSUME /\ Hashes # {}
       /\ ChunkSize \in Nat \ {0}
       /\ {MaxGen, MaxVer, MaxQueue, MaxCb} \subseteq Nat \ {0}
       /\ AddFlags \subseteq [am : BOOLEAN, paused : BOOLEAN] /\ AddFlags # {}

VARIABLES
    phase,       \* "created", "running", "saving" (in ~Session), "stopped",
                 \* "aborted" (std::terminate) or "crashed" (killed)
    engine,      \* info hashes of the torrents in the lt::session
    gen,         \* gen[h]: instance number of the last torrent added for h
    flags,       \* flags[h]: auto_managed and paused flags of that torrent
    meta,        \* torrents whose metadata is present
    checking,    \* torrents with a check of their files in progress
    ver,         \* ver[h]: version of the torrent's resume state
    dirty,       \* torrents whose need_save_resume is set
    saveReq,     \* saveReq[h]: save_resume_data requests not yet answered
    sessPaused,  \* the lt::session is paused
    queue,       \* the engine's alert queue
    batch,       \* alerts popped by the ReadAlerts task being run
    tmap,        \* m_torrents: info hash -> instance its handle refers to
    db,          \* torrents table: info hash -> [g, v] of the resume data
    callbacks,   \* m_oneshot_torrent_callbacks at torrent_checked, per hash
    order,       \* ~Session: torrents of m_torrents not yet visited
    chunks,      \* ~Session: number of chunks
    chunk,       \* ~Session: chunks begun
    outstanding, \* ~Session: saves awaited in the current chunk
    requested,   \* history: torrents whose save ~Session requested
    failedLog,   \* history: torrents whose save failure ~Session logged
    seen,        \* history: flags observed by the first pending Recheck
    paramsFile   \* session_params.dat: "none", "ok" or "partial" (truncated)

engineVars == <<engine, gen, flags, meta, checking, ver, dirty, saveReq,
                sessPaused, queue>>
shutVars == <<order, chunks, chunk, outstanding, requested, failedLog>>
vars == <<phase, engineVars, batch, tmap, db, callbacks, shutVars, seen, paramsFile>>

FlagVals == [am : BOOLEAN, paused : BOOLEAN]
Kinds == {"checked", "save", "save_failed", "metadata", "finished", "removed",
          "moved", "paused", "resumed"}
Alerts == [kind : Kinds, h : Hashes, g : 0..MaxGen, v : 0..MaxVer]
Callback == [g : 0..MaxGen, am : BOOLEAN, paused : BOOLEAN]

\* An alert of kind k about the torrent h currently in the engine.
Alert(k, h) == [kind |-> k, h |-> h, g |-> gen[h], v |-> ver[h]]

\* th.is_valid() for the handle m_torrents stores for h.
Valid(h) == h \in DOMAIN tmap /\ h \in engine /\ gen[h] = tmap[h]

\* The handle an alert carries still refers to a live torrent.
AlertValid(a) == a.h \in engine /\ gen[a.h] = a.g

\* th.save_resume_data(...) for every torrent of S.
RequestSave(S) ==
    saveReq' = [h \in Hashes |-> IF h \in S THEN saveReq[h] + 1
                                               ELSE saveReq[h]]

\* AddTorrentParams::Update: an UPDATE statement, no row is created.
Update(rows, a) ==
    IF a.h \in DOMAIN rows
    THEN [rows EXCEPT ![a.h] = [g |-> a.g, v |-> a.v]]
    ELSE rows

\* AddTorrentParams::Remove: a DELETE statement.
DeleteRow(rows, h) == [x \in DOMAIN rows \ {h} |-> rows[x]]

TypeOK ==
    /\ phase \in {"created", "running", "saving", "stopped", "aborted", "crashed",
                  "startfailed"}
    /\ paramsFile \in {"none", "ok", "partial"}
    /\ engine \subseteq Hashes /\ meta \subseteq Hashes
    /\ checking \subseteq engine /\ dirty \subseteq Hashes
    /\ gen \in [Hashes -> 0..MaxGen] /\ flags \in [Hashes -> FlagVals]
    /\ ver \in [Hashes -> 0..MaxVer] /\ saveReq \in [Hashes -> Nat]
    /\ sessPaused \in BOOLEAN
    /\ queue \in Seq(Alerts) /\ batch \in Seq(Alerts)
    /\ DOMAIN tmap \subseteq Hashes /\ \A h \in DOMAIN tmap : tmap[h] \in 1..MaxGen
    /\ DOMAIN db \subseteq Hashes
    /\ \A h \in DOMAIN db : db[h] \in [g : 0..MaxGen, v : 0..MaxVer]
    /\ callbacks \in [Hashes -> Seq(Callback)]
    /\ outstanding \in Int /\ chunk \in Nat /\ chunks \in Nat
    /\ requested \subseteq Hashes /\ failedLog \subseteq Hashes
    /\ seen \in [Hashes -> FlagVals]

-----------------------------------------------------------------------------
(* Start-up: rows left by an earlier run, nothing loaded yet; the session  *)
(* params file, if there is one, was read and decoded by the constructor.  *)

Init ==
    /\ phase = "created"
    /\ \E rows \in SUBSET Hashes : db = [h \in rows |-> [g |-> 0, v |-> 0]]
    /\ engine = {} /\ meta = {} /\ checking = {} /\ dirty = {}
    /\ gen = [h \in Hashes |-> 0]
    /\ flags = [h \in Hashes |-> [am |-> FALSE, paused |-> FALSE]]
    /\ ver = [h \in Hashes |-> 0] /\ saveReq = [h \in Hashes |-> 0]
    /\ sessPaused = FALSE /\ queue = <<>> /\ batch = <<>>
    /\ tmap = <<>> /\ callbacks = [h \in Hashes |-> <<>>]
    /\ order = <<>> /\ chunks = 0 /\ chunk = 0 /\ outstanding = 0
    /\ requested = {} /\ failedLog = {}
    /\ seen = flags
    /\ paramsFile \in {"none", "ok"}

\* Session::Load: every stored row is added to the engine (which checks its
\* resume data) and its handle stored in m_torrents.
Load ==
    LET rows == DOMAIN db IN
    /\ phase = "created"
    /\ \A h \in rows : gen[h] < MaxGen
    /\ \E f \in [rows -> AddFlags], m \in SUBSET rows :
        /\ flags' = [h \in Hashes |-> IF h \in rows THEN f[h] ELSE flags[h]]
        /\ meta' = m
    /\ engine' = rows /\ checking' = rows /\ dirty' = {}
    /\ gen' = [h \in Hashes |-> IF h \in rows THEN gen[h] + 1 ELSE gen[h]]
    /\ ver' = [h \in Hashes |-> IF h \in rows THEN db[h].v ELSE 0]
    /\ tmap' = [h \in rows |-> gen[h] + 1]
    /\ phase' = "running"
    /\ UNCHANGED <<saveReq, sessPaused, queue, batch, db, callbacks, shutVars, seen, paramsFile>>

\* User operations run as event-loop tasks, never inside a ReadAlerts task.
LoopIdle == phase = "running" /\ batch = <<>>

\* Mutant: the handle stored is the one from before the add.
InsertHandleStale(h, g) ==
    tmap' = IF h \in DOMAIN tmap THEN tmap
            ELSE [x \in DOMAIN tmap \cup {h} |-> IF x = h THEN g - 1 ELSE tmap[x]]

\* m_torrents.insert({hash, th}): keeps an entry already present for hash.
InsertHandle(h, g) ==
    tmap' = IF h \in DOMAIN tmap THEN tmap
            ELSE [x \in DOMAIN tmap \cup {h} |-> IF x = h THEN g ELSE tmap[x]]

\* Session::AddTorrent.  A duplicate is refused by the engine (early return).
\* The INSERT fails when a row for h still exists, and std::map::insert
\* keeps an entry already present for h.
AddTorrent(h) ==
    /\ LoopIdle
    /\ h \notin engine
    /\ gen[h] < MaxGen
    /\ \E f \in AddFlags, m \in BOOLEAN :
        /\ flags' = [flags EXCEPT ![h] = f]
        /\ meta' = IF m THEN meta \cup {h} ELSE meta \ {h}
    /\ engine' = engine \cup {h} /\ checking' = checking \cup {h}
    /\ gen' = [gen EXCEPT ![h] = @ + 1]
    /\ ver' = [ver EXCEPT ![h] = 0] /\ dirty' = dirty \cup {h}
    /\ db' = IF h \in DOMAIN db THEN db
             ELSE [x \in DOMAIN db \cup {h} |->
                     IF x = h THEN [g |-> gen'[h], v |-> 0] ELSE db[x]]
    /\ RequestSave({h})
    /\ InsertHandle(h, gen'[h])
    /\ UNCHANGED <<phase, sessPaused, queue, batch, callbacks, shutVars, seen, paramsFile>>

\* An alert of kind k for h, unless the queue is full: libtorrent's
\* alert_manager drops what does not fit in alert_queue_size.  Only the
\* torrent_paused and torrent_resumed alerts, whose handlers merely read the
\* status, are modelled as droppable; for the others the engine step waits.
PostStatus(k, h) ==
    IF Len(queue) < MaxQueue THEN Append(queue, Alert(k, h)) ELSE queue

\* Session::Recheck: clear auto_managed, resume if paused (torrent_resumed),
\* register a callback that restores what it saw, then force_recheck.
Recheck(h) ==
    /\ LoopIdle
    /\ Valid(h)
    /\ Len(callbacks[h]) < MaxCb
    /\ flags' = [flags EXCEPT ![h] = [am |-> FALSE, paused |-> FALSE]]
    /\ callbacks' = [callbacks EXCEPT ![h] = Append(@,
          [g |-> gen[h], am |-> flags[h].am, paused |-> flags[h].paused])]
    /\ checking' = checking \cup {h}
    /\ seen' = IF callbacks[h] = <<>> THEN [seen EXCEPT ![h] = flags[h]] ELSE seen
    /\ queue' = IF flags[h].paused THEN PostStatus("resumed", h) ELSE queue
    /\ UNCHANGED <<phase, engine, gen, meta, ver, dirty, saveReq, sessPaused,
                   batch, tmap, db, shutVars, paramsFile>>

\* Session::Remove: the engine drops the torrent at once and later posts
\* torrent_removed; the row and the map entry go when that alert is handled.
Remove(h) ==
    /\ LoopIdle
    /\ Valid(h)
    /\ Len(queue) < MaxQueue
    /\ engine' = engine \ {h} /\ checking' = checking \ {h}
    /\ dirty' = dirty \ {h} /\ saveReq' = [saveReq EXCEPT ![h] = 0]
    /\ queue' = Append(queue, Alert("removed", h))
    /\ UNCHANGED <<phase, gen, flags, meta, ver, sessPaused, batch, tmap, db,
                   callbacks, shutVars, seen, paramsFile>>

\* Session::Pause and Session::Resume forward to the engine.
Pause == LoopIdle /\ sessPaused' = TRUE
         /\ UNCHANGED <<phase, engine, gen, flags, meta, checking, ver, dirty,
                        saveReq, queue, batch, tmap, db, callbacks, shutVars, seen, paramsFile>>
Resume == LoopIdle /\ sessPaused' = FALSE
          /\ UNCHANGED <<phase, engine, gen, flags, meta, checking, ver, dirty,
                         saveReq, queue, batch, tmap, db, callbacks, shutVars, seen, paramsFile>>

-----------------------------------------------------------------------------
(* The engine's own threads.                                                *)

EngineRuns == phase \in {"running", "saving"}

\* A check of the torrent's files completes: torrent_checked.
EngineCheckDone(h) ==
    /\ EngineRuns /\ h \in checking /\ Len(queue) < MaxQueue
    /\ checking' = checking \ {h}
    /\ queue' = Append(queue, Alert("checked", h))
    /\ UNCHANGED <<phase, engine, gen, flags, meta, ver, dirty, saveReq,
                   sessPaused, batch, tmap, db, callbacks, shutVars, seen, paramsFile>>

\* Metadata arrives for a torrent added without it: metadata_received.
EngineMetadata(h) ==
    /\ EngineRuns /\ h \in engine \ meta /\ Len(queue) < MaxQueue
    /\ meta' = meta \cup {h} /\ dirty' = dirty \cup {h}
    /\ queue' = Append(queue, Alert("metadata", h))
    /\ UNCHANGED <<phase, engine, gen, flags, checking, ver, saveReq,
                   sessPaused, batch, tmap, db, callbacks, shutVars, seen, paramsFile>>

\* A running torrent downloads: its resume state changes and it may finish.
EngineProgress(h) ==
    /\ EngineRuns /\ ~sessPaused
    /\ h \in (engine \cap meta) \ checking /\ ~flags[h].paused
    /\ ver[h] < MaxVer
    /\ ver' = [ver EXCEPT ![h] = @ + 1] /\ dirty' = dirty \cup {h}
    /\ \/ UNCHANGED queue
       \/ Len(queue) < MaxQueue /\ queue' = Append(queue, Alert("finished", h))
    /\ UNCHANGED <<phase, engine, gen, flags, meta, checking, saveReq,
                   sessPaused, batch, tmap, db, callbacks, shutVars, seen, paramsFile>>

\* A save_resume_data request is answered.  With only_if_modified an
\* unmodified torrent gets save_resume_data_failed; a write can fail too.
EngineAnswerSave(h) ==
    /\ EngineRuns /\ h \in engine /\ saveReq[h] > 0 /\ Len(queue) < MaxQueue
    /\ saveReq' = [saveReq EXCEPT ![h] = @ - 1]
    /\ \/ /\ h \in dirty
          /\ queue' = Append(queue, Alert("save", h))
          /\ dirty' = dirty \ {h}
       \/ /\ queue' = Append(queue, Alert("save_failed", h))
          /\ UNCHANGED dirty
    /\ UNCHANGED <<phase, engine, gen, flags, meta, checking, ver, sessPaused,
                   batch, tmap, db, callbacks, shutVars, seen, paramsFile>>

\* A move_storage a client asked of the handle completes: the save path,
\* and so the resume state, changes (bounded with the downloads by MaxVer).
EngineStorageMoved(h) ==
    /\ EngineRuns /\ h \in engine /\ ver[h] < MaxVer /\ Len(queue) < MaxQueue
    /\ ver' = [ver EXCEPT ![h] = @ + 1] /\ dirty' = dirty \cup {h}
    /\ queue' = Append(queue, Alert("moved", h))
    /\ UNCHANGED <<phase, engine, gen, flags, meta, checking, saveReq,
                   sessPaused, batch, tmap, db, callbacks, shutVars, seen, paramsFile>>

-----------------------------------------------------------------------------
(* Session::ReadAlerts: the notify callback posts it whenever alerts are     *)
(* pending; it pops them all, then handles them one by one, in order.       *)

\* Mutant: the popped alerts are handled newest first.
ReadAlertsReversed ==
    /\ LoopIdle /\ queue # <<>>
    /\ batch' = SX!Reverse(queue) /\ queue' = <<>>
    /\ UNCHANGED <<phase, engine, gen, flags, meta, checking, ver, dirty,
                   saveReq, sessPaused, tmap, db, callbacks, shutVars, seen, paramsFile>>

ReadAlerts ==
    /\ LoopIdle /\ queue # <<>>
    /\ batch' = queue /\ queue' = <<>>
    /\ UNCHANGED <<phase, engine, gen, flags, meta, checking, ver, dirty,
                   saveReq, sessPaused, tmap, db, callbacks, shutVars, seen, paramsFile>>

Handling(k) == phase = "running" /\ batch # <<>> /\ Head(batch).kind = k

\* Mutant: the callback restores auto_managed but forgets to re-pause.
ApplyCallbackNoPause(f, cb) == [am |-> f.am \/ cb.am, paused |-> f.paused]

\* One one-shot callback of Recheck: nothing if m_torrents lacks the hash,
\* else set_flags(auto_managed) if it was set, then pause() if it was paused.
ApplyCallback(f, cb) ==
    [am |-> f.am \/ cb.am, paused |-> f.paused \/ cb.paused]

\* torrent_checked: run every callback at (torrent_checked, hash) in
\* registration order, then erase the key.  An alert whose handle is no
\* longer valid yields an empty info hash and matches no key.  A pause()
\* of a running torrent makes the engine post torrent_paused.
OnTorrentChecked ==
    LET a == Head(batch)
        f == IF a.h \in DOMAIN tmap
             THEN SX!FoldLeft(ApplyCallback, flags[a.h], callbacks[a.h])
             ELSE flags[a.h]
    IN
    /\ Handling("checked")
    /\ IF AlertValid(a)
       THEN /\ flags' = [flags EXCEPT ![a.h] = f]
            /\ callbacks' = [callbacks EXCEPT ![a.h] = <<>>]
            /\ queue' = IF f.paused /\ ~flags[a.h].paused
                        THEN PostStatus("paused", a.h) ELSE queue
       ELSE UNCHANGED <<flags, callbacks, queue>>
    /\ batch' = Tail(batch)
    /\ UNCHANGED <<phase, engine, gen, meta, checking, ver, dirty, saveReq,
                   sessPaused, tmap, db, shutVars, seen, paramsFile>>

\* handle.status() or save_resume_data() on the handle of a torrent that
\* is gone throws; nothing in ReadAlerts or io_context::run catches it, and
\* the process ends.
Throw == phase' = "aborted" /\ UNCHANGED batch

\* save_resume_data: read handle.status(), then UPDATE the row at its info
\* hash with the alert's resume data.
OnSaveResumeData ==
    LET a == Head(batch) IN
    /\ Handling("save")
    /\ IF AlertValid(a)
       THEN db' = Update(db, a) /\ batch' = Tail(batch) /\ UNCHANGED phase
       ELSE Throw /\ UNCHANGED db
    /\ UNCHANGED <<engineVars, tmap, callbacks, shutVars, seen, paramsFile>>

\* metadata_received: log handle.status().name, request resume data.
OnMetadataReceived ==
    LET a == Head(batch) IN
    /\ Handling("metadata")
    /\ IF AlertValid(a)
       THEN RequestSave({a.h}) /\ batch' = Tail(batch) /\ UNCHANGED phase
       ELSE Throw /\ UNCHANGED saveReq
    /\ UNCHANGED <<engine, gen, flags, meta, checking, ver, dirty,
                   sessPaused, queue, tmap, db, callbacks, shutVars, seen, paramsFile>>

\* torrent_finished: read handle.status(), request resume data if
\* status.need_save_resume.
OnTorrentFinished ==
    LET a == Head(batch) IN
    /\ Handling("finished")
    /\ IF AlertValid(a)
       THEN /\ IF a.h \in dirty THEN RequestSave({a.h}) ELSE UNCHANGED saveReq
            /\ batch' = Tail(batch) /\ UNCHANGED phase
       ELSE Throw /\ UNCHANGED saveReq
    /\ UNCHANGED <<engine, gen, flags, meta, checking, ver, dirty,
                   sessPaused, queue, tmap, db, callbacks, shutVars, seen, paramsFile>>

\* storage_moved: request resume data if handle.need_save_resume_data().
OnStorageMoved ==
    LET a == Head(batch) IN
    /\ Handling("moved")
    /\ IF AlertValid(a)
       THEN /\ IF a.h \in dirty THEN RequestSave({a.h}) ELSE UNCHANGED saveReq
            /\ batch' = Tail(batch) /\ UNCHANGED phase
       ELSE Throw /\ UNCHANGED saveReq
    /\ UNCHANGED <<engine, gen, flags, meta, checking, ver, dirty,
                   sessPaused, queue, tmap, db, callbacks, shutVars, seen, paramsFile>>

\* torrent_paused and torrent_resumed: read handle.status() and emit it.
OnStatusEvent(k) ==
    /\ Handling(k)
    /\ IF AlertValid(Head(batch))
       THEN batch' = Tail(batch) /\ UNCHANGED phase
       ELSE Throw
    /\ UNCHANGED <<engineVars, tmap, db, callbacks, shutVars, seen, paramsFile>>

OnTorrentPaused == OnStatusEvent("paused")
OnTorrentResumed == OnStatusEvent("resumed")

\* Mutant: the row is deleted but m_torrents keeps the entry.
OnTorrentRemovedKeepsEntry ==
    LET a == Head(batch) IN
    /\ Handling("removed")
    /\ db' = DeleteRow(db, a.h)
    /\ batch' = Tail(batch)
    /\ UNCHANGED <<phase, engineVars, tmap, callbacks, shutVars, seen, paramsFile>>

\* torrent_removed: DELETE the row and erase m_torrents at the alert's hash.
OnTorrentRemoved ==
    LET a == Head(batch) IN
    /\ Handling("removed")
    /\ db' = DeleteRow(db, a.h)
    /\ tmap' = [x \in DOMAIN tmap \ {a.h} |-> tmap[x]]
    /\ batch' = Tail(batch)
    /\ UNCHANGED <<phase, engineVars, callbacks, shutVars, seen, paramsFile>>

\* save_resume_data_failed has no case in the switch.
OnIgnored ==
    /\ Handling("save_failed")
    /\ batch' = Tail(batch)
    /\ UNCHANGED <<phase, engineVars, tmap, db, callbacks, shutVars, seen, paramsFile>>
-----------------------------------------------------------------------------
(* ~Session.  Notify becomes a no-op and the loop no longer runs, so alerts *)
(* pile up in the engine until the destructor pops them itself.            *)

\* WriteSessionParams: std::ofstream with ios::trunc, then one write.  If
\* the open fails the file is left as it was; if the write fails what was
\* written stays.  Either failure is logged and ~Session goes on.
WriteSessionParams ==
    \/ UNCHANGED paramsFile
    \/ paramsFile' = "ok"
    \/ paramsFile' = "partial"

\* Timers cleared, session params written, engine paused, m_torrents
\* walked in key order in size / chunk_size + 1 chunks.
ShutdownBegin ==
    /\ LoopIdle
    /\ WriteSessionParams
    /\ phase' = "saving" /\ sessPaused' = TRUE
    /\ order' = SX!SetToSeq(DOMAIN tmap)
    /\ chunks' = Cardinality(DOMAIN tmap) \div ChunkSize + 1
    /\ chunk' = 0 /\ outstanding' = 0
    /\ UNCHANGED <<engine, gen, flags, meta, checking, ver, dirty, saveReq,
                   queue, batch, tmap, db, callbacks, requested, failedLog, seen>>

\* One chunk: th.status() is read before th.is_valid() is tested, and on an
\* invalid handle it throws out of the destructor (std::terminate).  Else a
\* save is requested for each torrent with metadata and need_save_resume.
ShutdownChunk ==
    LET n     == IF ChunkSize < Len(order) THEN ChunkSize ELSE Len(order)
        items == SX!ToSet(SubSeq(order, 1, n))
        S     == {h \in items : h \in meta /\ h \in dirty}
    IN
    /\ phase = "saving" /\ outstanding <= 0 /\ chunk < chunks
    /\ IF \A h \in items : Valid(h)
       THEN /\ RequestSave(S)
            /\ outstanding' = Cardinality(S)
            /\ requested' = requested \cup S
            /\ UNCHANGED phase
       ELSE /\ phase' = "aborted"
            /\ UNCHANGED <<saveReq, outstanding, requested>>
    /\ order' = SubSeq(order, n + 1, Len(order))
    /\ chunk' = chunk + 1
    /\ UNCHANGED <<engine, gen, flags, meta, checking, ver, dirty, sessPaused,
                   queue, batch, tmap, db, callbacks, chunks, failedLog, seen, paramsFile>>

IsAnswer(a) == a.kind \in {"save", "save_failed"}
IsSave(a) == a.kind = "save"

\* Mutant: save_resume_data_failed is skipped without a decrement.
ShutdownWaitIgnoresFailures ==
    LET saves == SelectSeq(queue, IsSave) IN
    /\ phase = "saving" /\ outstanding > 0 /\ queue # <<>>
    /\ IF \A i \in 1..Len(saves) : AlertValid(saves[i])
       THEN /\ db' = SX!FoldLeft(Update, db, saves)
            /\ outstanding' = outstanding - Len(saves)
            /\ UNCHANGED <<phase, failedLog>>
       ELSE /\ phase' = "aborted"
            /\ UNCHANGED <<db, outstanding, failedLog>>
    /\ queue' = <<>>
    /\ UNCHANGED <<engine, gen, flags, meta, checking, ver, dirty, saveReq,
                   sessPaused, batch, tmap, callbacks, order, chunks, chunk,
                   requested, seen, paramsFile>>

\* wait_for_alert then pop_alerts: torrent_paused and all other kinds are
\* skipped, each answer decrements outstanding, each save_resume_data is
\* written with an UPDATE (handle.status() throws on a dead handle).
ShutdownWait ==
    LET saves == SelectSeq(queue, IsSave) IN
    /\ phase = "saving" /\ outstanding > 0 /\ queue # <<>>
    /\ IF \A i \in 1..Len(saves) : AlertValid(saves[i])
       THEN /\ db' = SX!FoldLeft(Update, db, saves)
            /\ outstanding' = outstanding - Len(SelectSeq(queue, IsAnswer))
            /\ failedLog' = failedLog \cup
                 {queue[i].h : i \in {j \in 1..Len(queue) :
                                        queue[j].kind = "save_failed"}}
            /\ UNCHANGED phase
       ELSE /\ phase' = "aborted"
            /\ UNCHANGED <<db, outstanding, failedLog>>
    /\ queue' = <<>>
    /\ UNCHANGED <<engine, gen, flags, meta, checking, ver, dirty, saveReq,
                   sessPaused, batch, tmap, callbacks, order, chunks, chunk,
                   requested, seen, paramsFile>>

\* All chunks done: "All state saved".
ShutdownEnd ==
    /\ phase = "saving" /\ outstanding <= 0 /\ chunk = chunks
    /\ phase' = "stopped"
    /\ UNCHANGED <<engineVars, batch, tmap, db, callbacks, shutVars, seen, paramsFile>>

-----------------------------------------------------------------------------
(* Process exit and a new start: only the store survives.                   *)

Reboot ==
    /\ engine' = {} /\ meta' = {} /\ checking' = {} /\ dirty' = {}
    /\ saveReq' = [h \in Hashes |-> 0] /\ sessPaused' = FALSE
    /\ queue' = <<>> /\ batch' = <<>> /\ tmap' = <<>>
    /\ callbacks' = [h \in Hashes |-> <<>>]
    /\ order' = <<>> /\ chunks' = 0 /\ chunk' = 0 /\ outstanding' = 0
    /\ requested' = {} /\ failedLog' = {}
    /\ UNCHANGED <<gen, flags, ver, db, seen, paramsFile>>

Exits == {"stopped", "aborted", "crashed", "startfailed"}

\* The daemon is started again after it stopped, was terminated or killed.
\* The constructor reads session_params.dat if it exists; the decoding of
\* a truncated file throws and the daemon does not start.
Restart ==
    /\ phase \in Exits
    /\ \A h \in DOMAIN db : gen[h] < MaxGen
    /\ phase' = IF paramsFile = "partial" THEN "startfailed" ELSE "created"
    /\ Reboot

\* The process is killed while WriteSessionParams writes the file.
CrashWritingParams ==
    /\ LoopIdle
    /\ phase' = "crashed" /\ paramsFile' = "partial"
    /\ UNCHANGED <<engineVars, batch, tmap, db, callbacks, shutVars, seen>>

\* The process is killed at any point while it runs; the store survives.
Crash ==
    /\ phase \in {"running", "saving"}
    /\ phase' = "crashed"
    /\ UNCHANGED <<engineVars, batch, tmap, db, callbacks, shutVars, seen, paramsFile>>

\* No more starts within the bounds: the process has exited for good.
Exited ==
    /\ phase \in Exits
    /\ \E h \in DOMAIN db : gen[h] = MaxGen
    /\ UNCHANGED vars

-----------------------------------------------------------------------------

UserStep ==
    \/ \E h \in Hashes : AddTorrent(h) \/ Recheck(h) \/ Remove(h)
    \/ Pause \/ Resume \/ ShutdownBegin

EngineStep(h) ==
    \/ EngineCheckDone(h) \/ EngineMetadata(h) \/ EngineProgress(h)
    \/ EngineAnswerSave(h) \/ EngineStorageMoved(h)

AlertStep ==
    \/ ReadAlerts \/ OnTorrentChecked \/ OnSaveResumeData
    \/ OnMetadataReceived \/ OnTorrentFinished \/ OnTorrentRemoved \/ OnIgnored
    \/ OnStorageMoved \/ OnTorrentPaused \/ OnTorrentResumed

ShutdownStep == ShutdownChunk \/ ShutdownWait \/ ShutdownEnd

Next ==
    \/ Load \/ UserStep \/ (\E h \in Hashes : EngineStep(h))
    \/ AlertStep \/ ShutdownStep \/ Restart \/ Crash \/ CrashWritingParams
    \/ Exited

\* The engine answers every request and finishes every check it started;
\* the event loop runs the posted ReadAlerts tasks; the destructor and the
\* start-up run to their end.  Users, downloads, moves, the queue manager
\* and crashes are not forced.
Fairness ==
    /\ \A h \in Hashes : WF_vars(EngineCheckDone(h)) /\ WF_vars(EngineAnswerSave(h))
    /\ WF_vars(AlertStep) /\ WF_vars(ShutdownStep) /\ WF_vars(Load)

Spec == Init /\ [][Next]_vars /\ Fairness
-----------------------------------------------------------------------------
(* Properties.                                                              *)

RemovalPending(h) ==
    \E a \in SX!ToSet(queue) \cup SX!ToSet(batch) : a.kind = "removed" /\ a.h = h

\* While the daemon runs, the torrents table and m_torrents hold the same
\* info hashes, and an entry of m_torrents whose handle is dead always has
\* its torrent_removed alert still to come (AddTorrent's INSERT and map
\* insert against Remove and the torrent_removed handler).
SessionMapTracksStore ==
    phase = "running" =>
        /\ DOMAIN db = DOMAIN tmap
        /\ \A h \in DOMAIN tmap : Valid(h) \/ RemovalPending(h)

\* The torrent_checked handler runs the callbacks at (torrent_checked, h).
CallbacksFire(h) ==
    /\ callbacks[h] # <<>> /\ callbacks'[h] = <<>> /\ phase' = "running"

\* When torrent_checked runs the callbacks that Recheck registered on the
\* torrent still in the engine, its auto_managed and paused flags become
\* those observed by the first of these Rechecks, however many Rechecks
\* were stacked on the key and whichever check's alert fired them.
RecheckRestoresFlags ==
    [][\A h \in Hashes :
         (CallbacksFire(h) /\ \A i \in 1..Len(callbacks[h]) : callbacks[h][i].g = gen[h])
            => flags'[h] = seen[h]]_vars

\* The resume data stored for a torrent instance is never replaced by older
\* resume data of the same instance: save_resume_data alerts are written in
\* the order the engine produced them, by ReadAlerts and by ~Session.
ResumeDataNeverRegresses ==
    [][\A h \in DOMAIN db \cap DOMAIN db' :
         db'[h].g = db[h].g => db'[h].v >= db[h].v]_vars

\* The wait loop of ~Session never hangs: every chunk's outstanding count
\* reaches zero, so the destructor ends (or the process dies).
ShutdownCompletes == (phase = "saving") ~> (phase # "saving")

\* After ~Session returns, every torrent it asked to save has its current
\* resume data in the store, or its failure was logged (spec 4.C).
ShutdownPersistsRequested ==
    phase = "stopped" =>
        \A h \in requested :
            \/ h \in failedLog
            \/ h \in DOMAIN db /\ db[h] = [g |-> gen[h], v |-> ver[h]]

\* No exception ends the process: none escapes the alert handlers of
\* ReadAlerts or the destructor ~Session (spec 7: only start-up errors are
\* fatal).
NeverTerminates == phase # "aborted"

\* Every start of the daemon gets past the constructor: the session params
\* file a shutdown or a crash leaves behind can be read (spec 4.C: the
\* shutdown must remain crash-safe; spec 7: a failed write of the file must
\* not stop the daemon).
StartupNeverFails == phase # "startfailed"

\* Once every alert has been handled, the engine, m_torrents and the store
\* hold the same torrents and every handle is live (spec 3, TorrentHandle).
QuiescentConsistency ==
    (phase = "running" /\ queue = <<>> /\ batch = <<>>) =>
        /\ engine = DOMAIN tmap /\ DOMAIN tmap = DOMAIN db
        /\ \A h \in DOMAIN tmap : Valid(h)

=============================================================================
