------------------------------ MODULE Prefetch ------------------------------
(***************************************************************************)
(* The media-info prefetch of one torrent (src/src/session.cpp): the setup *)
(* at the end of Session::AddTorrent, the piece_finished handler and the   *)
(* staggered flag of the torrent_finished handler in Session::ReadAlerts.  *)
(*                                                                         *)
(* The engine downloads the pieces whose priority is not dont_download.    *)
(* For each downloaded piece it queues a piece_finished alert and, when    *)
(* that piece was the last one with a non-zero priority, a torrent_finished *)
(* alert after it.  Pieces already on disk when the torrent is added are   *)
(* found by the check and get no piece_finished alert.                     *)
(***************************************************************************)
EXTENDS Integers, Sequences, FiniteSets

CONSTANTS
    NumPieces,     \* files.num_pieces()
    PieceSize,     \* piece index -> files.piece_size(piece)
    Files,         \* file index -> [first, last, size, media]
    MinSize,       \* m_mediainfo_file_min_size
    WantedSize,    \* m_mediainfo_file_wanted_size
    Preexisting    \* the sets of pieces that may be on disk when added

Pieces == 0..(NumPieces - 1)
FileIds == DOMAIN Files

ASSUME PieceSize \in [Pieces -> Nat \ {0}]
ASSUME \A f \in FileIds : Files[f].first \in Pieces /\ Files[f].last \in Pieces
ASSUME Preexisting \subseteq SUBSET Pieces

-----------------------------------------------------------------------------
(* The piece selection of the setup loop, as the code computes it.         *)

\* Files whose size is at least the minimum and whose extension is in
\* m_mediainfo_file_extensions.
Selected == {f \in FileIds : Files[f].size >= MinSize /\ Files[f].media}

\* Mutant: the loop asks for one piece past the wanted size.
RECURSIVE AskPastWanted(_, _)
AskPastWanted(p, a) ==
    IF a > WantedSize \/ p >= NumPieces THEN {}
    ELSE {p} \cup AskPastWanted(p + 1, a + PieceSize[p])

\* The while loop: from piece p, with asked_size a, take pieces until the
\* size asked for reaches the wanted size or the torrent's end_piece.
RECURSIVE Ask(_, _)
Ask(p, a) ==
    IF a >= WantedSize \/ p >= NumPieces THEN {}
    ELSE {p} \cup Ask(p + 1, a + PieceSize[p])

FilePieces(f) == Ask(Files[f].first, 0)

\* piece_prio: the pieces of every selected file, all at top_priority.
PiecePrio == UNION {FilePieces(f) : f \in Selected}

\* `wanted = {file_index: pieces}` is rebuilt for each selected file, so
\* the maps stored in the client data are those of the last one.
LastSelected == CHOOSE f \in Selected : \A g \in Selected : g <= f

(* The selection as spec 4.D.2 states it: every selected file's leading    *)
(* pieces, up to its own last piece.                                       *)
RECURSIVE SpecAsk(_, _, _)
SpecAsk(f, p, a) ==
    IF a >= WantedSize \/ p > Files[f].last THEN {}
    ELSE {p} \cup SpecAsk(f, p + 1, a + PieceSize[p])

-----------------------------------------------------------------------------
VARIABLES
    added,      \* Session::AddTorrent has run
    prio,       \* piece -> "dont", "top" or "default"
    have,       \* pieces on disk
    queue,      \* alerts of this torrent not yet handled
    maps,       \* mediainfo_file_pieces_wanted/_completed are set
    wanted,     \* mediainfo_file_pieces_wanted: file -> pieces
    completed,  \* mediainfo_file_pieces_completed: file -> pieces
    enabled,    \* mediainfo_enabled.value_or(false)
    staggered,  \* mediainfo_enabled_staggered.value_or(false)
    parsed,     \* files MediaInfo::Parser::ParseExternal ran on
    posted,     \* torrent-mediainfo events posted
    emitted,    \* torrent-finished events emitted
    suppressed  \* torrent_finished alerts handled without the event

vars == <<added, prio, have, queue, maps, wanted, completed, enabled,
          staggered, parsed, posted, emitted, suppressed>>

NoFiles == [f \in {} |-> {}]

Alerts == [kind : {"piece"}, p : Pieces] \cup [kind : {"finished"}, p : {0}]
MaxEvents == NumPieces + 1

TypeOK ==
    /\ added \in BOOLEAN
    /\ prio \in [Pieces -> {"dont", "top", "default"}]
    /\ have \subseteq Pieces
    /\ queue \in Seq(Alerts) /\ Len(queue) <= 2 * NumPieces
    /\ maps \in BOOLEAN
    /\ DOMAIN wanted = DOMAIN completed /\ DOMAIN wanted \subseteq FileIds
    /\ \A f \in DOMAIN wanted : wanted[f] \subseteq Pieces /\ completed[f] \subseteq wanted[f]
    /\ enabled \in BOOLEAN /\ staggered \in BOOLEAN
    /\ parsed \subseteq FileIds
    /\ posted \in 0..MaxEvents /\ emitted \in 0..MaxEvents /\ suppressed \in 0..MaxEvents

Init ==
    /\ added = FALSE
    /\ prio = [p \in Pieces |-> "default"]
    /\ have \in Preexisting
    /\ queue = <<>>
    /\ maps = FALSE /\ wanted = NoFiles /\ completed = NoFiles
    /\ enabled = FALSE /\ staggered = FALSE
    /\ parsed = {} /\ posted = 0 /\ emitted = 0 /\ suppressed = 0

-----------------------------------------------------------------------------
\* Mutant: the completed map is not initialised with the wanted one.
AddTorrentNoCompleted ==
    /\ ~added
    /\ added' = TRUE
    /\ IF Selected # {}
         THEN /\ maps' = TRUE
              /\ wanted' = [f \in {LastSelected} |-> FilePieces(f)]
         ELSE UNCHANGED <<maps, wanted>>
    /\ IF PiecePrio # {}
         THEN /\ prio' = [p \in Pieces |-> IF p \in PiecePrio THEN "top" ELSE "dont"]
              /\ enabled' = TRUE
         ELSE UNCHANGED <<prio, enabled>>
    /\ UNCHANGED <<completed, have, queue, staggered, parsed, posted, emitted, suppressed>>

(* Session::AddTorrent with m_mediainfo_enabled: every selected file       *)
(* replaces the maps; if any piece was selected, every piece is set to     *)
(* dont_download, the selected ones to top_priority, and the prefetch is   *)
(* enabled.                                                                *)
AddTorrent ==
    /\ ~added
    /\ added' = TRUE
    /\ IF Selected # {}
         THEN /\ maps' = TRUE
              /\ wanted' = [f \in {LastSelected} |-> FilePieces(f)]
              /\ completed' = [f \in {LastSelected} |-> {}]
         ELSE UNCHANGED <<maps, wanted, completed>>
    /\ IF PiecePrio # {}
         THEN /\ prio' = [p \in Pieces |-> IF p \in PiecePrio THEN "top" ELSE "dont"]
              /\ enabled' = TRUE
         ELSE UNCHANGED <<prio, enabled>>
    /\ UNCHANGED <<have, queue, staggered, parsed, posted, emitted, suppressed>>

\* The engine is finished when it has every piece it is asked to download.
IsFinished(h) == \A p \in Pieces : prio[p] # "dont" => p \in h

\* The engine downloads a piece and queues piece_finished, then
\* torrent_finished if the torrent has become finished.
Download(p) ==
    /\ added /\ prio[p] # "dont" /\ p \notin have
    /\ have' = have \cup {p}
    /\ queue' = queue \o
         (IF IsFinished(have \cup {p})
            THEN << [kind |-> "piece", p |-> p], [kind |-> "finished", p |-> 0] >>
            ELSE << [kind |-> "piece", p |-> p] >>)
    /\ UNCHANGED <<added, prio, maps, wanted, completed, enabled, staggered,
                   parsed, posted, emitted, suppressed>>

-----------------------------------------------------------------------------
(* piece_finished: skip unless the wanted map is set and not empty and the *)
(* prefetch is enabled; record the piece for every file still waiting,    *)
(* parse a file whose pieces are all complete and clear its sets; if then *)
(* every completed set is empty, restore the priorities and end.          *)

\* One file of the loop: the completed set after inserting piece p.
Recorded(f, p) ==
    IF p \in wanted[f] THEN completed[f] \cup {p} ELSE completed[f]

\* Mutant: the file counts as done one piece early.
FileDoneEarly(f, p) == Cardinality(Recorded(f, p)) + 1 >= Cardinality(wanted[f])

\* `completed.size() == wanted.size()`.
FileDone(f, p) == Cardinality(Recorded(f, p)) = Cardinality(wanted[f])

\* The files whose sets are cleared by this piece.
DoneFiles(p) ==
    {f \in DOMAIN wanted : wanted[f] # {} /\ FileDone(f, p)}

\* The completed map after the loop.
AfterLoop(p) ==
    [f \in DOMAIN completed |->
        IF wanted[f] = {} THEN completed[f]
        ELSE IF f \in DoneFiles(p) THEN {} ELSE Recorded(f, p)]

\* std::all_of over the completed map.
AllCompleted(c) == \A f \in DOMAIN c : c[f] = {}

OnPieceFinished ==
    /\ queue # <<>> /\ Head(queue).kind = "piece"
    /\ queue' = Tail(queue)
    /\ IF ~maps \/ DOMAIN wanted = {} \/ ~enabled
         THEN UNCHANGED <<prio, maps, wanted, completed, enabled, staggered,
                         parsed, posted>>
         ELSE LET p == Head(queue).p
                  c == AfterLoop(p)
              IN /\ parsed' = parsed \cup DoneFiles(p)
                 /\ IF AllCompleted(c)
                      THEN /\ prio' = [q \in Pieces |-> "default"]
                           /\ maps' = FALSE
                           /\ wanted' = NoFiles /\ completed' = NoFiles
                           /\ enabled' = FALSE /\ staggered' = TRUE
                           /\ posted' = posted + 1
                      ELSE /\ completed' = c
                           /\ wanted' = [f \in DOMAIN wanted |->
                                           IF f \in DoneFiles(p) THEN {} ELSE wanted[f]]
                           /\ UNCHANGED <<prio, maps, enabled, staggered, posted>>
    /\ UNCHANGED <<added, have, emitted, suppressed>>

\* torrent_finished: emit unless the staggered flag is set; the flag is
\* written false only on the branch where it already is false.
OnTorrentFinished ==
    /\ queue # <<>> /\ Head(queue).kind = "finished"
    /\ queue' = Tail(queue)
    /\ IF ~staggered
         THEN emitted' = emitted + 1 /\ staggered' = FALSE /\ UNCHANGED suppressed
         ELSE suppressed' = suppressed + 1 /\ UNCHANGED <<emitted, staggered>>
    /\ UNCHANGED <<added, prio, have, maps, wanted, completed, enabled, parsed, posted>>

Next ==
    \/ AddTorrent
    \/ \E p \in Pieces : Download(p)
    \/ OnPieceFinished \/ OnTorrentFinished

\* The swarm serves every piece the torrent asks for, and the event loop
\* handles every alert.
Fairness ==
    /\ WF_vars(AddTorrent)
    /\ \A p \in Pieces : WF_vars(Download(p))
    /\ WF_vars(OnPieceFinished) /\ WF_vars(OnTorrentFinished)

Spec == Init /\ [][Next]_vars /\ Fairness

-----------------------------------------------------------------------------
(* Properties.                                                              *)

\* While the prefetch is in force, the pieces Session::AddTorrent set to
\* top_priority are those the spec's selection (4.D.2) gives every selected
\* file: the loop over the torrent's pieces checked against the per-file one.
SelectionMatchesSpec ==
    enabled =>
        {p \in Pieces : prio[p] = "top"}
            = UNION {SpecAsk(f, Files[f].first, 0) : f \in Selected}

AbsStage ==
    IF ~added THEN "init"
    ELSE IF enabled THEN "prefetch"
    ELSE IF posted > 0 THEN "done"
    ELSE "off"

Abstract == INSTANCE PrefetchSpec WITH stage <- AbsStage

\* The setup, the piece_finished handler and the engine together implement
\* the prefetch of spec 4.D: while it runs only the leading pieces of the
\* selected files are downloaded, a file is parsed only once they are on
\* disk, the prefetch ends (priorities restored) once every selected file
\* is parsed, and it does end, after which the torrent downloads in full.
PrefetchRefinesSpec == Abstract!Spec

\* The staggered flag suppresses exactly one torrent_finished event
\* (spec 4.D and 9).
SuppressesAtMostOne == suppressed <= 1

=============================================================================
