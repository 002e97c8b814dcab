---------------------------- MODULE PrefetchSpec ----------------------------
(***************************************************************************)
(* What the media-info prefetcher promises (spec 4.D), for one torrent:    *)
(* when it is added, the leading pieces of every selected media file are   *)
(* the only ones the torrent may download; each such file is parsed once   *)
(* its leading pieces are on disk; the prefetch then ends, the torrent may *)
(* download everything, and it downloads it.                               *)
(*                                                                         *)
(* stage: "init" (not added), "off" (nothing selected), "prefetch", "done". *)
(***************************************************************************)
EXTENDS Integers, FiniteSets

CONSTANTS NumPieces, PieceSize, Files, MinSize, WantedSize

VARIABLES stage, have, parsed

Pieces == 0..(NumPieces - 1)
FileIds == DOMAIN Files

\* Spec 4.D.1: large enough, with a media extension.
Chosen == {f \in FileIds : Files[f].size >= MinSize /\ Files[f].media}

\* Spec 4.D.2: the leading pieces of file f, up to the wanted size and no
\* further than the file's last piece.
RECURSIVE Leading(_, _, _)
Leading(f, p, a) ==
    IF a >= WantedSize \/ p > Files[f].last THEN {}
    ELSE {p} \cup Leading(f, p + 1, a + PieceSize[p])

Lead(f) == Leading(f, Files[f].first, 0)
Allowed == UNION {Lead(f) : f \in Chosen}

svars == <<stage, have, parsed>>

Init ==
    /\ stage = "init" /\ have \in SUBSET Pieces /\ parsed = {}

\* The torrent is added: the prefetch starts if any piece is selected.
Setup ==
    /\ stage = "init"
    /\ stage' = IF Allowed # {} THEN "prefetch" ELSE "off"
    /\ UNCHANGED <<have, parsed>>

\* A piece is downloaded: during the prefetch only a selected one.
Fetch(p) ==
    /\ stage # "init" /\ p \notin have
    /\ stage = "prefetch" => p \in Allowed
    /\ have' = have \cup {p}
    /\ UNCHANGED <<stage, parsed>>

\* A chosen file whose leading pieces are all on disk is parsed.
Parse(f) ==
    /\ stage = "prefetch" /\ f \in Chosen \ parsed /\ Lead(f) \subseteq have
    /\ parsed' = parsed \cup {f}
    /\ UNCHANGED <<stage, have>>

\* The prefetch ends, parsing the files still waiting, once the leading
\* pieces of every chosen file are on disk.
End ==
    /\ stage = "prefetch" /\ Allowed \subseteq have
    /\ stage' = "done" /\ parsed' = Chosen
    /\ UNCHANGED have

Next ==
    \/ Setup \/ End
    \/ \E p \in Pieces : Fetch(p)
    \/ \E f \in FileIds : Parse(f)

Spec ==
    /\ Init /\ [][Next]_svars
    /\ WF_svars(Setup) /\ WF_svars(End)
    /\ \A p \in Pieces : WF_svars(Fetch(p))

=============================================================================
