----------------------------- MODULE MC_Daemon -----------------------------
(* Daemon for TLC: the three timers of Session::Session.                    *)
EXTENDS Daemon

CONSTANTS dht, stats, updates

\* dht_stats, session_stats, torrent_updates, in the constructor's order.
MCTimerOrder == <<dht, stats, updates>>
====
