----------------------------- MODULE ZrgpEngine -----------------------------
(***************************************************************************)
(* ZRGPEngine: a listener thread opens one honey port per banner and       *)
(* answers whoever connects.  stop() closes the ports.  add_honey_port()   *)
(* appends under a lock that the listener does not take while it goes      *)
(* through the banners; the model adds no port during that pass, and       *)
(* nobody in the repository does.                                          *)
(***************************************************************************)
EXTENDS Naturals, SequencesExt, FiniteSetsExt

CONSTANTS ZgPeers,              \* addresses that connect
          ZgMaxPorts, ZgMaxStarts, ZgMaxProbes  \* bounds

ASSUME ZgConstants == {ZgMaxPorts, ZgMaxStarts, ZgMaxProbes} \subseteq Nat

VARIABLES zgBanners,    \* length of banners_
          zgPorts,      \* active_ports_: sockets, numbered in the order they were made
          zgOpen,       \* sockets the system holds open for the engine
          zgMade,       \* sockets made
          zgRunning, zgListener, zgAt,  \* running_; the listener's step and its place in the list
          zgStop,       \* stop(): "no", "join", "close"
          zgPeer,       \* the connection in hand
          zgStats, zgReplies,  \* attacker_stats_[ip].probes_received, fake_responses_
          zgStarts, zgProbes

zgVars == <<zgBanners, zgPorts, zgOpen, zgMade, zgRunning, zgListener, zgAt, zgStop, zgPeer, zgStats, zgReplies, zgStarts, zgProbes>>

ZgInit ==
  /\ zgBanners = 1 /\ zgPorts = <<>> /\ zgOpen = {} /\ zgMade = 0 /\ zgRunning = FALSE /\ zgListener = "none" /\ zgAt = 1
  /\ zgStop = "no" /\ zgPeer = (CHOOSE p \in ZgPeers : TRUE) /\ zgStats = [p \in ZgPeers |-> 0] /\ zgReplies = 0 /\ zgStarts = 0 /\ zgProbes = 0

ZgStart ==
  /\ ~zgRunning /\ zgStop = "no" /\ zgStarts < ZgMaxStarts
  /\ zgRunning' = TRUE /\ zgListener' = "bind" /\ zgAt' = 1 /\ zgStarts' = zgStarts + 1
  /\ UNCHANGED <<zgBanners, zgPorts, zgOpen, zgMade, zgStop, zgPeer, zgStats, zgReplies, zgProbes>>

\* add_honey_port()
ZgAddPort ==
  /\ zgBanners < ZgMaxPorts /\ zgListener # "bind" /\ zgBanners' = zgBanners + 1
  /\ UNCHANGED <<zgPorts, zgOpen, zgMade, zgRunning, zgListener, zgAt, zgStop, zgPeer, zgStats, zgReplies, zgStarts, zgProbes>>

\* socket() or bind() or listen() fails; what was opened is closed.
ZgGiveUp(s) == zgOpen

ZgBind ==
  /\ zgListener = "bind" /\ zgAt <= zgBanners /\ zgAt' = zgAt + 1 /\ zgMade' = zgMade + 1
  /\ \/ zgPorts' = Append(zgPorts, zgMade + 1) /\ zgOpen' = zgOpen \cup {zgMade + 1}
     \/ zgOpen' = ZgGiveUp(zgMade + 1) /\ UNCHANGED zgPorts
  /\ UNCHANGED <<zgBanners, zgRunning, zgListener, zgStop, zgPeer, zgStats, zgReplies, zgStarts, zgProbes>>

\* The end of the pass, or of a round after 50 ms of sleep: running_.
ZgRound ==
  /\ \/ zgListener = "bind" /\ zgAt > zgBanners
     \/ zgListener = "accept" /\ zgAt > Len(zgPorts)
  /\ zgListener' = (IF zgRunning THEN "accept" ELSE "ended") /\ zgAt' = 1
  /\ UNCHANGED <<zgBanners, zgPorts, zgOpen, zgMade, zgRunning, zgStop, zgPeer, zgStats, zgReplies, zgStarts, zgProbes>>

\* accept() finds nobody, or a peer.
ZgAccept ==
  /\ zgListener = "accept" /\ zgAt <= Len(zgPorts)
  /\ \/ zgAt' = zgAt + 1 /\ UNCHANGED <<zgListener, zgPeer, zgOpen, zgMade, zgProbes>>
     \/ /\ zgProbes < ZgMaxProbes /\ zgProbes' = zgProbes + 1 /\ zgPeer' \in ZgPeers /\ zgListener' = "count"
        /\ zgMade' = zgMade + 1 /\ zgOpen' = zgOpen \cup {zgMade + 1} /\ UNCHANGED zgAt
  /\ UNCHANGED <<zgBanners, zgPorts, zgRunning, zgStop, zgStats, zgReplies, zgStarts>>

\* emit_threat() and the statistics of the peer
ZgCount ==
  /\ zgListener = "count" /\ zgListener' = "reply" /\ zgStats' = [zgStats EXCEPT ![zgPeer] = @ + 1]
  /\ UNCHANGED <<zgBanners, zgPorts, zgOpen, zgMade, zgRunning, zgAt, zgStop, zgPeer, zgReplies, zgStarts, zgProbes>>

\* The banner is sent and the connection closed; the next port.
ZgReply ==
  /\ zgListener = "reply" /\ zgListener' = "accept" /\ zgReplies' = zgReplies + 1 /\ zgAt' = zgAt + 1
  /\ zgOpen' = zgOpen \ {zgMade}
  /\ UNCHANGED <<zgBanners, zgPorts, zgMade, zgRunning, zgStop, zgPeer, zgStats, zgStarts, zgProbes>>

ZgStop ==
  /\ zgRunning /\ zgStop = "no" /\ zgRunning' = FALSE /\ zgStop' = "join"
  /\ UNCHANGED <<zgBanners, zgPorts, zgOpen, zgMade, zgListener, zgAt, zgPeer, zgStats, zgReplies, zgStarts, zgProbes>>

\* Fault: stop() does not wait.
ZgJoinedEarly == TRUE

\* listener_thread_.join() is over.
ZgJoined == zgListener = "ended"

ZgClose ==
  /\ zgStop = "join" /\ ZgJoined /\ zgStop' = "no" /\ zgOpen' = zgOpen \ ToSet(zgPorts) /\ zgPorts' = <<>>
  /\ zgListener' = IF zgListener = "ended" THEN "none" ELSE zgListener
  /\ UNCHANGED <<zgBanners, zgMade, zgRunning, zgAt, zgPeer, zgStats, zgReplies, zgStarts, zgProbes>>

ZgNext == ZgStart \/ ZgAddPort \/ ZgBind \/ ZgRound \/ ZgAccept \/ ZgCount \/ ZgReply \/ ZgStop \/ ZgClose

ZgSpec == ZgInit /\ [][ZgNext]_zgVars

\* No socket outlives the use the code has for it: open are the ports in the
\* list and, while a peer is served, its connection; none between two runs.
ZgNoSocketLeft ==
  zgOpen = ToSet(zgPorts) \cup (IF zgListener \in {"count", "reply"} THEN {zgMade} ELSE {})

\* stop() may come at any step of the listener: the ports that the listener
\* still works on are listed and open.
ZgServesOpenPorts ==
  zgListener \in {"count", "reply"} => zgAt <= Len(zgPorts) /\ zgPorts[zgAt] \in zgOpen

\* The thread serves sockets that are open, and no socket is left when it or the
\* engine ends.
HoneyPortsClosed == ZgServesOpenPorts /\ ZgNoSocketLeft
=============================================================================
