------------------------------- MODULE PartySync -------------------------------
(***************************************************************************)
(* Playback in a watch party, as the pages of its members keep it together *)
(* (web/app.js).  The page that is HOST publishes what its player does,    *)
(* and a heartbeat while it plays; every other page projects the anchor it *)
(* receives to its own time and corrects its player.  The last action is   *)
(* also kept in the channel's attributes, which a page reads when it       *)
(* connects and when its connection comes back.                            *)
(*                                                                         *)
(* A tick is longer than the drift that is tolerated.  The clocks of the   *)
(* pages agree.                                                            *)
(***************************************************************************)
EXTENDS Naturals, Sequences, SequencesExt

CONSTANTS
  Pages,      \* the pages of the members, one for each
  Starter,    \* the page that starts the party
  MaxTime,    \* bound: the clock
  MaxActs,    \* bound: what people do to their players and to the party
  MaxFaults,  \* bound: messages, attributes, answers and connections lost
  MaxInbox,   \* bound: messages on their way to a page
  None

ASSUME PartySyncAssumption ==
  /\ Starter \in Pages
  /\ {MaxTime, MaxActs, MaxFaults, MaxInbox} \subseteq Nat

VARIABLES
  now,
  host,    \* the party's hostId, on the server
  page,    \* wpState of each page
  video,   \* each player: whether it plays, and where it was at what time
  inbox,   \* messages on their way to each page, from the channel
  attrs,   \* the channel's attributes
  acts,
  faults,
  epoch    \* history: how often a page became HOST, or a HOST's player was changed

vars == <<now, host, page, video, inbox, attrs, acts, faults, epoch>>

\* Far enough for any seek that is followed by playing until the end.
Media == 0..(2 * MaxTime)
Video == [playing : BOOLEAN, media : Media, at : 0..MaxTime]
Anchor == [t : {"play", "pause", "seek", "hb"}, media : Media, at : 0..MaxTime]

\* rtm: what became of the connection; scrub: the timer after a seek; reading:
\* attributes that were read and not yet looked at.
Page == [role : {"none", "HOST", "PARTICIPANT"}, party : BOOLEAN,
         rtm : {"off", "up", "down"}, hb : BOOLEAN, scrub : BOOLEAN,
         reading : Anchor \cup {None}]

TypeOK ==
  /\ now \in 0..MaxTime /\ host \in Pages
  /\ page \in [Pages -> Page]
  /\ video \in [Pages -> Video]
  /\ attrs \in Anchor \cup {None}
  /\ \A p \in Pages : Len(inbox[p]) <= MaxInbox
  /\ acts \in 0..MaxActs /\ faults \in 0..MaxFaults /\ epoch \in Nat

Outside == [role |-> "none", party |-> FALSE, rtm |-> "off",
            hb |-> FALSE, scrub |-> FALSE, reading |-> None]

Init ==
  /\ now = 0
  /\ host = Starter
  /\ page = [p \in Pages |-> Outside]
  /\ video = [p \in Pages |-> [playing |-> FALSE, media |-> 0, at |-> 0]]
  /\ inbox = [p \in Pages |-> <<>>]
  /\ attrs = None
  /\ acts = 0 /\ faults = 0 /\ epoch = 0

Fault == faults < MaxFaults /\ faults' = faults + 1
Act == acts < MaxActs /\ acts' = acts + 1

\* video.currentTime
Position(v) == IF v.playing THEN v.media + (now - v.at) ELSE v.media

(***************************************************************************)
(* Publishing.                                                             *)
(***************************************************************************)
Receivers(p) == {q \in Pages \ {p} : page[q].rtm = "up"}

\* In order to everybody who is connected.  rest: what else is on its way.
Send(p, t, v, rest) ==
  /\ \A q \in Receivers(p) : Len(rest[q]) < MaxInbox
  /\ inbox' = [q \in Pages |->
       IF q \in Receivers(p)
       THEN Append(rest[q], [t |-> t, media |-> Position(v), at |-> now,
                             from |-> p, epoch |-> epoch'])
       ELSE rest[q]]

\* wpPublishControl: the rate limit may drop the message, a failure is ignored.
wpPublishControl(p, t, v, rest) ==
  \/ Send(p, t, v, rest) /\ UNCHANGED faults
  \/ Fault /\ inbox' = rest

\* The message and the attributes are sent side by side.
Announce(p, t, v, rest) ==
  LET anchor == [t |-> IF v.playing THEN "play" ELSE "pause",
                 media |-> Position(v), at |-> now]
  IN \/ wpPublishControl(p, t, v, rest) /\ attrs' = anchor
     \/ Send(p, t, v, rest) /\ Fault /\ UNCHANGED attrs

Hosting(p) == page[p].role = "HOST" /\ page[p].party

(***************************************************************************)
(* The player's events: wpOnPlay, wpOnPause and wpOnSeeked of a player that *)
(* changes to v, on a page that is `after' otherwise.                      *)
(***************************************************************************)
Changed(p, v, after, rest) ==
  LET toggled == v.playing # video[p].playing
      jumped == Position(v) # Position(video[p])
      heard == Hosting(p) /\ (toggled \/ jumped)
  IN
  /\ video' = [video EXCEPT ![p] = v]
  /\ epoch' = IF heard THEN epoch + 1 ELSE epoch
  /\ page' = [page EXCEPT ![p] =
       IF heard THEN [after EXCEPT !.hb = IF toggled THEN v.playing ELSE @,
                                   !.scrub = @ \/ jumped]
       ELSE after]
  /\ IF heard /\ toggled
     THEN Announce(p, IF v.playing THEN "play" ELSE "pause", v, rest)
     ELSE inbox' = rest /\ UNCHANGED <<attrs, faults>>

Toggle(p) ==
  /\ Act
  /\ Changed(p, [playing |-> ~video[p].playing, media |-> Position(video[p]), at |-> now],
             page[p], inbox)
  /\ UNCHANGED <<now, host>>

SeekTo(p, media) ==
  /\ Act
  /\ media # Position(video[p])
  /\ Changed(p, [video[p] EXCEPT !.media = media, !.at = now], page[p], inbox)
  /\ UNCHANGED <<now, host>>

\* The timer of the last seek does not look at the role again; without a
\* party there is no channel to publish to.
FireScrub(p) ==
  /\ page[p].scrub
  /\ page' = [page EXCEPT ![p].scrub = FALSE]
  /\ UNCHANGED epoch
  /\ IF page[p].party THEN Announce(p, "seek", video[p], inbox)
     ELSE UNCHANGED <<inbox, attrs, faults>>
  /\ UNCHANGED <<now, host, video, acts>>

\* Faulty variant: the interval does not look at the role.
HeartbeatOfAnyRole(p) ==
  /\ page[p].hb /\ page[p].party
  /\ UNCHANGED epoch
  /\ wpPublishControl(p, "hb", video[p], inbox)
  /\ UNCHANGED <<now, host, page, video, attrs, acts>>

\* Every three seconds, until a pause, the end or a departure stops it.
Heartbeat(p) ==
  /\ page[p].hb /\ page[p].role = "HOST"
  /\ UNCHANGED epoch
  /\ wpPublishControl(p, "hb", video[p], inbox)
  /\ UNCHANGED <<now, host, page, video, attrs, acts>>

(***************************************************************************)
(* Applying an anchor.                                                     *)
(***************************************************************************)
\* Faulty variant: a heartbeat, which carries no play, pauses.
IsPlayingByName(m) == m.t \in {"play", "seek"}

\* A seek and a heartbeat count as playing.
IsPlaying(m) == m.t \in {"play", "seek", "hb"}

\* Faulty variant: the time the message took is not made up for.
TargetAsSent(m) == m.media

Target(m) == IF IsPlaying(m) THEN m.media + (now - m.at) ELSE m.media

wpApplyAnchor(p, m, after, rest) ==
  Changed(p, [playing |-> IsPlaying(m), media |-> Target(m), at |-> now], after, rest)

Receive(p) ==
  /\ inbox[p] # <<>>
  /\ wpApplyAnchor(p, Head(inbox[p]), page[p], [inbox EXCEPT ![p] = Tail(@)])
  /\ UNCHANGED <<now, host, acts>>

\* The attributes as they were when they were read.
ApplyChannelAttrs(p) ==
  /\ page[p].reading # None
  /\ wpApplyAnchor(p, page[p].reading, [page[p] EXCEPT !.reading = None], inbox)
  /\ UNCHANGED <<now, host, acts>>

(***************************************************************************)
(* The party.                                                              *)
(***************************************************************************)
\* wpConnectFromResponse, after start or join; a page may join again.
Connect(p) ==
  /\ Act
  /\ page[p].rtm # "down"
  /\ p = Starter \/ page[host].party
  /\ page' = [page EXCEPT ![p].role = IF p = host THEN "HOST" ELSE "PARTICIPANT",
                          ![p].party = TRUE, ![p].rtm = "up", ![p].reading = attrs]
  /\ epoch' = IF p = host THEN epoch + 1 ELSE epoch
  /\ UNCHANGED <<now, host, video, inbox, attrs, faults>>

\* Messages sent meanwhile are lost; the SDK reconnects by itself.
LoseConnection(p) ==
  /\ page[p].rtm = "up" /\ Fault
  /\ page' = [page EXCEPT ![p].rtm = "down"]
  /\ inbox' = [inbox EXCEPT ![p] = <<>>]
  /\ UNCHANGED <<now, host, video, attrs, acts, epoch>>

Reconnected(p) ==
  /\ page[p].rtm = "down"
  /\ page' = [page EXCEPT ![p].rtm = "up", ![p].reading = attrs]
  /\ UNCHANGED <<now, host, video, inbox, attrs, acts, faults, epoch>>

\* The new host's page is told nothing; the old one knows by the answer.
TransferHost(p, q) ==
  /\ Act
  /\ p = host /\ page[p].party /\ q # p /\ page[q].party
  /\ host' = q
  /\ \/ page' = [page EXCEPT ![p].role = "PARTICIPANT"] /\ UNCHANGED faults
     \/ Fault /\ UNCHANGED page
  /\ UNCHANGED <<now, video, inbox, attrs, epoch>>

\* wpEnd and wpLeave: the connection stays, disconnectRtm ends another one.
\* After a while the server makes somebody else the host.
LeaveOrEnd(p) ==
  /\ Act
  /\ page[p].party
  /\ page' = [page EXCEPT ![p].role = "none", ![p].party = FALSE, ![p].hb = FALSE]
  /\ UNCHANGED <<now, host, video, inbox, attrs, faults, epoch>>

Failover(q) ==
  /\ acts > 0 /\ page[host] # Outside /\ ~page[host].party /\ page[q].party
  /\ host' = q
  /\ UNCHANGED <<now, page, video, inbox, attrs, acts, faults, epoch>>

Tick ==
  /\ now < MaxTime
  /\ now' = now + 1
  /\ UNCHANGED <<host, page, video, inbox, attrs, acts, faults, epoch>>

Next ==
  \/ \E p \in Pages :
       \/ Toggle(p) \/ FireScrub(p) \/ Heartbeat(p) \/ Receive(p) \/ ApplyChannelAttrs(p)
       \/ Connect(p) \/ LoseConnection(p) \/ Reconnected(p) \/ LeaveOrEnd(p) \/ Failover(p)
       \/ \E media \in 0..MaxTime : SeekTo(p, media)
       \/ \E q \in Pages : TransferHost(p, q)
  \/ Tick

\* Timers fire, messages arrive and connections come back; people do as they please.
Fairness ==
  \A p \in Pages :
    /\ WF_vars(Receive(p)) /\ WF_vars(ApplyChannelAttrs(p)) /\ WF_vars(Reconnected(p))
    /\ SF_vars(Heartbeat(p) /\ faults' = faults)

Spec == Init /\ [][Next]_vars /\ Fairness

(***************************************************************************)
(* Properties.                                                             *)
(***************************************************************************)
\* A page that receives the newest word of the only HOST does what the HOST's
\* player does and is where that is, however long the message took; but for what
\* sets the others playing though the HOST is paused: a seek, and the heartbeat of
\* a page that handed over, paused, and is HOST again.
NewestIsFollowed ==
  [][\A p \in Pages :
       LET m == Head(inbox[p]) IN
       /\ inbox[p] # <<>> /\ inbox'[p] = Tail(inbox[p]) /\ page'[p].rtm = "up"
       /\ ~Hosting(p) /\ Hosting(m.from) /\ m.epoch = epoch
       /\ m.t \in {"seek", "hb"} => video[m.from].playing
       => /\ video'[p].playing = video[m.from].playing
          /\ Position(video'[p]) = Position(video[m.from])]_vars

\* Nobody's player is moved by a page that is not, or no longer, the HOST,
\* unless the timer of a seek it did as HOST was still running.
ControlFromHost ==
  [][\A p, q \in Pages :
       /\ Len(inbox'[q]) > Len(inbox[q]) /\ Last(inbox'[q]).from = p
       => page[p].role = "HOST" \/ page[p].scrub]_vars

\* While a HOST keeps playing, every connected page comes back to where it is,
\* whatever its own user does and whichever messages were lost.
PlayingHostIsFollowed ==
  \A p \in Pages, q \in Pages :
    <>[](/\ p # q /\ page[p].hb /\ Hosting(p) /\ page[q].rtm = "up"
         /\ \A r \in Pages \ {p} : page[r].role # "HOST")
      => []<>(video[q].playing /\ Position(video[q]) = Position(video[p]))
===============================================================================
