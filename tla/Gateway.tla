----------------------------------- MODULE Gateway -----------------------------------
(***************************************************************************)
(* The notification channel (src/tcp/gateway.js) as one account meets it:  *)
(* sockets on several gateways, the AUTH handshake with its two database   *)
(* queries, the sessions map of each gateway, the presence key in Redis,   *)
(* the relays of session.revoke and player.updated, and the operator's ban *)
(* (src/admin/core.js) that ends in such a revoke.                         *)
(*                                                                         *)
(* A socket's frames are handled one after the other (its promise chain);  *)
(* everything else of a gateway runs between two of its awaits, the        *)
(* socket's own `close' event too.  Accounts meet nowhere in this code, so *)
(* one is enough.                                                          *)
(***************************************************************************)
EXTENDS Integers, FiniteSets

CONSTANTS
  Gateways, Socks,
  Scenarios,     \* what happens in a behaviour: subsets of {"ban", "kick", "save", "app", "faults"}
  MaxVer, MaxKicks, MaxFaults,   \* bounds: profile writes, admin kicks, failures
  None

VARIABLES does, doc, ban, sock, session, presence, queued, inbox, reads, up, kicks, faults

store == <<doc, ban>>
bus == <<inbox, reads>>
vars == <<does, doc, ban, sock, session, presence, queued, inbox, reads, up, kicks, faults>>

\* st: open, shut (destroyed or dropped, its close event still to come), closed.
\* pc: token and ban, the two queries of AUTH; enter, both answered; in, an entry exists; out,
\* refused.
\* raced is history: a revoke was handled while this socket was still in AUTH.
Closed == [gw |-> None, st |-> "closed", pc |-> "out", ver |-> 0, banned |-> FALSE,
           raced |-> FALSE, timer |-> FALSE, buf |-> FALSE]

Init ==
  /\ does \in Scenarios
  /\ doc = [ver |-> 0, banned |-> FALSE, auth |-> FALSE] /\ ban = "none"
  /\ sock = [s \in Socks |-> Closed] /\ session = [g \in Gateways |-> None]
  /\ presence = None /\ queued = FALSE
  /\ inbox = [g \in Gateways |-> [revoke |-> 0, updated |-> 0]] /\ reads = {}
  /\ up = [g \in Gateways |-> TRUE] /\ kicks = 0 /\ faults = 0

InAuth == {"token", "ban", "enter"}
Live(s) == sock[s].st = "open" /\ sock[s].pc = "in"
Shut(f, s) == [f EXCEPT ![s].st = IF @ = "open" THEN "shut" ELSE @]

--------------------------------------------------------------------------------
(* A connection *)

markOnline(g) == presence' = g
markOffline == presence' = None

\* A client connects and sends its token as the first frame.
handleConnection(s, g) ==
  /\ sock[s].st = "closed" /\ up[g] /\ sock[s].pc \in {"in", "out"}
  /\ \A h \in Gateways : session[h] # s
  /\ \A x \in reads : x.s # s
  /\ sock' = [sock EXCEPT ![s] = [Closed EXCEPT !.gw = g, !.st = "open", !.pc = "token"]]
  /\ UNCHANGED <<does, store, session, presence, queued, bus, up, kicks, faults>>

\* getByToken: a token that resolves to nothing closes the socket.
handleAuthToken(s) ==
  /\ sock[s].pc = "token"
  /\ \/ sock' = [sock EXCEPT ![s].pc = "ban", ![s].ver = doc.ver, ![s].banned = doc.banned]
     \/ sock' = [Shut(sock, s) EXCEPT ![s].pc = "out"]
  /\ UNCHANGED <<does, store, session, presence, queued, bus, up, kicks, faults>>

\* Mutant: the previous socket of the account is left alone.
registerBeside(s, f) == [f EXCEPT ![s].pc = "in"]

\* register: the account's other socket on this gateway is destroyed.
register(s, f) ==
  LET prev == session[sock[s].gw]
  IN  [(IF prev \notin {None, s} THEN Shut(f, prev) ELSE f) EXCEPT ![s].pc = "in"]

isBanned(s) == sock[s].banned \/ doc.auth

\* The second query: a banned account is kicked; an error of the query lets it pass.
handleAuthBan(s) ==
  /\ sock[s].pc = "ban"
  /\ \/ /\ isBanned(s) /\ UNCHANGED faults
        /\ sock' = [sock EXCEPT ![s].pc = "out", ![s].timer = TRUE]
     \/ /\ \/ ~isBanned(s) /\ UNCHANGED faults
           \/ /\ ~sock[s].banned /\ "faults" \in does /\ faults < MaxFaults
              /\ faults' = faults + 1
        /\ sock' = [sock EXCEPT ![s].pc = "enter"]
  /\ UNCHANGED <<does, store, session, presence, queued, bus, up, kicks>>

\* Its answer is there: the entry, on a socket that may be closed by now.
handleAuthEnter(s) ==
  /\ sock[s].pc = "enter"
  /\ sock' = register(s, sock)
  /\ session' = [session EXCEPT ![sock[s].gw] = s]
  /\ markOnline(sock[s].gw)
  /\ UNCHANGED <<does, store, queued, bus, up, kicks, faults>>

\* Mutant: only the socket that the sessions map names is destroyed.
destroyTimerOfSession(s) ==
  /\ sock[s].timer
  /\ sock' = [(IF session[sock[s].gw] = s THEN Shut(sock, s) ELSE sock) EXCEPT ![s].timer = FALSE]
  /\ UNCHANGED <<does, store, session, presence, queued, bus, up, kicks, faults>>

\* The pending destroy after a kick frame.
destroyTimer(s) ==
  /\ sock[s].timer
  /\ sock' = [Shut(sock, s) EXCEPT ![s].timer = FALSE]
  /\ UNCHANGED <<does, store, session, presence, queued, bus, up, kicks, faults>>

clientCloses(s) ==
  /\ sock[s].st = "open" /\ sock' = Shut(sock, s)
  /\ UNCHANGED <<does, store, session, presence, queued, bus, up, kicks, faults>>

\* Mutant: the close of any socket of the account clears presence and queue.
onCloseAny(s) ==
  /\ sock[s].st = "shut" /\ sock' = [sock EXCEPT ![s].st = "closed"]
  /\ session' = [g \in Gateways |-> IF session[g] = s THEN None ELSE session[g]]
  /\ IF sock[s].pc = "in" THEN presence' = None /\ queued' = FALSE ELSE UNCHANGED <<presence, queued>>
  /\ UNCHANGED <<does, store, bus, up, kicks, faults>>

\* The close event cleans up when the session is still this socket's: off the queue, out of
\* the room (the `leave' of module Rooms), presence cleared.
onClose(s) ==
  /\ sock[s].st = "shut" /\ sock' = [sock EXCEPT ![s].st = "closed"]
  /\ IF sock[s].pc = "in" /\ session[sock[s].gw] = s
     THEN session' = [session EXCEPT ![sock[s].gw] = None] /\ markOffline /\ queued' = FALSE
     ELSE UNCHANGED <<session, presence, queued>>
  /\ UNCHANGED <<does, store, bus, up, kicks, faults>>

\* An application frame: it waits in the chain for the end of AUTH, also when the socket
\* closes meanwhile.
receive(s) ==
  /\ "app" \in does /\ sock[s].st = "open" /\ ~sock[s].buf
  /\ sock' = [sock EXCEPT ![s].buf = TRUE]
  /\ UNCHANGED <<does, store, session, presence, queued, bus, up, kicks, faults>>

\* The handlers that touch the queue, by what they leave there.
MatchmakingStart == TRUE
MatchmakingCancel == FALSE
MatchmakingDropMatch == FALSE

\* Any of them, or a message without a route.
dispatch == {MatchmakingStart, MatchmakingCancel, MatchmakingDropMatch, queued}

\* Before authentication ignored.
handleApp(s) ==
  /\ sock[s].buf /\ sock[s].pc \in {"in", "out"}
  /\ queued' \in (IF sock[s].pc = "in" THEN dispatch ELSE {queued})
  /\ sock' = [sock EXCEPT ![s].buf = FALSE]
  /\ UNCHANGED <<does, store, session, presence, bus, up, kicks, faults>>

\* The matchmaker claims the queued player.
claim ==
  /\ queued /\ queued' = FALSE
  /\ UNCHANGED <<does, store, sock, session, presence, bus, up, kicks, faults>>

--------------------------------------------------------------------------------
(* Presence *)

\* Mutant: an existing key is refreshed, a missing one is not written.
refreshPresenceExisting(g) ==
  /\ up[g] /\ session[g] # None /\ presence \notin {g, None} /\ presence' = g
  /\ UNCHANGED <<does, store, sock, session, queued, bus, up, kicks, faults>>

\* The heartbeat writes the key of every session again.
refreshPresence(g) ==
  /\ up[g] /\ session[g] # None /\ presence # g
  /\ presence' = g
  /\ UNCHANGED <<does, store, sock, session, queued, bus, up, kicks, faults>>

\* The key's TTL is longer than two refreshes: it ends when no gateway has a session.
presenceExpires ==
  /\ presence # None /\ \A g \in Gateways : up[g] => session[g] = None
  /\ presence' = None
  /\ UNCHANGED <<does, store, sock, session, queued, bus, up, kicks, faults>>

\* Redis loses the write, or the key.
presenceLost ==
  /\ "faults" \in does /\ faults < MaxFaults /\ presence # None
  /\ presence' = None /\ faults' = faults + 1
  /\ UNCHANGED <<does, store, sock, session, queued, bus, up, kicks>>

\* What another client is told of the account.
getNodes == presence # None
PresenceList == IF getNodes THEN "online" ELSE "offline"

--------------------------------------------------------------------------------
(* The operator and the bus *)

Publish(kind) ==
  inbox' = [g \in Gateways |-> [inbox[g] EXCEPT ![kind] = IF up[g] THEN @ + 1 ELSE @]]

\* ban: the game's document, the auth store, the revoke.
banDoc ==
  /\ "ban" \in does /\ ban = "none" /\ ban' = "doc" /\ doc' = [doc EXCEPT !.banned = TRUE]
  /\ UNCHANGED <<does, sock, session, presence, queued, bus, up, kicks, faults>>
banAuth ==
  /\ ban = "doc" /\ ban' = "auth" /\ doc' = [doc EXCEPT !.auth = TRUE]
  /\ UNCHANGED <<does, sock, session, presence, queued, bus, up, kicks, faults>>
banRevoke ==
  /\ ban = "auth" /\ ban' = "done" /\ Publish("revoke")
  /\ UNCHANGED <<does, doc, sock, session, presence, queued, reads, up, kicks, faults>>

adminKick ==
  /\ "kick" \in does /\ kicks < MaxKicks /\ kicks' = kicks + 1 /\ Publish("revoke")
  /\ UNCHANGED <<does, store, sock, session, presence, queued, reads, up, faults>>

\* Mutant: the message only goes to a log.
sessionRevokeLogged(g) ==
  /\ inbox[g].revoke > 0 /\ inbox' = [inbox EXCEPT ![g].revoke = @ - 1]
  /\ UNCHANGED <<does, store, sock, session, presence, queued, reads, up, kicks, faults>>

\* session.revoke: kick the account if it is connected here.
sessionRevoke(g) ==
  /\ inbox[g].revoke > 0 /\ inbox' = [inbox EXCEPT ![g].revoke = @ - 1]
  /\ sock' = [s \in Socks |->
                [sock[s] EXCEPT !.timer = @ \/ s = session[g],
                                !.raced = @ \/ (sock[s].gw = g /\ sock[s].pc \in InAuth)]]
  /\ UNCHANGED <<does, store, session, presence, queued, reads, up, kicks, faults>>

\* The HTTP tier writes the profile and announces it.
saveProfile ==
  /\ "save" \in does /\ doc.ver < MaxVer /\ doc' = [doc EXCEPT !.ver = @ + 1]
  /\ Publish("updated")
  /\ UNCHANGED <<does, ban, sock, session, presence, queued, reads, up, kicks, faults>>

\* player.updated: read the document for the entry found now ...
playerUpdated(g) ==
  /\ inbox[g].updated > 0 /\ inbox' = [inbox EXCEPT ![g].updated = @ - 1]
  /\ reads' = IF session[g] = None THEN reads ELSE reads \cup {[s |-> session[g], ver |-> doc.ver]}
  /\ UNCHANGED <<does, store, sock, session, presence, queued, up, kicks, faults>>

\* ... and assign it when the query answers; answers come in any order.
assignFresh(x) ==
  /\ x \in reads /\ reads' = reads \ {x}
  /\ sock' = [sock EXCEPT ![x.s].ver = x.ver]
  /\ UNCHANGED <<does, store, session, presence, queued, inbox, up, kicks, faults>>

--------------------------------------------------------------------------------
(* A gateway dies with its sockets, timers and subscriptions, and comes back. *)

crash(g) ==
  /\ "faults" \in does /\ faults < MaxFaults /\ up[g]
  /\ up' = [up EXCEPT ![g] = FALSE] /\ faults' = faults + 1
  /\ session' = [session EXCEPT ![g] = None]
  /\ sock' = [s \in Socks |-> IF sock[s].gw = g THEN Closed ELSE sock[s]]
  /\ inbox' = [inbox EXCEPT ![g] = [revoke |-> 0, updated |-> 0]]
  /\ reads' = {x \in reads : sock[x.s].gw # g}
  /\ UNCHANGED <<does, store, presence, queued, kicks>>
restart(g) ==
  /\ ~up[g] /\ up' = [up EXCEPT ![g] = TRUE]
  /\ UNCHANGED <<does, store, sock, session, presence, queued, bus, kicks, faults>>

\* What the event loops and Redis do by themselves.
Work ==
  \/ \E s \in Socks : \/ handleAuthToken(s) \/ handleAuthBan(s) \/ handleAuthEnter(s)
                      \/ destroyTimer(s) \/ onClose(s) \/ handleApp(s)
  \/ \E g \in Gateways : refreshPresence(g) \/ sessionRevoke(g) \/ playerUpdated(g)
  \/ \E x \in reads : assignFresh(x)
  \/ presenceExpires

Next ==
  \/ \E s \in Socks, g \in Gateways : handleConnection(s, g)
  \/ \E s \in Socks : clientCloses(s) \/ receive(s)
  \/ \E g \in Gateways : crash(g) \/ restart(g)
  \/ Work \/ claim \/ presenceLost \/ banDoc \/ banAuth \/ banRevoke \/ adminKick \/ saveProfile

Fairness ==
  /\ \A s \in Socks : /\ WF_vars(handleAuthToken(s) \/ handleAuthBan(s) \/ handleAuthEnter(s))
                      /\ WF_vars(destroyTimer(s)) /\ WF_vars(onClose(s))
  /\ \A g \in Gateways : WF_vars(refreshPresence(g)) /\ WF_vars(sessionRevoke(g))
  /\ WF_vars(presenceExpires)

Spec == Init /\ [][Next]_vars /\ Fairness

--------------------------------------------------------------------------------
(* Properties *)

\* On each gateway the account has at most one open authenticated socket, the one the
\* sessions map names, and an entry names a socket of that gateway that passed AUTH: a push
\* reaches every open client and nobody else.
OneChannel ==
  /\ \A s \in Socks : Live(s) => session[sock[s].gw] = s
  /\ \A g \in Gateways : session[g] # None =>
       up[g] /\ sock[session[g]].gw = g /\ sock[session[g]].pc = "in"

\* The close of a socket never takes the account off the queue or out of presence while
\* a newer socket of it is connected to the same gateway (a reconnect before the close).
ReconnectSpared ==
  [][\A s \in Socks :
       (onClose(s) /\ (queued # queued' \/ presence # presence')) =>
         ~\E t \in Socks \ {s} : Live(t) /\ sock[t].gw = sock[s].gw]_vars

\* A client that a revoke found connected loses its channel.
RevokedCloses == \A s \in Socks : sock[s].timer ~> sock[s].st # "open"

\* Once a ban's flags are written and its revoke is handled, the account has no channel,
\* but for sockets that were in AUTH when the revoke was handled.
BanHolds ==
  (ban = "done") ~> \A s \in Socks : Live(s) => sock[s].raced

\* A connected account is shown online, although the close of an old socket on another
\* gateway, a lost write or a crash took its key away: the next heartbeat writes it again.
OnlineShown == \A s \in Socks : Live(s) ~> (PresenceList = "online" \/ ~Live(s))

\* Presence is cleared on disconnect: an account with no open socket goes offline.
PresenceCleared ==
  (presence # None) ~> (presence = None \/ \E s \in Socks : sock[s].st = "open")

--------------------------------------------------------------------------------
(* The inductive invariant of the proofs (module GatewayProofs). *)

ASSUME NoneApart == None \notin Socks /\ None \notin Gateways

SockRec ==
  [gw : Gateways \cup {None}, st : {"open", "shut", "closed"}, pc : InAuth \cup {"in", "out"},
   ver : Nat, banned : BOOLEAN, raced : BOOLEAN, timer : BOOLEAN, buf : BOOLEAN]

\* A socket that is not closed, or still in AUTH, belongs to a gateway that is up.
Hosted(s) == sock[s].st # "closed" \/ sock[s].pc # "out" => sock[s].gw \in Gateways /\ up[sock[s].gw]

ChannelInv ==
  /\ sock \in [Socks -> SockRec] /\ session \in [Gateways -> Socks \cup {None}]
  /\ up \in [Gateways -> BOOLEAN] /\ reads \subseteq [s : Socks, ver : Nat]
  /\ doc \in [ver : Nat, banned : BOOLEAN, auth : BOOLEAN]
  /\ \A s \in Socks : Hosted(s)
  /\ OneChannel
================================================================================
