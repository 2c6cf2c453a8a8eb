-------------------------------- MODULE GatewayProofs --------------------------------
(***************************************************************************)
(* Proofs about module Gateway, for any number of sockets and gateways and *)
(* every scenario: kicks, bans, failing queries, crashes and restarts.     *)
(***************************************************************************)
EXTENDS Gateway, TLAPS

\* What an action may do to the sockets and leave the channels alone: no entry appears or
\* goes, nobody opens or enters, and no socket changes its gateway.
Calm ==
  /\ UNCHANGED <<session, up>>
  /\ sock' \in [Socks -> SockRec]
  /\ \A s \in Socks : /\ sock'[s].gw = sock[s].gw
                      /\ sock'[s].st = sock[s].st \/ (sock[s].st = "open" /\ sock'[s].st = "shut")
                      /\ \/ sock'[s].pc = sock[s].pc
                         \/ sock[s].pc \in InAuth /\ sock'[s].pc \in {"ban", "enter", "out"}

\* A calm step keeps the channels.
LEMMA CalmKeeps ==
  ASSUME ChannelInv, Calm
  PROVE  /\ \A s \in Socks : Hosted(s)'
         /\ OneChannel'
<1>1. \A s \in Socks : Hosted(s)'
  BY DEF ChannelInv, Calm, Hosted, InAuth
<1>2. \A s \in Socks : Live(s)' => Live(s)
  BY DEF Calm, Live, InAuth
<1>3. \A s \in Socks : Live(s)' => session'[sock'[s].gw] = s
  BY <1>2 DEF ChannelInv, OneChannel, Calm
<1>4. \A g \in Gateways : session'[g] # None =>
        up'[g] /\ sock'[session'[g]].gw = g /\ sock'[session'[g]].pc = "in"
  BY DEF ChannelInv, OneChannel, Calm, InAuth
<1> QED
  BY <1>1, <1>3, <1>4 DEF OneChannel

\* Destroying a socket is calm, and keeps the other fields.
LEMMA ShutShape ==
  ASSUME NEW f \in [Socks -> SockRec], NEW s \in Socks
  PROVE  /\ Shut(f, s) \in [Socks -> SockRec]
         /\ \A t \in Socks \ {s} : Shut(f, s)[t] = f[t]
         /\ Shut(f, s)[s].st # "open" /\ (f[s].st # "open" => Shut(f, s)[s].st = f[s].st)
         /\ f[s].st = "open" => Shut(f, s)[s].st = "shut"
         /\ Shut(f, s)[s].gw = f[s].gw /\ Shut(f, s)[s].pc = f[s].pc
BY DEF Shut, SockRec

\* One socket's record changes calmly.
LEMMA OneSock ==
  ASSUME sock \in [Socks -> SockRec], NEW s \in Socks, NEW x \in SockRec, UNCHANGED <<session, up>>,
         sock' = [sock EXCEPT ![s] = x], x.gw = sock[s].gw,
         x.st = sock[s].st \/ (sock[s].st = "open" /\ x.st = "shut"),
         x.pc = sock[s].pc \/ (sock[s].pc \in InAuth /\ x.pc \in {"ban", "enter", "out"})
  PROVE  Calm
<1>1. sock' \in [Socks -> SockRec] /\ sock'[s] = x /\ \A t \in Socks \ {s} : sock'[t] = sock[t]
  OBVIOUS
<1> QED
  BY <1>1 DEF Calm

\* A new connection: the slot had no entry, and is not authenticated yet.
LEMMA Connects ==
  ASSUME ChannelInv, NEW s \in Socks, NEW g \in Gateways, handleConnection(s, g)
  PROVE  ChannelInv'
<1> DEFINE x == [Closed EXCEPT !.gw = g, !.st = "open", !.pc = "token"]
<1>1. x \in SockRec /\ x.gw = g /\ x.pc = "token"
  BY DEF Closed, SockRec, InAuth
<1>2. sock' = [sock EXCEPT ![s] = x] /\ UNCHANGED <<session, up, reads, doc>>
      /\ up[g] /\ \A h \in Gateways : session[h] # s
  BY DEF handleConnection, bus, store
<1> HIDE DEF x
<1>3. sock' \in [Socks -> SockRec] /\ sock'[s] = x /\ \A t \in Socks \ {s} : sock'[t] = sock[t]
  BY <1>1, <1>2 DEF ChannelInv
<1>4. \A t \in Socks : Hosted(t)'
  BY <1>1, <1>2, <1>3 DEF ChannelInv, Hosted
<1>5. OneChannel'
  BY <1>1, <1>2, <1>3 DEF ChannelInv, OneChannel, Live
<1> QED
  BY <1>2, <1>3, <1>4, <1>5 DEF ChannelInv

\* The end of AUTH: the entry names the socket, and the one before it is destroyed.
LEMMA Enters ==
  ASSUME ChannelInv, NEW s \in Socks, handleAuthEnter(s)
  PROVE  ChannelInv'
<1> DEFINE g == sock[s].gw
           f == IF session[g] \notin {None, s} THEN Shut(sock, session[g]) ELSE sock
<1>1. sock[s].pc = "enter" /\ g \in Gateways /\ up[g] /\ sock' = [f EXCEPT ![s].pc = "in"]
      /\ session' = [session EXCEPT ![g] = s] /\ UNCHANGED <<up, reads, doc>>
  BY DEF handleAuthEnter, register, ChannelInv, Hosted, bus, store
<1>2. session \in [Gateways -> Socks \cup {None}] /\ sock \in [Socks -> SockRec]
  BY DEF ChannelInv
<1>3. /\ f \in [Socks -> SockRec] /\ \A t \in Socks : f[t].gw = sock[t].gw /\ f[t].pc = sock[t].pc
      /\ \A t \in Socks : f[t].st = "open" => sock[t].st = "open" /\ (t = s \/ t # session[g])
      /\ \A t \in Socks : sock[t].st = "closed" => f[t].st = "closed"
  <2>1. CASE session[g] \notin {None, s}
    <3>1. session[g] \in Socks
      BY <1>1, <1>2, <2>1
    <3>2. f = Shut(sock, session[g])
      BY <2>1
    <3> HIDE DEF f
    <3>3. /\ Shut(sock, session[g]) \in [Socks -> SockRec]
          /\ \A t \in Socks \ {session[g]} : Shut(sock, session[g])[t] = sock[t]
          /\ Shut(sock, session[g])[session[g]].st # "open"
          /\ sock[session[g]].st # "open" => Shut(sock, session[g])[session[g]].st = sock[session[g]].st
          /\ Shut(sock, session[g])[session[g]].gw = sock[session[g]].gw
          /\ Shut(sock, session[g])[session[g]].pc = sock[session[g]].pc
      BY <1>2, <3>1, ShutShape
    <3> QED
      BY <3>1, <3>2, <3>3
  <2>2. CASE session[g] \in {None, s}
    BY <1>2, <2>2, NoneApart
  <2> QED
    BY <2>1, <2>2
<1> HIDE DEF f
<1>6. /\ sock' \in [Socks -> SockRec] /\ sock'[s].pc = "in" /\ sock'[s].gw = g
      /\ \A t \in Socks \ {s} : sock'[t] = f[t]
  BY <1>1, <1>3 DEF SockRec
<1>7. \A t \in Socks : Hosted(t)'
  <2>1. ASSUME NEW t \in Socks \ {s} PROVE Hosted(t)'
    BY <1>1, <1>3, <1>6 DEF ChannelInv, Hosted
  <2>2. Hosted(s)'
    BY <1>1, <1>6 DEF Hosted
  <2> QED
    BY <2>1, <2>2
<1>8. \A t \in Socks : Live(t)' => session'[sock'[t].gw] = t
  <2>1. ASSUME NEW t \in Socks \ {s}, Live(t)' PROVE session'[sock'[t].gw] = t
    <3>1. Live(t) /\ t # session[g] /\ sock'[t].gw = sock[t].gw
      BY <1>3, <1>6, <2>1 DEF Live
    <3>2. session[sock[t].gw] = t /\ sock[t].gw # g
      BY <3>1 DEF ChannelInv, OneChannel
    <3> QED
      BY <1>1, <3>1, <3>2, <1>2
  <2>2. session'[sock'[s].gw] = s
    BY <1>1, <1>2, <1>6
  <2> QED
    BY <2>1, <2>2
<1>9. \A h \in Gateways : session'[h] # None =>
        up'[h] /\ sock'[session'[h]].gw = h /\ sock'[session'[h]].pc = "in"
  <2>1. ASSUME NEW h \in Gateways \ {g}, session'[h] # None
        PROVE  up'[h] /\ sock'[session'[h]].gw = h /\ sock'[session'[h]].pc = "in"
    <3>1. session'[h] = session[h] /\ session[h] \in Socks
      BY <1>1, <1>2, <2>1
    <3>2. up[h] /\ sock[session[h]].gw = h /\ sock[session[h]].pc = "in"
      BY <2>1, <3>1 DEF ChannelInv, OneChannel
    <3> QED
      BY <1>1, <1>3, <1>6, <3>1, <3>2
  <2>2. session'[g] = s /\ up'[g]
    BY <1>1, <1>2
  <2> QED
    BY <1>6, <2>1, <2>2
<1>10. session' \in [Gateways -> Socks \cup {None}]
  BY <1>1, <1>2
<1> QED
  BY <1>1, <1>6, <1>7, <1>8, <1>9, <1>10 DEF ChannelInv, OneChannel

\* The close event removes the entry of its own socket only.
LEMMA Closes ==
  ASSUME ChannelInv, NEW s \in Socks, onClose(s)
  PROVE  ChannelInv'
<1>1. sock[s].st = "shut" /\ sock' = [sock EXCEPT ![s].st = "closed"] /\ UNCHANGED <<up, reads, doc>>
  BY DEF onClose, bus, store
<1>2. /\ sock' \in [Socks -> SockRec] /\ sock'[s].st = "closed"
      /\ sock'[s].gw = sock[s].gw /\ sock'[s].pc = sock[s].pc
      /\ \A t \in Socks \ {s} : sock'[t] = sock[t]
  BY <1>1 DEF ChannelInv, SockRec
<1>3. sock[s].gw \in Gateways
  BY <1>1 DEF ChannelInv, Hosted
<1>4. \A t \in Socks : Hosted(t)'
  BY <1>1, <1>2 DEF ChannelInv, Hosted
<1>5. session' = session \/ (session[sock[s].gw] = s /\ session' = [session EXCEPT ![sock[s].gw] = None])
  BY DEF onClose
<1>6. session' \in [Gateways -> Socks \cup {None}]
  BY <1>5 DEF ChannelInv
<1>7. \A g \in Gateways : session'[g] # None => session'[g] = session[g]
  BY <1>5 DEF ChannelInv
<1>8. \A t \in Socks : Live(t)' => session'[sock'[t].gw] = t
  <2> SUFFICES ASSUME NEW t \in Socks, Live(t)' PROVE session'[sock'[t].gw] = t
    OBVIOUS
  <2>1. t # s /\ sock'[t] = sock[t] /\ Live(t)
    BY <1>2 DEF Live
  <2>2. session[sock[t].gw] = t /\ sock[t].gw \in Gateways
    BY <2>1 DEF ChannelInv, OneChannel, Hosted, Live
  <2> QED
    BY <1>5, <2>1, <2>2 DEF ChannelInv
<1>9. \A g \in Gateways : session'[g] # None =>
        up'[g] /\ sock'[session'[g]].gw = g /\ sock'[session'[g]].pc = "in"
  <2> SUFFICES ASSUME NEW g \in Gateways, session'[g] # None
               PROVE  up'[g] /\ sock'[session'[g]].gw = g /\ sock'[session'[g]].pc = "in"
    OBVIOUS
  <2>1. session'[g] = session[g] /\ session[g] \in Socks
    BY <1>7 DEF ChannelInv
  <2>2. up[g] /\ sock[session[g]].gw = g /\ sock[session[g]].pc = "in"
    BY <2>1 DEF ChannelInv, OneChannel
  <2> QED
    BY <1>1, <1>2, <2>1, <2>2
<1> QED
  BY <1>1, <1>2, <1>4, <1>6, <1>8, <1>9 DEF ChannelInv, OneChannel

\* A gateway that dies takes its sockets and its entry along.
LEMMA Crashes ==
  ASSUME ChannelInv, NEW g \in Gateways, crash(g)
  PROVE  ChannelInv'
<1>1. /\ up' = [up EXCEPT ![g] = FALSE] /\ session' = [session EXCEPT ![g] = None]
      /\ sock' = [s \in Socks |-> IF sock[s].gw = g THEN Closed ELSE sock[s]]
      /\ reads' \subseteq reads /\ doc' = doc
  BY DEF crash, store
<1>2. Closed \in SockRec /\ Closed.st = "closed" /\ Closed.pc = "out"
  BY DEF Closed, SockRec, InAuth
<1>3. sock' \in [Socks -> SockRec] /\ session' \in [Gateways -> Socks \cup {None}]
      /\ up' \in [Gateways -> BOOLEAN]
  BY <1>1, <1>2 DEF ChannelInv
<1>4. \A s \in Socks : Hosted(s)'
  BY <1>1, <1>2 DEF ChannelInv, Hosted
<1>5. \A s \in Socks : Live(s)' => session'[sock'[s].gw] = s
  <2> SUFFICES ASSUME NEW s \in Socks, Live(s)' PROVE session'[sock'[s].gw] = s
    OBVIOUS
  <2>1. sock'[s] = sock[s] /\ sock[s].gw # g
    BY <1>1, <1>2 DEF Live
  <2>2. Live(s) /\ sock[s].gw \in Gateways
    BY <2>1 DEF Live, ChannelInv, Hosted
  <2>3. session[sock[s].gw] = s
    BY <2>2 DEF ChannelInv, OneChannel
  <2> QED
    BY <1>1, <2>1, <2>2, <2>3 DEF ChannelInv
<1>6. \A h \in Gateways : session'[h] # None =>
        up'[h] /\ sock'[session'[h]].gw = h /\ sock'[session'[h]].pc = "in"
  <2> SUFFICES ASSUME NEW h \in Gateways, session'[h] # None
               PROVE  up'[h] /\ sock'[session'[h]].gw = h /\ sock'[session'[h]].pc = "in"
    OBVIOUS
  <2>1. h # g /\ session'[h] = session[h] /\ session[h] \in Socks
    BY <1>1 DEF ChannelInv
  <2>2. up[h] /\ sock[session[h]].gw = h /\ sock[session[h]].pc = "in"
    BY <2>1 DEF ChannelInv, OneChannel
  <2> QED
    BY <1>1, <2>1, <2>2 DEF ChannelInv
<1>7. reads' \subseteq [s : Socks, ver : Nat] /\ doc' \in [ver : Nat, banned : BOOLEAN, auth : BOOLEAN]
  BY <1>1 DEF ChannelInv
<1> QED
  BY <1>3, <1>4, <1>5, <1>6, <1>7 DEF ChannelInv, OneChannel

\* The steps of AUTH before the entry, the timers, the client and the application frames.
LEMMA SocketSteps ==
  ASSUME ChannelInv, NEW s \in Socks,
         \/ handleAuthToken(s) \/ handleAuthBan(s) \/ destroyTimer(s) \/ clientCloses(s)
         \/ receive(s) \/ handleApp(s)
  PROVE  Calm /\ UNCHANGED <<reads, doc>>
<1>0. sock \in [Socks -> SockRec] /\ doc.ver \in Nat /\ doc.banned \in BOOLEAN
  BY DEF ChannelInv
<1>1. CASE handleAuthToken(s)
  <2>1. UNCHANGED <<session, up, reads, doc>> /\ sock[s].pc = "token"
    BY <1>1 DEF handleAuthToken, bus, store
  <2>2. CASE sock' = [sock EXCEPT ![s].pc = "ban", ![s].ver = doc.ver, ![s].banned = doc.banned]
    <3> DEFINE x == [sock[s] EXCEPT !.pc = "ban", !.ver = doc.ver, !.banned = doc.banned]
    <3>1. x \in SockRec /\ x.gw = sock[s].gw /\ x.st = sock[s].st /\ x.pc = "ban"
      BY <1>0 DEF SockRec, InAuth
    <3>2. sock' = [sock EXCEPT ![s] = x]
      BY <1>0, <2>2
    <3> HIDE DEF x
    <3> QED
      BY <1>0, <2>1, <3>1, <3>2, OneSock DEF InAuth
  <2>3. CASE sock' = [Shut(sock, s) EXCEPT ![s].pc = "out"]
    <3> DEFINE x == [sock[s] EXCEPT !.st = IF @ = "open" THEN "shut" ELSE @, !.pc = "out"]
    <3>1. x \in SockRec /\ x.gw = sock[s].gw /\ x.pc = "out"
          /\ (x.st = sock[s].st \/ (sock[s].st = "open" /\ x.st = "shut"))
      BY <1>0 DEF SockRec
    <3>2. sock' = [sock EXCEPT ![s] = x]
      BY <1>0, <2>3 DEF Shut
    <3> HIDE DEF x
    <3> QED
      BY <1>0, <2>1, <3>1, <3>2, OneSock DEF InAuth
  <2> QED
    BY <1>1, <2>2, <2>3 DEF handleAuthToken
<1>2. CASE handleAuthBan(s)
  BY <1>0, <1>2 DEF handleAuthBan, Calm, SockRec, InAuth, bus, store
<1>3. CASE destroyTimer(s)
  <2>1. sock' = [Shut(sock, s) EXCEPT ![s].timer = FALSE] /\ UNCHANGED <<session, up, reads, doc>>
    BY <1>3 DEF destroyTimer, bus, store
  <2> DEFINE x == [sock[s] EXCEPT !.st = IF @ = "open" THEN "shut" ELSE @, !.timer = FALSE]
  <2>2. x \in SockRec /\ x.gw = sock[s].gw /\ x.pc = sock[s].pc
        /\ (x.st = sock[s].st \/ (sock[s].st = "open" /\ x.st = "shut"))
    BY <1>0 DEF SockRec
  <2>3. sock' = [sock EXCEPT ![s] = x]
    BY <1>0, <2>1 DEF Shut
  <2> HIDE DEF x
  <2> QED
    BY <1>0, <2>1, <2>2, <2>3, OneSock
<1>4. CASE clientCloses(s)
  <2>1. sock' = Shut(sock, s) /\ UNCHANGED <<session, up, reads, doc>>
    BY <1>4 DEF clientCloses, bus, store
  <2> QED
    BY <1>0, <2>1, ShutShape DEF Calm
<1>5. CASE receive(s)
  BY <1>0, <1>5 DEF receive, Calm, SockRec, bus, store
<1>6. CASE handleApp(s)
  BY <1>0, <1>6 DEF handleApp, Calm, SockRec, bus, store
<1> QED
  BY <1>1, <1>2, <1>3, <1>4, <1>5, <1>6

\* The invariant is inductive.
LEMMA ChannelStep == ChannelInv /\ [Next]_vars => ChannelInv'
<1> SUFFICES ASSUME ChannelInv, [Next]_vars PROVE ChannelInv'
  OBVIOUS
<1>0. sock \in [Socks -> SockRec] /\ reads \subseteq [s : Socks, ver : Nat]
      /\ doc \in [ver : Nat, banned : BOOLEAN, auth : BOOLEAN]
  BY DEF ChannelInv
<1>1. ASSUME Calm, reads' \subseteq [s : Socks, ver : Nat],
             doc' \in [ver : Nat, banned : BOOLEAN, auth : BOOLEAN]
      PROVE  ChannelInv'
  BY <1>1, CalmKeeps DEF ChannelInv, Calm
<1>2. ASSUME UNCHANGED <<sock, session, up>>, reads' \subseteq [s : Socks, ver : Nat],
             doc' \in [ver : Nat, banned : BOOLEAN, auth : BOOLEAN]
      PROVE  ChannelInv'
  <2>1. Calm
    BY <1>0, <1>2 DEF Calm
  <2> QED
    BY <1>1, <1>2, <2>1
<1>3. ASSUME NEW s \in Socks,
             \/ handleAuthToken(s) \/ handleAuthBan(s) \/ destroyTimer(s) \/ clientCloses(s)
             \/ receive(s) \/ handleApp(s)
      PROVE  ChannelInv'
  BY <1>0, <1>1, <1>3, SocketSteps
<1>4. ASSUME NEW g \in Gateways, restart(g) PROVE ChannelInv'
  <2>1. up' = [up EXCEPT ![g] = TRUE] /\ UNCHANGED <<sock, session, reads, doc>>
    BY <1>4 DEF restart, bus, store
  <2> QED
    BY <2>1 DEF ChannelInv, OneChannel, Live, Hosted
<1>5. ASSUME NEW g \in Gateways, sessionRevoke(g) PROVE ChannelInv'
  <2> DEFINE x(s) == [sock[s] EXCEPT !.timer = @ \/ s = session[g],
                                     !.raced = @ \/ (sock[s].gw = g /\ sock[s].pc \in InAuth)]
  <2>a. \A s \in Socks : /\ x(s) \in SockRec /\ x(s).gw = sock[s].gw
                         /\ x(s).st = sock[s].st /\ x(s).pc = sock[s].pc
    <3> SUFFICES ASSUME NEW s \in Socks
                 PROVE  x(s) \in SockRec /\ x(s).gw = sock[s].gw /\ x(s).st = sock[s].st
                        /\ x(s).pc = sock[s].pc
      OBVIOUS
    <3> DEFINE b == sock[s].timer \/ s = session[g]
               c == sock[s].raced \/ (sock[s].gw = g /\ sock[s].pc \in InAuth)
    <3>1. b \in BOOLEAN /\ c \in BOOLEAN
      OBVIOUS
    <3>2. x(s) = [sock[s] EXCEPT !.timer = b, !.raced = c]
      OBVIOUS
    <3> HIDE DEF b, c, x
    <3>3. sock[s] \in SockRec
      BY <1>0
    <3> QED
      BY <3>1, <3>2, <3>3 DEF SockRec
  <2>b. sock' = [s \in Socks |-> x(s)] /\ UNCHANGED <<session, up, reads, doc>>
    BY <1>5 DEF sessionRevoke, store
  <2> HIDE DEF x
  <2>1. Calm /\ UNCHANGED <<reads, doc>>
    BY <2>a, <2>b DEF Calm
  <2> QED
    BY <1>0, <1>1, <2>1
<1>6. ASSUME NEW g \in Gateways, playerUpdated(g) PROVE ChannelInv'
  <2>1. UNCHANGED <<sock, session, up, doc>>
    BY <1>6 DEF playerUpdated, store
  <2>2. reads' \subseteq [s : Socks, ver : Nat]
    BY <1>0, <1>6 DEF playerUpdated, ChannelInv
  <2> QED
    BY <1>0, <1>2, <2>1, <2>2
<1>7. ASSUME NEW x \in reads, assignFresh(x) PROVE ChannelInv'
  <2>1. x.s \in Socks /\ x.ver \in Nat
    BY <1>0
  <2>2. Calm /\ doc' = doc /\ reads' \subseteq reads
    BY <1>0, <1>7, <2>1 DEF assignFresh, Calm, SockRec, store
  <2> QED
    BY <1>0, <1>1, <2>2
<1>8. CASE \/ claim \/ presenceLost \/ presenceExpires \/ banRevoke \/ adminKick \/ UNCHANGED vars
           \/ \E g \in Gateways : refreshPresence(g)
  <2>1. UNCHANGED <<sock, session, up, reads, doc>>
    BY <1>8 DEF claim, presenceLost, presenceExpires, banRevoke, adminKick, refreshPresence, vars, bus, store
  <2> QED
    BY <1>0, <1>2, <2>1
<1>9. CASE banDoc \/ banAuth \/ saveProfile
  <2>1. UNCHANGED <<sock, session, up, reads>>
    BY <1>9 DEF banDoc, banAuth, saveProfile, bus, store
  <2>2. doc' \in [ver : Nat, banned : BOOLEAN, auth : BOOLEAN]
    <3>1. doc.ver + 1 \in Nat
      BY <1>0
    <3> QED
      BY <1>0, <1>9, <3>1 DEF banDoc, banAuth, saveProfile
  <2> QED
    BY <1>0, <1>2, <2>1, <2>2
<1> QED
  BY <1>3, <1>4, <1>5, <1>6, <1>7, <1>8, <1>9, Connects, Enters, Closes, Crashes DEF Next, Work

\* The invariant holds of every behaviour.
LEMMA Channels == Spec => []ChannelInv
<1>1. Init => ChannelInv
  <2> SUFFICES ASSUME Init PROVE ChannelInv
    OBVIOUS
  <2>1. Closed \in SockRec /\ Closed.st = "closed" /\ Closed.pc = "out"
    BY DEF Closed, SockRec, InAuth
  <2> QED
    BY <2>1, NoneApart DEF Init, ChannelInv, OneChannel, Live, Hosted
<1> QED
  BY <1>1, ChannelStep, PTL DEF Spec

\* For every number of sockets and gateways, with crashes, kicks and reconnects during AUTH: the
\* sessions map names exactly the open authenticated socket of the account on that gateway.
THEOREM ChannelHolds == Spec => []OneChannel
<1>1. ChannelInv => OneChannel
  BY DEF ChannelInv
<1> QED
  BY <1>1, Channels, PTL

\* The close event of an old socket spares the queue and the presence of a newer one on the same
\* gateway, for every number of sockets.
THEOREM ReconnectHolds == Spec => ReconnectSpared
<1>1. ChannelInv /\ [Next]_vars =>
        [\A s \in Socks :
           (onClose(s) /\ (queued # queued' \/ presence # presence')) =>
             ~\E t \in Socks \ {s} : Live(t) /\ sock[t].gw = sock[s].gw]_vars
  <2> SUFFICES ASSUME ChannelInv, NEW s \in Socks, onClose(s), queued # queued' \/ presence # presence',
                      NEW t \in Socks \ {s}, Live(t), sock[t].gw = sock[s].gw
               PROVE  FALSE
    OBVIOUS
  <2>1. session[sock[s].gw] = s
    BY DEF onClose
  <2>2. session[sock[t].gw] = t
    BY DEF ChannelInv, OneChannel
  <2> QED
    BY <2>1, <2>2
<1> QED
  BY <1>1, Channels, PTL DEF Spec, ReconnectSpared

--------------------------------------------------------------------------------
(* The ban. *)

\* A socket that has an open channel, or will get one unless AUTH finds something yet.
Exposed(r) ==
  (r.st = "open" /\ r.pc = "in") \/ r.pc = "enter" \/ (r.pc = "ban" /\ ~r.banned)

\* What is on its way to end it: a destroy timer, or a revoke that its gateway has not handled.
\* raced: the revoke was handled while the socket was still in AUTH.
Caught(r) == r.raced \/ r.timer \/ inbox[r.gw].revoke > 0

\* A ban leaves nobody out.  The property is about open channels; it needs the sockets still in
\* AUTH with an answer from before the ban, and that a kicked socket is past AUTH.
SealInv ==
  /\ inbox \in [Gateways -> [revoke : Nat, updated : Nat]]
  /\ ban # "none" => doc.banned
  /\ \A s \in Socks : sock[s].timer => sock[s].pc \notin InAuth
  /\ ban = "done" => \A s \in Socks : Exposed(sock[s]) => Caught(sock[s])

\* One socket's record changes: it does not become exposed and stays caught.
LEMMA OneSealed ==
  ASSUME SealInv, sock \in [Socks -> SockRec], NEW s \in Socks, NEW x,
         sock' = [sock EXCEPT ![s] = x], UNCHANGED <<inbox, ban, doc>>,
         x.timer => x.pc \notin InAuth,
         ban = "done" /\ Exposed(x) =>
           /\ Exposed(sock[s]) /\ x.gw = sock[s].gw
           /\ sock[s].raced => x.raced
           /\ sock[s].timer => x.timer
  PROVE  SealInv'
<1>1. sock'[s] = x /\ \A t \in Socks \ {s} : sock'[t] = sock[t]
  OBVIOUS
<1>2. \A t \in Socks : sock'[t].timer => sock'[t].pc \notin InAuth
  BY <1>1 DEF SealInv
<1>3. ASSUME ban = "done", NEW t \in Socks, Exposed(sock'[t])
      PROVE  sock'[t].raced \/ sock'[t].timer \/ inbox[sock'[t].gw].revoke > 0
  <2>1. Exposed(sock[t]) => sock[t].raced \/ sock[t].timer \/ inbox[sock[t].gw].revoke > 0
    BY <1>3 DEF SealInv, Caught
  <2> QED
    BY <1>1, <1>3, <2>1
<1> QED
  BY <1>2, <1>3 DEF SealInv, Caught, Exposed

\* Nothing changes but the bus, where revokes only come in.
LEMMA MoreRevokes ==
  ASSUME SealInv, UNCHANGED sock, inbox' \in [Gateways -> [revoke : Nat, updated : Nat]],
         \A g \in Gateways : inbox'[g].revoke >= inbox[g].revoke,
         \A s \in Socks : Exposed(sock[s]) => sock[s].gw \in Gateways,
         ban' = "done" => ban = "done", ban' # "none" => doc'.banned
  PROVE  SealInv'
<1>1. ASSUME ban' = "done", NEW s \in Socks, Exposed(sock[s])
      PROVE  sock[s].raced \/ sock[s].timer \/ inbox'[sock[s].gw].revoke > 0
  <2>1. sock[s].gw \in Gateways
    BY <1>1
  <2>2. inbox[sock[s].gw].revoke \in Nat /\ inbox'[sock[s].gw].revoke \in Nat
    BY <2>1 DEF SealInv
  <2> QED
    BY <1>1, <2>1, <2>2 DEF SealInv, Caught
<1> QED
  BY <1>1 DEF SealInv, Caught, Exposed

LEMMA PublishShape ==
  ASSUME inbox \in [Gateways -> [revoke : Nat, updated : Nat]],
         NEW kind \in {"revoke", "updated"}, Publish(kind)
  PROVE  /\ inbox' \in [Gateways -> [revoke : Nat, updated : Nat]]
         /\ \A g \in Gateways : inbox'[g].revoke >= inbox[g].revoke
         /\ kind = "revoke" => \A g \in Gateways : up[g] => inbox'[g].revoke > 0
BY DEF Publish

\* The end of AUTH: the socket was exposed before, and the one it replaces no longer is.
LEMMA EnterSealed ==
  ASSUME ChannelInv, SealInv, NEW s \in Socks, handleAuthEnter(s)
  PROVE  SealInv'
<1> DEFINE prev == session[sock[s].gw]
           f == IF prev \notin {None, s} THEN Shut(sock, prev) ELSE sock
<1>1. sock[s].pc = "enter" /\ sock[s].gw \in Gateways /\ sock \in [Socks -> SockRec]
  BY DEF handleAuthEnter, ChannelInv, Hosted
<1>2. sock' = [f EXCEPT ![s].pc = "in"] /\ UNCHANGED <<inbox, ban, doc>>
  BY DEF handleAuthEnter, register, bus, store
<1>3. prev \notin {None, s} => prev \in Socks /\ sock[prev].pc = "in"
  BY <1>1 DEF ChannelInv, OneChannel
<1>4. /\ f \in [Socks -> SockRec] /\ f[s] = sock[s]
      /\ \A t \in Socks : f[t] = sock[t] \/ (f[t].st # "open" /\ f[t].pc = "in")
  <2>1. CASE prev \notin {None, s}
    <3>1. f = Shut(sock, prev)
      BY <2>1
    <3>2. PICK p \in Socks : p = prev /\ p # s /\ sock[p].pc = "in"
      BY <1>3, <2>1
    <3>3. /\ Shut(sock, p) \in [Socks -> SockRec]
          /\ \A t \in Socks \ {p} : Shut(sock, p)[t] = sock[t]
          /\ Shut(sock, p)[p].st # "open" /\ Shut(sock, p)[p].pc = sock[p].pc
      BY <1>1, ShutShape
    <3> HIDE DEF f, prev
    <3> QED
      BY <3>1, <3>2, <3>3
  <2>2. CASE prev \in {None, s}
    BY <1>1, <2>2
  <2> QED
    BY <2>1, <2>2
<1> HIDE DEF f, prev
<1>5. /\ sock'[s] = [sock[s] EXCEPT !.pc = "in"]
      /\ \A t \in Socks \ {s} : sock'[t] = sock[t] \/ (sock'[t].st # "open" /\ sock'[t].pc = "in")
  BY <1>2, <1>4
<1>6. /\ sock'[s].gw = sock[s].gw /\ sock'[s].raced = sock[s].raced
      /\ sock'[s].timer = sock[s].timer /\ sock'[s].pc = "in"
  BY <1>1, <1>5 DEF SockRec
<1>7. \A t \in Socks : sock'[t].timer => sock'[t].pc \notin InAuth
  BY <1>5, <1>6 DEF SealInv, InAuth
<1>8. ASSUME ban = "done", NEW t \in Socks, Exposed(sock'[t])
      PROVE  sock'[t].raced \/ sock'[t].timer \/ inbox[sock'[t].gw].revoke > 0
  <2>1. Exposed(sock[t]) => sock[t].raced \/ sock[t].timer \/ inbox[sock[t].gw].revoke > 0
    BY <1>8 DEF SealInv, Caught
  <2>2. CASE t = s
    BY <1>1, <1>6, <2>1, <2>2 DEF Exposed
  <2>3. CASE t # s
    <3>1. ~(sock'[t].st # "open" /\ sock'[t].pc = "in")
      BY <1>8 DEF Exposed
    <3> QED
      BY <1>5, <1>8, <2>1, <2>3, <3>1
  <2> QED
    BY <2>2, <2>3
<1> QED
  BY <1>2, <1>7, <1>8 DEF SealInv, Caught, Exposed

\* A revoke that is handled reaches the open channel, or leaves its trace on those in AUTH.
LEMMA RevokeSealed ==
  ASSUME ChannelInv, SealInv, NEW g \in Gateways, sessionRevoke(g)
  PROVE  SealInv'
<1> DEFINE timer(s) == sock[s].timer \/ s = session[g]
           raced(s) == sock[s].raced \/ (sock[s].gw = g /\ sock[s].pc \in InAuth)
<1>0. /\ sock \in [Socks -> SockRec] /\ inbox \in [Gateways -> [revoke : Nat, updated : Nat]]
      /\ inbox[g].revoke > 0 /\ inbox' = [inbox EXCEPT ![g].revoke = @ - 1]
      /\ UNCHANGED <<ban, doc>>
  BY DEF ChannelInv, SealInv, sessionRevoke, store
<1>1. \A s \in Socks : sock'[s] = [sock[s] EXCEPT !.timer = timer(s), !.raced = raced(s)]
  BY DEF sessionRevoke
<1>2. /\ inbox' \in [Gateways -> [revoke : Nat, updated : Nat]]
      /\ \A h \in Gateways \ {g} : inbox'[h] = inbox[h]
  BY <1>0
<1>3. ASSUME NEW s \in Socks
      PROVE  /\ sock'[s].pc = sock[s].pc /\ sock'[s].st = sock[s].st /\ sock'[s].gw = sock[s].gw
             /\ sock'[s].banned = sock[s].banned
             /\ sock'[s].timer = timer(s) /\ sock'[s].raced = raced(s)
  <2>1. PICK b, c : b = timer(s) /\ c = raced(s)
    OBVIOUS
  <2>2. sock'[s] = [sock[s] EXCEPT !.timer = b, !.raced = c] /\ sock[s] \in SockRec
    BY <1>0, <1>1, <2>1
  <2> HIDE DEF timer, raced
  <2> QED
    BY <2>1, <2>2 DEF SockRec
<1>4. ASSUME NEW s \in Socks, sock'[s].timer PROVE sock'[s].pc \notin InAuth
  <2>1. CASE s = session[g]
    <3>1. sock[s].pc = "in"
      BY <2>1, NoneApart DEF ChannelInv, OneChannel
    <3> QED
      BY <1>3, <3>1 DEF InAuth
  <2>2. CASE sock[s].timer
    BY <1>3, <2>2 DEF SealInv
  <2> QED
    BY <1>3, <1>4, <2>1, <2>2
<1>5. ASSUME ban = "done", NEW s \in Socks, Exposed(sock[s])
      PROVE  sock'[s].raced \/ sock'[s].timer \/ inbox'[sock[s].gw].revoke > 0
  <2>1. sock[s].gw \in Gateways
    BY <1>5 DEF ChannelInv, Hosted, Exposed
  <2>2. CASE sock[s].gw = g
    <3>1. CASE sock[s].pc \in InAuth
      BY <1>3, <2>2, <3>1
    <3>2. CASE Live(s)
      BY <1>3, <2>2, <3>2 DEF ChannelInv, OneChannel
    <3> QED
      BY <1>5, <3>1, <3>2 DEF Exposed, InAuth, Live
  <2>3. CASE sock[s].gw # g
    BY <1>2, <1>3, <1>5, <2>1, <2>3 DEF SealInv, Caught
  <2> QED
    BY <2>2, <2>3
<1>6. \A s \in Socks : Exposed(sock'[s]) => Exposed(sock[s])
  BY <1>3 DEF Exposed
<1>7. ASSUME ban = "done", NEW s \in Socks, Exposed(sock'[s])
      PROVE  sock'[s].raced \/ sock'[s].timer \/ inbox'[sock'[s].gw].revoke > 0
  BY <1>3, <1>5, <1>6, <1>7
<1> QED
  BY <1>0, <1>2, <1>4, <1>7 DEF SealInv, Caught, Exposed

LEMMA CrashSealed ==
  ASSUME ChannelInv, SealInv, NEW g \in Gateways, crash(g)
  PROVE  SealInv'
<1>1. /\ inbox' = [inbox EXCEPT ![g] = [revoke |-> 0, updated |-> 0]] /\ UNCHANGED <<ban, doc>>
      /\ \A s \in Socks : sock'[s] = IF sock[s].gw = g THEN Closed ELSE sock[s]
  BY DEF crash, store
<1>2. /\ inbox' \in [Gateways -> [revoke : Nat, updated : Nat]]
      /\ \A h : h # g => inbox'[h] = inbox[h]
  BY <1>1 DEF SealInv
<1>3. ~Exposed(Closed) /\ Closed.timer = FALSE
  BY DEF Exposed, Closed
<1>4. \A s \in Socks : sock'[s].timer => sock'[s].pc \notin InAuth
  BY <1>1, <1>3 DEF SealInv
<1>5. ASSUME ban = "done", NEW s \in Socks, Exposed(sock'[s])
      PROVE  sock'[s].raced \/ sock'[s].timer \/ inbox'[sock'[s].gw].revoke > 0
  <2>1. sock'[s] = sock[s] /\ sock[s].gw # g
    BY <1>1, <1>3, <1>5
  <2>2. sock[s].raced \/ sock[s].timer \/ inbox[sock[s].gw].revoke > 0
    BY <1>5, <2>1 DEF SealInv, Caught
  <2> QED
    BY <1>2, <2>1, <2>2
<1> QED
  BY <1>1, <1>2, <1>4, <1>5 DEF SealInv, Caught, Exposed

\* The steps of one socket.
LEMMA SocketSealed ==
  ASSUME ChannelInv, SealInv, NEW s \in Socks,
         \/ handleAuthToken(s) \/ handleAuthBan(s) \/ destroyTimer(s) \/ clientCloses(s)
         \/ receive(s) \/ handleApp(s) \/ onClose(s) \/ \E g \in Gateways : handleConnection(s, g)
  PROVE  SealInv'
<1>0. sock \in [Socks -> SockRec] /\ sock[s] \in SockRec
      /\ (sock[s].timer => sock[s].pc \notin InAuth)
  BY DEF ChannelInv, SealInv
<1>1. CASE handleAuthToken(s)
  <2>1. sock[s].pc = "token" /\ UNCHANGED <<inbox, ban, doc>> /\ ~sock[s].timer
    BY <1>0, <1>1 DEF handleAuthToken, bus, store, InAuth
  <2>2. CASE sock' = [sock EXCEPT ![s].pc = "ban", ![s].ver = doc.ver, ![s].banned = doc.banned]
    <3> DEFINE x == [sock[s] EXCEPT !.pc = "ban", !.ver = doc.ver, !.banned = doc.banned]
    <3>1. sock' = [sock EXCEPT ![s] = x]
      BY <1>0, <2>2
    <3>2. x.pc = "ban" /\ x.banned = doc.banned /\ ~x.timer
      BY <1>0, <2>1 DEF SockRec
    <3> HIDE DEF x
    <3>3. ban = "done" => ~Exposed(x)
      BY <3>2 DEF Exposed, SealInv
    <3> QED
      BY <1>0, <2>1, <3>1, <3>2, <3>3, OneSealed
  <2>3. CASE sock' = [Shut(sock, s) EXCEPT ![s].pc = "out"]
    <3> DEFINE x == [sock[s] EXCEPT !.st = IF @ = "open" THEN "shut" ELSE @, !.pc = "out"]
    <3>1. sock' = [sock EXCEPT ![s] = x]
      BY <1>0, <2>3 DEF Shut
    <3>2. x.pc = "out"
      BY <1>0 DEF SockRec
    <3> HIDE DEF x
    <3> QED
      BY <1>0, <2>1, <3>1, <3>2, OneSealed DEF Exposed, InAuth
  <2> QED
    BY <1>1, <2>2, <2>3 DEF handleAuthToken
<1>2. CASE handleAuthBan(s)
  <2>1. sock[s].pc = "ban" /\ UNCHANGED <<inbox, ban, doc>> /\ ~sock[s].timer
    BY <1>0, <1>2 DEF handleAuthBan, bus, store, InAuth
  <2>2. CASE sock' = [sock EXCEPT ![s].pc = "out", ![s].timer = TRUE]
    <3> DEFINE x == [sock[s] EXCEPT !.pc = "out", !.timer = TRUE]
    <3>1. sock' = [sock EXCEPT ![s] = x] /\ x.pc = "out"
      BY <1>0, <2>2 DEF SockRec
    <3> HIDE DEF x
    <3> QED
      BY <1>0, <2>1, <3>1, OneSealed DEF Exposed, InAuth
  <2>3. CASE ~sock[s].banned /\ sock' = [sock EXCEPT ![s].pc = "enter"]
    <3> DEFINE x == [sock[s] EXCEPT !.pc = "enter"]
    <3>1. /\ sock' = [sock EXCEPT ![s] = x] /\ x.gw = sock[s].gw /\ x.raced = sock[s].raced
          /\ x.timer = sock[s].timer
      BY <1>0, <2>3 DEF SockRec
    <3>2. Exposed(sock[s])
      BY <2>1, <2>3 DEF Exposed
    <3> HIDE DEF x
    <3> QED
      BY <1>0, <2>1, <3>1, <3>2, OneSealed
  <2> QED
    BY <1>2, <2>2, <2>3 DEF handleAuthBan, isBanned
<1>3. CASE destroyTimer(s)
  <2> DEFINE x == [sock[s] EXCEPT !.st = IF @ = "open" THEN "shut" ELSE @, !.timer = FALSE]
  <2>1. sock' = [sock EXCEPT ![s] = x] /\ UNCHANGED <<inbox, ban, doc>>
    BY <1>0, <1>3 DEF destroyTimer, Shut, bus, store
  <2>2. x.st # "open" /\ x.pc = sock[s].pc /\ x.timer = FALSE /\ sock[s].pc \notin InAuth
    BY <1>0, <1>3 DEF SockRec, destroyTimer
  <2> HIDE DEF x
  <2>3. ~Exposed(x)
    BY <2>2 DEF Exposed, InAuth
  <2> QED
    BY <1>0, <2>1, <2>2, <2>3, OneSealed
<1>4. ASSUME NEW x, sock' = [sock EXCEPT ![s] = x], UNCHANGED <<inbox, ban, doc>>,
             x.pc = sock[s].pc, x.st = "open" => sock[s].st = "open", x.banned = sock[s].banned,
             x.gw = sock[s].gw, x.raced = sock[s].raced, x.timer = sock[s].timer
      PROVE  SealInv'
  BY <1>0, <1>4, OneSealed DEF Exposed
<1>5. CASE clientCloses(s)
  <2> DEFINE x == [sock[s] EXCEPT !.st = IF @ = "open" THEN "shut" ELSE @]
  <2>1. sock' = [sock EXCEPT ![s] = x] /\ UNCHANGED <<inbox, ban, doc>>
    BY <1>0, <1>5 DEF clientCloses, Shut, bus, store
  <2> QED
    BY <1>0, <1>4, <2>1 DEF SockRec
<1>6. CASE onClose(s)
  <2> DEFINE x == [sock[s] EXCEPT !.st = "closed"]
  <2>1. sock' = [sock EXCEPT ![s] = x] /\ UNCHANGED <<inbox, ban, doc>>
    BY <1>0, <1>6 DEF onClose, bus, store
  <2> QED
    BY <1>0, <1>4, <2>1 DEF SockRec
<1>7. CASE receive(s) \/ handleApp(s)
  <2>1. PICK b : sock' = [sock EXCEPT ![s].buf = b] /\ UNCHANGED <<inbox, ban, doc>>
    BY <1>7 DEF receive, handleApp, bus, store
  <2> DEFINE x == [sock[s] EXCEPT !.buf = b]
  <2>2. sock' = [sock EXCEPT ![s] = x]
    BY <1>0, <2>1
  <2> QED
    BY <1>0, <1>4, <2>1, <2>2 DEF SockRec
<1>8. CASE \E g \in Gateways : handleConnection(s, g)
  <2>1. PICK g \in Gateways : handleConnection(s, g)
    BY <1>8
  <2> DEFINE x == [Closed EXCEPT !.gw = g, !.st = "open", !.pc = "token"]
  <2>2. sock' = [sock EXCEPT ![s] = x] /\ UNCHANGED <<inbox, ban, doc>>
    BY <2>1 DEF handleConnection, bus, store
  <2>3. x.pc = "token" /\ ~x.timer
    BY DEF Closed
  <2> HIDE DEF x
  <2> QED
    BY <1>0, <2>2, <2>3, OneSealed DEF Exposed
<1> QED
  BY <1>1, <1>2, <1>3, <1>5, <1>6, <1>7, <1>8

LEMMA SealStep ==
  ASSUME ChannelInv, SealInv, [Next]_vars
  PROVE  SealInv'
<1>0. /\ sock \in [Socks -> SockRec] /\ inbox \in [Gateways -> [revoke : Nat, updated : Nat]]
      /\ \A s \in Socks : Exposed(sock[s]) => sock[s].gw \in Gateways /\ up[sock[s].gw]
  BY DEF ChannelInv, SealInv, Hosted, Exposed
<1>1. CASE \E s \in Socks :
             \/ handleAuthToken(s) \/ handleAuthBan(s) \/ destroyTimer(s) \/ clientCloses(s)
             \/ receive(s) \/ handleApp(s) \/ onClose(s) \/ \E g \in Gateways : handleConnection(s, g)
  BY <1>1, SocketSealed
<1>2. CASE \E x \in reads : assignFresh(x)
  <2>1. PICK x \in reads : assignFresh(x)
    BY <1>2
  <2>2. x.s \in Socks
    BY DEF ChannelInv
  <2> DEFINE y == [sock[x.s] EXCEPT !.ver = x.ver]
  <2>3. sock' = [sock EXCEPT ![x.s] = y] /\ UNCHANGED <<inbox, ban, doc>>
    BY <1>0, <2>1 DEF assignFresh, store
  <2>4. /\ y.pc = sock[x.s].pc /\ y.st = sock[x.s].st /\ y.banned = sock[x.s].banned
        /\ y.gw = sock[x.s].gw /\ y.raced = sock[x.s].raced /\ y.timer = sock[x.s].timer
    BY <1>0, <2>2 DEF SockRec
  <2>5. sock[x.s].timer => sock[x.s].pc \notin InAuth
    BY <2>2 DEF SealInv
  <2> HIDE DEF y
  <2> QED
    BY <1>0, <2>2, <2>3, <2>4, <2>5, OneSealed DEF Exposed
<1>3. CASE adminKick \/ saveProfile
  <2>1. PICK kind \in {"revoke", "updated"} : Publish(kind)
    BY <1>3 DEF adminKick, saveProfile
  <2>2. UNCHANGED <<sock, ban>> /\ doc'.banned = doc.banned
    BY <1>3 DEF adminKick, saveProfile, store, ChannelInv
  <2> QED
    BY <1>0, <2>1, <2>2, PublishShape, MoreRevokes DEF SealInv
<1>4. CASE banRevoke
  <2>1. Publish("revoke") /\ UNCHANGED <<sock, doc>> /\ ban = "auth" /\ ban' = "done"
    BY <1>4 DEF banRevoke
  <2>2. /\ inbox' \in [Gateways -> [revoke : Nat, updated : Nat]]
        /\ \A g \in Gateways : up[g] => inbox'[g].revoke > 0
    BY <1>0, <2>1, PublishShape
  <2> QED
    BY <1>0, <2>1, <2>2 DEF SealInv, Caught, Exposed
<1>5. CASE banDoc \/ banAuth
  <2>1. UNCHANGED <<sock, inbox>> /\ ban' # "done" /\ doc'.banned
    BY <1>5 DEF banDoc, banAuth, bus, SealInv, ChannelInv
  <2> QED
    BY <2>1 DEF SealInv
<1>6. CASE \E g \in Gateways : playerUpdated(g)
  <2>1. PICK g \in Gateways : playerUpdated(g)
    BY <1>6
  <2>2. /\ inbox[g].updated > 0 /\ inbox' = [inbox EXCEPT ![g].updated = @ - 1]
        /\ UNCHANGED <<sock, ban, doc>>
    BY <2>1 DEF playerUpdated, store
  <2>3. /\ inbox' \in [Gateways -> [revoke : Nat, updated : Nat]]
        /\ \A h \in Gateways : inbox'[h].revoke = inbox[h].revoke
    BY <1>0, <2>2
  <2>4. \A h \in Gateways : inbox'[h].revoke >= inbox[h].revoke
    BY <1>0, <2>3
  <2> QED
    BY <1>0, <2>2, <2>3, <2>4, MoreRevokes DEF SealInv
<1>7. CASE \/ claim \/ presenceLost \/ presenceExpires \/ UNCHANGED vars
           \/ \E g \in Gateways : refreshPresence(g) \/ restart(g)
  <2>1. UNCHANGED <<sock, inbox, ban, doc>>
    BY <1>7 DEF claim, presenceLost, presenceExpires, refreshPresence, restart, vars, bus, store
  <2> QED
    BY <2>1 DEF SealInv, Caught, Exposed
<1> QED
  BY <1>1, <1>2, <1>3, <1>4, <1>5, <1>6, <1>7, EnterSealed, RevokeSealed, CrashSealed DEF Next, Work

\* The safety half of BanHolds (admin/core.js, gateway.js), for any number of sockets and
\* gateways, with crashes, failing ban queries and other kicks: once a ban is complete, every
\* open channel of the account that was not in AUTH when the revoke was handled has its end under
\* way, so nobody whom the ban found connected, or on the way in, is left out.
THEOREM BanSealed ==
  Spec => [](ban = "done" => \A s \in Socks : Live(s) => Caught(sock[s]))
<1>1. Init => SealInv
  BY DEF Init, SealInv, Closed
<1>2. SealInv => (ban = "done" => \A s \in Socks : Live(s) => Caught(sock[s]))
  BY DEF SealInv, Exposed, Live
<1> QED
  BY <1>1, <1>2, SealStep, Channels, PTL DEF Spec
================================================================================
