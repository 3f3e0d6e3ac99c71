-------------------------- MODULE EventLoopProofs ---------------------------
(***************************************************************************)
(* The event loop for any number of channels and descriptors and any       *)
(* callbacks: the poller's array, its map and the channels' indexes agree, *)
(* and what ::poll reports goes to the channels that asked for it.         *)
(***************************************************************************)
EXTENDS EventLoop, TLAPS

Events == {"in", "out"}
PollFd == [fd : Int, events : SUBSET Events]

\* A poller with its channels, the map holding each under its own descriptor.
Typed(p) ==
  /\ p = [fd |-> p.fd, pollfds |-> p.pollfds, channels |-> p.channels,
          events |-> p.events, index |-> p.index]
  /\ p.fd \in [Channels -> Nat] /\ p.pollfds \in Seq(PollFd)
  /\ p.events \in [Channels -> SUBSET Events] /\ p.index \in [Channels -> Int]
  /\ p.channels \in [DOMAIN p.channels -> Channels]
  /\ \A f \in DOMAIN p.channels : p.fd[p.channels[f]] = f

\* The entry e is what ::poll is to be given for channel c.
Right(p, c, e) ==
  /\ Stored(e.fd) = p.fd[c]
  /\ e.events = p.events[c]
  /\ p.events[c] # {} => e.fd = p.fd[c]

\* SlotsConsistent, of any poller.
Consistent(p) ==
  /\ \A c \in Channels :
       IF HasChannel(p, c)
       THEN p.index[c] \in 0..(Len(p.pollfds) - 1) /\ Right(p, c, p.pollfds[p.index[c] + 1])
       ELSE p.index[c] = -1
  /\ \A i \in 1..Len(p.pollfds) : \E c \in Channels : HasChannel(p, c) /\ p.index[c] = i - 1

LoopOK ==
  /\ active \in Seq(Channels)
  /\ at \in 0..Len(active)
  /\ pc \in {"out", "poll", "handle", "callback"}

IInv == Typed(poller) /\ Consistent(poller) /\ LoopOK

-----------------------------------------------------------------------------
(* The calls of the poller. *)

\* A channel's events_ alone.
LEMMA EventsSet ==
  ASSUME NEW p, Typed(p), NEW c \in Channels, NEW E \in SUBSET Events
  PROVE  LET q == [p EXCEPT !.events[c] = E]
         IN  /\ Typed(q)
             /\ q.fd = p.fd /\ q.pollfds = p.pollfds
             /\ q.channels = p.channels /\ q.index = p.index
             /\ q.events = [p.events EXCEPT ![c] = E]
<1> DEFINE q == [p EXCEPT !.events[c] = E]
<1>1. q = [fd |-> p.fd, pollfds |-> p.pollfds, channels |-> p.channels,
           events |-> [p.events EXCEPT ![c] = E], index |-> p.index]
  <2>1. PICK fd, pollfds, channels, events, index :
          p = [fd |-> fd, pollfds |-> pollfds, channels |-> channels,
               events |-> events, index |-> index]
    BY DEF Typed
  <2> QED
    BY <2>1
<1> HIDE DEF q
<1>2. /\ q.fd = p.fd /\ q.pollfds = p.pollfds /\ q.channels = p.channels
      /\ q.index = p.index /\ q.events = [p.events EXCEPT ![c] = E]
  BY <1>1
<1>3. q.events \in [Channels -> SUBSET Events]
  BY <1>2 DEF Typed
<1>4. Typed(q)
  BY <1>1, <1>2, <1>3 DEF Typed
<1> QED
  BY <1>2, <1>4 DEF q

\* Two registered channels have different entries.
LEMMA OwnEntry ==
  ASSUME NEW p, Typed(p), Consistent(p), NEW c \in Channels, NEW d \in Channels,
         HasChannel(p, c), HasChannel(p, d), p.index[c] = p.index[d]
  PROVE  c = d
BY DEF Consistent, Right, HasChannel

\* UpdateChannel of a new channel.
LEMMA AppendKeeps ==
  ASSUME NEW p, Typed(p), Consistent(p), NEW c \in Channels, NEW q, Typed(q),
         q.fd = p.fd, q.pollfds = p.pollfds, q.channels = p.channels, q.index = p.index,
         \A d \in Channels : d # c => q.events[d] = p.events[d],
         p.fd[c] \notin DOMAIN p.channels
  PROVE  LET r == AppendChannel(q, c)
         IN  /\ Typed(r) /\ Consistent(r)
             /\ \A d \in Channels : HasChannel(p, d) => HasChannel(r, d)
<1> DEFINE r == AppendChannel(q, c)
<1>0. /\ p.fd \in [Channels -> Nat] /\ p.pollfds \in Seq(PollFd) /\ p.index \in [Channels -> Int]
      /\ q.events \in [Channels -> SUBSET Events]
      /\ \A f \in DOMAIN p.channels : p.channels[f] \in Channels /\ p.fd[p.channels[f]] = f
  BY DEF Typed
<1> DEFINE e == [fd |-> p.fd[c], events |-> q.events[c]]
<1>1. e \in PollFd
  BY <1>0 DEF PollFd
<1>2. /\ r.fd = p.fd /\ r.pollfds = Append(p.pollfds, e) /\ r.events = q.events
      /\ r.index = [p.index EXCEPT ![c] = Len(p.pollfds)]
      /\ r.channels = [f \in DOMAIN p.channels \cup {p.fd[c]} |->
                         IF f = p.fd[c] THEN c ELSE p.channels[f]]
  BY DEF AppendChannel
<1>3. Typed(r)
  <2>1. r.pollfds \in Seq(PollFd)
    BY <1>0, <1>1, <1>2
  <2>2. r.channels \in [DOMAIN p.channels \cup {p.fd[c]} -> Channels]
    BY <1>0, <1>2
  <2>3. r.index \in [Channels -> Int]
    BY <1>0, <1>2
  <2>4. r = [fd |-> r.fd, pollfds |-> r.pollfds, channels |-> r.channels,
             events |-> r.events, index |-> r.index]
    BY DEF AppendChannel
  <2> HIDE DEF r
  <2>5. \A f \in DOMAIN r.channels : r.fd[r.channels[f]] = f
    BY <1>0, <1>2
  <2>6. r.channels \in [DOMAIN r.channels -> Channels]
    BY <2>2
  <2> QED
    BY <1>0, <1>2, <2>1, <2>3, <2>4, <2>5, <2>6 DEF Typed
<1> HIDE DEF r, e
<1>4. \A d \in Channels : HasChannel(r, d) <=> HasChannel(p, d) \/ d = c
  <2> SUFFICES ASSUME NEW d \in Channels
               PROVE  HasChannel(r, d) <=> HasChannel(p, d) \/ d = c
    BY Zenon
  <2>1. CASE p.fd[d] = p.fd[c]
    <3>1. r.channels[p.fd[d]] = c /\ p.fd[d] \in DOMAIN r.channels
      BY <1>2, <2>1
    <3> QED
      BY <1>2, <2>1, <3>1 DEF HasChannel
  <2>2. CASE p.fd[d] # p.fd[c]
    <3>1. p.fd[d] \in DOMAIN r.channels <=> p.fd[d] \in DOMAIN p.channels
      BY <1>2, <2>2
    <3>2. p.fd[d] \in DOMAIN p.channels => r.channels[p.fd[d]] = p.channels[p.fd[d]]
      BY <1>2, <2>2
    <3> QED
      BY <1>2, <2>2, <3>1, <3>2 DEF HasChannel
  <2> QED
    BY <2>1, <2>2
<1>5. ~HasChannel(p, c)
  BY DEF HasChannel
<1>6. /\ Len(r.pollfds) = Len(p.pollfds) + 1 /\ r.pollfds[Len(p.pollfds) + 1] = e
      /\ \A i \in 1..Len(p.pollfds) : r.pollfds[i] = p.pollfds[i]
  BY <1>0, <1>1, <1>2
<1>7. ASSUME NEW d \in Channels
      PROVE  IF HasChannel(r, d)
             THEN r.index[d] \in 0..(Len(r.pollfds) - 1) /\ Right(r, d, r.pollfds[r.index[d] + 1])
             ELSE r.index[d] = -1
  <2>1. CASE d = c
    <3>1. r.index[d] = Len(p.pollfds) /\ Len(p.pollfds) \in Nat
      BY <1>0, <1>2, <2>1
    <3>2. Right(r, d, e)
      BY <1>0, <1>2, <2>1 DEF Right, Stored, e
    <3> QED
      BY <1>4, <1>6, <2>1, <3>1, <3>2
  <2>2. CASE d # c
    <3>1. r.index[d] = p.index[d] /\ r.events[d] = p.events[d]
      BY <1>0, <1>2, <2>2
    <3>2. CASE HasChannel(p, d)
      <4>1. /\ p.index[d] \in 0..(Len(p.pollfds) - 1)
            /\ Right(p, d, p.pollfds[p.index[d] + 1])
        BY <3>2 DEF Consistent
      <4>2. r.pollfds[p.index[d] + 1] = p.pollfds[p.index[d] + 1]
        BY <1>0, <1>6, <4>1
      <4>3. Right(r, d, p.pollfds[p.index[d] + 1])
        BY <1>2, <3>1, <4>1 DEF Right
      <4>4. r.index[d] \in 0..(Len(r.pollfds) - 1)
        BY <1>0, <1>6, <3>1, <4>1
      <4> QED
        BY <1>4, <3>1, <3>2, <4>2, <4>3, <4>4
    <3>3. CASE ~HasChannel(p, d)
      BY <1>4, <2>2, <3>1, <3>3 DEF Consistent
    <3> QED
      BY <3>2, <3>3
  <2> QED
    BY <2>1, <2>2
<1>8. ASSUME NEW i \in 1..Len(r.pollfds)
      PROVE  \E d \in Channels : HasChannel(r, d) /\ r.index[d] = i - 1
  <2>1. CASE i = Len(p.pollfds) + 1
    BY <1>0, <1>2, <1>4, <2>1
  <2>2. CASE i \in 1..Len(p.pollfds)
    <3>1. PICK d \in Channels : HasChannel(p, d) /\ p.index[d] = i - 1
      BY <2>2 DEF Consistent
    <3>2. r.index[d] = p.index[d]
      BY <1>0, <1>2, <1>5, <3>1
    <3> QED
      BY <1>4, <3>1, <3>2
  <2> QED
    BY <1>0, <1>6, <2>1, <2>2
<1> QED
  BY <1>3, <1>4, <1>7, <1>8 DEF Consistent, r

\* UpdateChannel of a registered channel.
LEMMA RefreshKeeps ==
  ASSUME NEW p, Typed(p), Consistent(p), NEW c \in Channels, NEW q, Typed(q),
         q.fd = p.fd, q.pollfds = p.pollfds, q.channels = p.channels, q.index = p.index,
         \A d \in Channels : d # c => q.events[d] = p.events[d],
         HasChannel(p, c)
  PROVE  LET r == RefreshChannel(q, c)
         IN  /\ Typed(r) /\ Consistent(r)
             /\ \A d \in Channels : HasChannel(p, d) => HasChannel(r, d)
<1> DEFINE r == RefreshChannel(q, c)
           i == p.index[c] + 1
           e == [fd |-> IF q.events[c] = {} THEN Negated(p.fd[c]) ELSE p.fd[c],
                 events |-> q.events[c]]
<1>0. /\ p.fd \in [Channels -> Nat] /\ p.pollfds \in Seq(PollFd) /\ p.index \in [Channels -> Int]
      /\ q.events \in [Channels -> SUBSET Events]
  BY DEF Typed
<1>1. e \in PollFd
  BY <1>0 DEF PollFd, Negated
<1>2. Stored(e.fd) = p.fd[c] /\ e.events = q.events[c] /\ (q.events[c] # {} => e.fd = p.fd[c])
  <2>1. /\ e.fd = IF q.events[c] = {} THEN Negated(p.fd[c]) ELSE p.fd[c]
        /\ e.events = q.events[c]
    OBVIOUS
  <2> HIDE DEF e
  <2>2. p.fd[c] \in Nat
    BY <1>0
  <2> QED
    BY <2>1, <2>2 DEF Stored, Negated
<1> HIDE DEF e
<1>3. r = [fd |-> q.fd, pollfds |-> [q.pollfds EXCEPT ![i] = e], channels |-> q.channels,
           events |-> q.events, index |-> q.index]
  <2>1. PICK fd, pollfds, channels, events, index :
          q = [fd |-> fd, pollfds |-> pollfds, channels |-> channels,
               events |-> events, index |-> index]
    BY DEF Typed
  <2> QED
    BY <2>1 DEF RefreshChannel, e
<1> HIDE DEF r
<1>4. /\ r.fd = p.fd /\ r.pollfds = [p.pollfds EXCEPT ![i] = e] /\ r.events = q.events
      /\ r.index = p.index /\ r.channels = p.channels
  BY <1>3
<1>5. i \in 1..Len(p.pollfds)
  BY <1>0 DEF Consistent
<1> HIDE DEF i
<1>6. /\ r.pollfds \in Seq(PollFd) /\ Len(r.pollfds) = Len(p.pollfds) /\ r.pollfds[i] = e
      /\ \A j \in 1..Len(p.pollfds) : j # i => r.pollfds[j] = p.pollfds[j]
  BY <1>0, <1>1, <1>4, <1>5
<1>7. Typed(r)
  BY <1>3, <1>4, <1>6 DEF Typed
<1>8. \A d \in Channels : HasChannel(r, d) <=> HasChannel(p, d)
  BY <1>4, Zenon DEF HasChannel
<1>9. ASSUME NEW d \in Channels, HasChannel(p, d)
      PROVE  r.index[d] \in 0..(Len(r.pollfds) - 1) /\ Right(r, d, r.pollfds[r.index[d] + 1])
  <2>1. /\ p.index[d] \in 0..(Len(p.pollfds) - 1)
        /\ Right(p, d, p.pollfds[p.index[d] + 1])
    BY <1>9 DEF Consistent
  <2>2. CASE d = c
    BY <1>2, <1>4, <1>6, <2>1, <2>2 DEF Right, i
  <2>3. CASE d # c
    <3>1. p.index[d] + 1 # i
      BY <1>0, <1>9, <2>3, OwnEntry DEF i
    <3>2. r.pollfds[p.index[d] + 1] = p.pollfds[p.index[d] + 1]
      BY <1>0, <1>6, <2>1, <3>1
    <3>3. r.events[d] = p.events[d]
      BY <1>4, <2>3
    <3> QED
      BY <1>4, <1>6, <2>1, <3>2, <3>3 DEF Right
  <2> QED
    BY <2>2, <2>3
<1>10. Consistent(r)
  BY <1>4, <1>6, <1>8, <1>9 DEF Consistent
<1> QED
  BY <1>7, <1>8, <1>10 DEF r

\* RemoveChannel of a registered channel.
LEMMA RemoveKeeps ==
  ASSUME NEW p, Typed(p), Consistent(p), NEW c \in Channels, HasChannel(p, c)
  PROVE  LET r == RemoveChannel(p, c)
         IN  /\ Typed(r) /\ Consistent(r)
             /\ \A d \in Channels : HasChannel(r, d) <=> HasChannel(p, d) /\ d # c
<1> DEFINE r == RemoveChannel(p, c)
           i == p.index[c] + 1
           last == Len(p.pollfds)
           s == [p.pollfds EXCEPT ![i] = p.pollfds[last]]
<1>0. /\ p.fd \in [Channels -> Nat] /\ p.pollfds \in Seq(PollFd) /\ p.index \in [Channels -> Int]
      /\ p.channels \in [DOMAIN p.channels -> Channels]
  BY DEF Typed
<1>1. i \in 1..last /\ last \in Nat
  BY <1>0 DEF Consistent
<1>2. PICK m \in Channels : HasChannel(p, m) /\ p.index[m] = last - 1
  <2>1. last \in 1..last
    BY <1>1
  <2> QED
    BY <2>1 DEF Consistent
<1>3. p.channels[Stored(p.pollfds[last].fd)] = m
  <2>1. Right(p, m, p.pollfds[p.index[m] + 1])
    BY <1>2 DEF Consistent
  <2>2. p.index[m] + 1 = last
    BY <1>1, <1>2
  <2> QED
    BY <1>2, <2>1, <2>2 DEF Right, HasChannel
<1>4. /\ r = [fd |-> r.fd, pollfds |-> r.pollfds, channels |-> r.channels,
              events |-> r.events, index |-> r.index]
      /\ r.fd = p.fd /\ r.pollfds = SubSeq(s, 1, last - 1) /\ r.events = p.events
      /\ r.channels = [f \in DOMAIN p.channels \ {p.fd[c]} |-> p.channels[f]]
      /\ r.index = [p.index EXCEPT ![m] = i - 1, ![c] = -1]
  BY <1>3 DEF RemoveChannel
<1> HIDE DEF r
<1>5. /\ s \in Seq(PollFd) /\ Len(s) = last /\ s[i] = p.pollfds[last]
      /\ \A j \in 1..last : j # i => s[j] = p.pollfds[j]
  BY <1>0, <1>1
<1> HIDE DEF s, i, last
<1>6. /\ r.pollfds \in Seq(PollFd) /\ Len(r.pollfds) = last - 1
      /\ \A j \in 1..(last - 1) : r.pollfds[j] = s[j]
  BY <1>1, <1>4, <1>5
<1>7. r.index \in [Channels -> Int]
  <2>1. i - 1 \in Int
    BY <1>0 DEF i
  <2>2. r.index = [d \in Channels |-> IF d = c THEN -1 ELSE IF d = m THEN i - 1 ELSE p.index[d]]
    BY <1>0, <1>4, Zenon
  <2> QED
    BY <1>0, <2>1, <2>2
<1>8. r.index[c] = -1
  BY <1>0, <1>4
<1>9. \A d \in Channels : d # c => r.index[d] = IF d = m THEN i - 1 ELSE p.index[d]
  BY <1>0, <1>4
<1>10. r.channels \in [DOMAIN r.channels -> Channels]
  BY <1>0, <1>4
<1>11. Typed(r)
  <2>1. \A f \in DOMAIN r.channels : r.fd[r.channels[f]] = f
    BY <1>4 DEF Typed
  <2>2. r.events \in [Channels -> SUBSET Events]
    BY <1>4 DEF Typed
  <2> QED
    BY <1>0, <1>4, <1>6, <1>7, <1>10, <2>1, <2>2, Zenon DEF Typed
<1>12. \A d \in Channels : HasChannel(r, d) <=> HasChannel(p, d) /\ d # c
  BY <1>4 DEF HasChannel
<1>13. ASSUME NEW d \in Channels, HasChannel(p, d), d # c
       PROVE  r.index[d] \in 0..(Len(r.pollfds) - 1) /\ Right(r, d, r.pollfds[r.index[d] + 1])
  <2>1. /\ p.index[d] \in 0..(last - 1) /\ Right(p, d, p.pollfds[p.index[d] + 1])
    BY <1>13 DEF Consistent, last
  <2>2. p.index[d] + 1 # i
    BY <1>0, <1>13, OwnEntry DEF i
  <2>3. CASE d = m
    <3>1. i # last
      BY <1>1, <1>2, <2>2, <2>3
    <3>a. i \in 1..(last - 1)
      BY <1>1, <3>1
    <3>2. r.index[d] = i - 1 /\ r.pollfds[i] = p.pollfds[last]
      BY <1>5, <1>6, <1>9, <1>13, <2>3, <3>a
    <3>3. r.pollfds[r.index[d] + 1] = p.pollfds[p.index[d] + 1]
      BY <1>1, <1>2, <2>3, <3>2
    <3>4. r.index[d] \in 0..(Len(r.pollfds) - 1)
      BY <1>1, <1>6, <3>a, <3>2
    <3> QED
      BY <1>4, <2>1, <3>3, <3>4, Zenon DEF Right
  <2>4. CASE d # m
    <3>1. p.index[d] # last - 1
      BY <1>2, <1>13, <2>4, OwnEntry
    <3>2. r.index[d] = p.index[d]
      BY <1>9, <1>13, <2>4
    <3>3. r.pollfds[p.index[d] + 1] = p.pollfds[p.index[d] + 1]
      BY <1>1, <1>5, <1>6, <2>1, <2>2, <3>1
    <3>4. r.index[d] \in 0..(Len(r.pollfds) - 1)
      BY <1>1, <1>6, <2>1, <3>1, <3>2
    <3> QED
      BY <1>4, <2>1, <3>2, <3>3, <3>4, Zenon DEF Right
  <2> QED
    BY <2>3, <2>4
<1>14. ASSUME NEW d \in Channels, ~HasChannel(p, d) \/ d = c
       PROVE  r.index[d] = -1
  BY <1>2, <1>8, <1>9, <1>14 DEF Consistent
<1>15. ASSUME NEW j \in 1..Len(r.pollfds)
       PROVE  \E d \in Channels : HasChannel(r, d) /\ r.index[d] = j - 1
  <2>1. j \in 1..last /\ j # last
    BY <1>1, <1>6
  <2>2. CASE j = i
    <3>1. m # c
      BY <1>0, <1>1, <1>2, <2>1, <2>2 DEF i
    <3> QED
      BY <1>2, <1>9, <1>12, <2>2, <3>1
  <2>3. CASE j # i
    <3>1. PICK d \in Channels : HasChannel(p, d) /\ p.index[d] = j - 1
      BY <2>1 DEF Consistent, last
    <3>2. d # c /\ d # m
      BY <1>0, <1>1, <1>2, <2>1, <2>3, <3>1 DEF i
    <3> QED
      BY <1>9, <1>12, <3>1, <3>2
  <2> QED
    BY <2>2, <2>3
<1>16. Consistent(r)
  BY <1>12, <1>13, <1>14, <1>15 DEF Consistent
<1> QED
  BY <1>11, <1>12, <1>16 DEF r

\* UpdateChannel, as the calls of a channel reach it.
LEMMA UpdateKeeps ==
  ASSUME NEW p, Typed(p), Consistent(p), NEW c \in Channels, NEW E \in SUBSET Events,
         MayUpdate(p, c)
  PROVE  LET r == UpdateChannel([p EXCEPT !.events[c] = E], c)
         IN  /\ Typed(r) /\ Consistent(r)
             /\ \A d \in Channels : HasChannel(p, d) => HasChannel(r, d)
<1> DEFINE q == [p EXCEPT !.events[c] = E]
<1>1. /\ Typed(q) /\ q.fd = p.fd /\ q.pollfds = p.pollfds
      /\ q.channels = p.channels /\ q.index = p.index
      /\ q.events = [p.events EXCEPT ![c] = E]
  BY EventsSet
<1> HIDE DEF q
<1>2. \A d \in Channels : d # c => q.events[d] = p.events[d]
  BY <1>1 DEF Typed
<1>3. CASE p.index[c] < 0
  <2>1. p.fd[c] \notin DOMAIN p.channels
    BY <1>3 DEF MayUpdate
  <2>2. UpdateChannel(q, c) = AppendChannel(q, c)
    BY <1>1, <1>3 DEF UpdateChannel
  <2>3. LET r == AppendChannel(q, c)
        IN  /\ Typed(r) /\ Consistent(r)
            /\ \A d \in Channels : HasChannel(p, d) => HasChannel(r, d)
    BY <1>1, <1>2, <2>1, AppendKeeps, Zenon
  <2> QED
    BY <2>2, <2>3 DEF q
<1>4. CASE ~(p.index[c] < 0)
  <2>1. HasChannel(p, c)
    BY <1>4 DEF Consistent
  <2>2. UpdateChannel(q, c) = RefreshChannel(q, c)
    BY <1>1, <1>4 DEF UpdateChannel
  <2>3. LET r == RefreshChannel(q, c)
        IN  /\ Typed(r) /\ Consistent(r)
            /\ \A d \in Channels : HasChannel(p, d) => HasChannel(r, d)
    BY <1>1, <1>2, <2>1, RefreshKeeps, Zenon
  <2> QED
    BY <2>2, <2>3 DEF q
<1> QED
  BY <1>3, <1>4

\* FillActiveChannels finds a registered channel for every entry with a report, the
\* one whose entry it is, and no channel twice.
LEMMA FiredRegistered ==
  ASSUME NEW p, Typed(p), Consistent(p), NEW R,
         NEW report \in [1..Len(p.pollfds) -> R],
         \A i \in DOMAIN report : report[i] \in Reports(p.pollfds[i]),
         NEW slots \in Fired(report)
  PROVE  LET list == FillActiveChannels(p, slots)
         IN  /\ list \in Seq(Channels)
             /\ \A j \in 1..Len(list) :
                  /\ HasChannel(p, list[j])
                  /\ p.index[list[j]] + 1 \in 1..Len(p.pollfds)
                  /\ report[p.index[list[j]] + 1] # {}
             /\ \A j, k \in 1..Len(list) : list[j] = list[k] => j = k
<1> DEFINE list == FillActiveChannels(p, slots)
           ready == {i \in DOMAIN report : report[i] # {}}
<1>1. PICK n \in 0..Len(report) : slots \in [1..n -> ready]
  BY Zenon DEF Fired
<1>2. ASSUME NEW j \in 1..n
      PROVE  /\ list[j] \in Channels /\ HasChannel(p, list[j])
             /\ slots[j] \in 1..Len(p.pollfds) /\ report[slots[j]] # {}
             /\ p.index[list[j]] + 1 = slots[j]
  <2> DEFINE i == slots[j]
  <2>1. i \in 1..Len(p.pollfds) /\ report[i] # {}
    BY <1>1, <1>2, Zenon
  <2>2. list[j] = p.channels[p.pollfds[i].fd]
    BY <1>1, <1>2 DEF FillActiveChannels
  <2> HIDE DEF i, list
  <2>3. ~(p.pollfds[i].fd < 0)
    BY <2>1 DEF Reports
  <2>4. PICK c \in Channels : HasChannel(p, c) /\ p.index[c] = i - 1
    BY <2>1 DEF Consistent
  <2>5. Right(p, c, p.pollfds[i])
    BY <2>1, <2>4 DEF Consistent
  <2>6. p.pollfds[i].fd = p.fd[c]
    BY <2>3, <2>5 DEF Right, Stored
  <2>7. list[j] = c
    BY <2>2, <2>4, <2>6 DEF HasChannel
  <2>8. p.index[c] + 1 = i
    BY <2>1, <2>4
  <2> QED
    BY <2>1, <2>4, <2>7, <2>8 DEF i
<1>3. n \in Nat
  <2>1. Len(p.pollfds) \in Nat
    BY DEF Typed
  <2>2. Len(report) = Len(p.pollfds)
    BY <2>1
  <2> QED
    BY <2>1, <2>2
<1>4. list = [j \in 1..n |-> list[j]]
  BY <1>1 DEF FillActiveChannels
<1> HIDE DEF list
<1>5. list \in [1..n -> Channels]
  BY <1>2, <1>4
<1>6. list \in Seq(Channels) /\ 1..Len(list) = 1..n
  BY <1>3, <1>5
<1>7. ASSUME NEW j \in 1..n, NEW k \in 1..n, list[j] = list[k]
      PROVE  j = k
  <2>1. \A l, m \in 1..n : l < m => slots[l] < slots[m]
    BY <1>1 DEF Fired
  <2>2. slots[j] = slots[k] /\ slots[j] \in Int
    BY <1>2, <1>7
  <2> QED
    BY <1>3, <2>1, <2>2
<1>8. ASSUME NEW j \in 1..n
      PROVE  /\ HasChannel(p, list[j])
             /\ p.index[list[j]] + 1 \in 1..Len(p.pollfds)
             /\ report[p.index[list[j]] + 1] # {}
  BY <1>2, <1>8, Zenon
<1> QED
  BY <1>6, <1>7, <1>8, Zenon DEF list

-----------------------------------------------------------------------------
(* The loop. *)

LEMMA InitOK == Init => IInv
<1> SUFFICES ASSUME Init PROVE IInv
  OBVIOUS
<1>1. PICK w \in Worlds : poller = EmptyPoller(w.fd)
  BY DEF Init
<1>2. w.fd \in [Channels -> Nat]
  BY WorldAssumption
<1>3. /\ poller.fd = w.fd /\ poller.pollfds = << >> /\ poller.channels = << >>
      /\ poller.events = [c \in Channels |-> {}] /\ poller.index = [c \in Channels |-> -1]
      /\ poller = [fd |-> poller.fd, pollfds |-> poller.pollfds, channels |-> poller.channels,
                   events |-> poller.events, index |-> poller.index]
  BY <1>1 DEF EmptyPoller
<1>4. Typed(poller)
  BY <1>2, <1>3 DEF Typed
<1>5. Consistent(poller)
  BY <1>3 DEF Consistent, HasChannel
<1> QED
  BY <1>4, <1>5 DEF IInv, LoopOK, Init

\* The calls of a channel that reach UpdateChannel.
LEMMA UpdateStep ==
  ASSUME IInv, NEW c \in Channels,
         \/ EnableReading(c) \/ DisableReading(c)
         \/ EnableWriting(c) \/ DisableWriting(c) \/ DisableAll(c)
  PROVE  /\ UNCHANGED <<active, at, pc>>
         /\ Typed(poller') /\ Consistent(poller')
<1>0. poller.events[c] \in SUBSET Events
  BY DEF IInv, Typed
<1>1. PICK E \in SUBSET Events : Update(c, E)
  BY <1>0 DEF EnableReading, DisableReading, EnableWriting, DisableWriting, DisableAll,
              Enabled, Disabled, kReadEvent, kWriteEvent, Events
<1>2. MayUpdate(poller, c) /\ Typed(poller) /\ Consistent(poller)
  BY <1>1 DEF Update, IInv
<1> QED
  BY <1>1, <1>2, UpdateKeeps, Zenon DEF Update

LEMMA RemoveStep ==
  ASSUME IInv, NEW c \in Channels, Remove(c)
  PROVE  /\ UNCHANGED <<active, at, pc>>
         /\ Typed(poller') /\ Consistent(poller')
BY RemoveKeeps DEF Remove, IInv

LEMMA PollStep ==
  ASSUME IInv, Poll
  PROVE  /\ active' \in Seq(Channels)
         /\ \A j \in 1..Len(active') :
              /\ HasChannel(poller, active'[j])
              /\ \A k \in 1..Len(active') : active'[k] = active'[j] => k = j
              /\ revents'[active'[j]] # {}
              /\ revents'[active'[j]] \subseteq poller.events[active'[j]] \cup {"hup", "err"}
<1>1. PICK report \in [1..Len(poller.pollfds) -> SUBSET kinds] :
        /\ \A i \in DOMAIN report : report[i] \in Reports(poller.pollfds[i])
        /\ \E slots \in Fired(report) : active' = FillActiveChannels(poller, slots)
        /\ revents' = Reported(poller, report)
  BY DEF Poll
<1>2. PICK slots \in Fired(report) : active' = FillActiveChannels(poller, slots)
  BY <1>1
<1>3. /\ active' \in Seq(Channels)
      /\ \A j \in 1..Len(active') :
           /\ HasChannel(poller, active'[j])
           /\ poller.index[active'[j]] + 1 \in 1..Len(poller.pollfds)
           /\ report[poller.index[active'[j]] + 1] # {}
      /\ \A j, k \in 1..Len(active') : active'[j] = active'[k] => j = k
  <2> DEFINE list == FillActiveChannels(poller, slots)
  <2>1. Typed(poller) /\ Consistent(poller)
    BY DEF IInv
  <2>2. /\ list \in Seq(Channels)
        /\ \A j \in 1..Len(list) :
             /\ HasChannel(poller, list[j])
             /\ poller.index[list[j]] + 1 \in 1..Len(poller.pollfds)
             /\ report[poller.index[list[j]] + 1] # {}
        /\ \A j, k \in 1..Len(list) : list[j] = list[k] => j = k
    BY <1>1, <2>1, FiredRegistered, Zenon
  <2> HIDE DEF list
  <2>3. active' = list
    BY <1>2, Zenon DEF list
  <2> QED
    BY <2>2, <2>3, Zenon
<1>4. ASSUME NEW j \in 1..Len(active')
      PROVE  /\ revents'[active'[j]] # {}
             /\ revents'[active'[j]] \subseteq poller.events[active'[j]] \cup {"hup", "err"}
  <2> DEFINE c == active'[j]
             i == poller.index[c] + 1
  <2>1. c \in Channels /\ HasChannel(poller, c)
    BY <1>3
  <2>2. i \in DOMAIN report /\ report[i] # {} /\ report[i] \in Reports(poller.pollfds[i])
    BY <1>1, <1>3
  <2>3. poller.pollfds[i].events = poller.events[c]
    BY <2>1 DEF IInv, Consistent, Right
  <2>4. revents'[c] = report[i]
    BY <1>1, <2>1 DEF Reported
  <2> HIDE DEF c, i
  <2>5. report[i] \subseteq poller.events[c] \cup {"hup", "err"}
    BY <2>2, <2>3 DEF Reports
  <2> QED
    BY <2>2, <2>4, <2>5 DEF c
<1> QED
  BY <1>3, <1>4, Zenon

LEMMA NextOK == IInv /\ [Next]_vars => IInv'
<1> SUFFICES ASSUME IInv, [Next]_vars PROVE IInv'
  OBVIOUS
<1>0. /\ Typed(poller) /\ Consistent(poller)
      /\ active \in Seq(Channels) /\ at \in 0..Len(active)
  BY DEF IInv, LoopOK
<1>1. ASSUME NEW c \in Channels,
             \/ EnableReading(c) \/ DisableReading(c)
             \/ EnableWriting(c) \/ DisableWriting(c) \/ DisableAll(c)
      PROVE  IInv'
  BY <1>1, UpdateStep, Zenon DEF IInv, LoopOK, Typed, Consistent, Right, HasChannel
<1>2. ASSUME NEW c \in Channels, Remove(c)
      PROVE  IInv'
  BY <1>2, RemoveStep, Zenon DEF IInv, LoopOK, Typed, Consistent, Right, HasChannel
<1>3. CASE Poll
  <2>1. active' \in Seq(Channels) /\ at' = 0 /\ pc' = "handle" /\ poller' = poller
    <3>1. active' \in Seq(Channels)
      BY <1>3, PollStep, Zenon
    <3> QED
      BY <1>3, <3>1, Zenon DEF Poll
  <2>2. at' \in 0..Len(active')
    BY <2>1
  <2> QED
    BY <2>1, <2>2, <1>0, Zenon DEF IInv, LoopOK, Typed, Consistent, Right, HasChannel
<1>4. CASE Quit \/ Loop \/ HandleEvent \/ CallbackEnds \/ RoundEnds \/ UNCHANGED vars
  <2>1. poller' = poller /\ active' = active /\ at' \in 0..Len(active)
    BY <1>0, <1>4 DEF Quit, Loop, HandleEvent, CallbackEnds, RoundEnds, vars
  <2>2. pc' \in {"out", "poll", "handle", "callback"} 
    BY <1>0, <1>4 DEF IInv, LoopOK, Quit, Loop, HandleEvent, CallbackEnds,
                      RoundEnds, NextRound, vars
  <2> QED
    BY <1>0, <2>1, <2>2 DEF IInv, LoopOK, Typed, Consistent, Right, HasChannel
<1> QED
  BY <1>1, <1>2, <1>3, <1>4 DEF Next, Run

\* The inductive invariant: the poller and its channels agree, and the loop's
\* position is within the list of the round.
THEOREM Invariance == Spec => []IInv
BY InitOK, NextOK, PTL DEF Spec

\* After any calls, of callbacks too, the poller's array, its map and the indexes of
\* its channels agree, so the asserts of UpdateChannel, RemoveChannel and
\* FillActiveChannels cannot fail.
THEOREM SlotsAgree == Spec => []SlotsConsistent
<1>1. IInv => SlotsConsistent
  <2> SUFFICES ASSUME Typed(poller), Consistent(poller) PROVE SlotsConsistent
    BY DEF IInv
  <2>1. DOMAIN poller.pollfds = 1..Len(poller.pollfds)
    BY DEF Typed
  <2> QED
    BY <2>1 DEF Consistent, Right, SlotsConsistent
<1> QED
  BY <1>1, Invariance, PTL

\* After any calls, of callbacks too, what Poll returns goes to the channels that asked
\* for it: each active channel is registered, listed once, and gets events it asks for
\* or POLLHUP or POLLERR.
THEOREM OnlyAskersReported == Spec => ReportsAsked
<1>1. ASSUME IInv, Poll
      PROVE  \A i \in DOMAIN active' :
               LET ch == active'[i]
               IN  /\ HasChannel(poller, ch)
                   /\ \A j \in DOMAIN active' : active'[j] = ch => j = i
                   /\ revents'[ch] # {}
                   /\ revents'[ch] \subseteq poller.events[ch] \cup {"hup", "err"}
  <2>1. active' \in Seq(Channels)
    BY <1>1, PollStep
  <2>2. DOMAIN active' = 1..Len(active')
    BY <2>1
  <2> QED
    BY <1>1, <2>2, PollStep, Zenon
<1> QED
  BY <1>1, Invariance, PTL DEF Spec, ReportsAsked
=============================================================================
