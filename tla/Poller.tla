------------------------------- MODULE Poller -------------------------------
(***************************************************************************)
(* src/Io/Poller and the part of src/Io/Channel it keeps: the array handed *)
(* to ::poll, the channels by descriptor and, in each channel, the events  *)
(* it asks for and the place of its entry in the array.                    *)
(*                                                                         *)
(* A poller p is [fd, pollfds, channels, events, index]; fd, events and    *)
(* index are the channels' fields, pollfds is a sequence of [fd, events],  *)
(* channels a partial function; index counts from 0 and is -1 for a        *)
(* channel not registered.  The revents of an entry are what ::poll writes*)
(* before each use of them, so they are no state.                          *)
(***************************************************************************)
EXTENDS Integers, Sequences

CONSTANT Channels

\* The bits of a pollfd: POLLIN stands for POLLPRI too, "err" for POLLNVAL too.
kReadEvent == {"in"}
kWriteEvent == {"out"}

EmptyPoller(fd) ==
  [fd |-> fd, pollfds |-> << >>, channels |-> << >>,
   events |-> [c \in Channels |-> {}], index |-> [c \in Channels |-> -1]]

HasChannel(p, c) == p.fd[c] \in DOMAIN p.channels /\ p.channels[p.fd[c]] = c

\* How a descriptor is stored so that ::poll ignores it, and back.
Negated(fd) == -fd - 1
Stored(fd) == IF fd < 0 THEN Negated(fd) ELSE fd

AppendChannel(p, c) ==
  [fd |-> p.fd,
   pollfds |-> Append(p.pollfds, [fd |-> p.fd[c], events |-> p.events[c]]),
   channels |-> [f \in DOMAIN p.channels \cup {p.fd[c]} |->
                   IF f = p.fd[c] THEN c ELSE p.channels[f]],
   events |-> p.events,
   index |-> [p.index EXCEPT ![c] = Len(p.pollfds)]]

RefreshChannel(p, c) ==
  LET i == p.index[c] + 1
  IN  [p EXCEPT !.pollfds[i] =
         [fd |-> IF p.events[c] = {} THEN Negated(p.fd[c]) ELSE p.fd[c], events |-> p.events[c]]]

\* The asserts of UpdateChannel: a new channel's descriptor is free.
MayUpdate(p, c) == p.index[c] < 0 => p.fd[c] \notin DOMAIN p.channels

UpdateChannel(p, c) == IF p.index[c] < 0 THEN AppendChannel(p, c) ELSE RefreshChannel(p, c)

\* A faulty variant: the moved entry's descriptor is taken as it is stored.
RemoveChannelMutant(p, c) ==
  LET i == p.index[c] + 1
      last == Len(p.pollfds)
      fd == p.pollfds[last].fd
      moved == IF fd \in DOMAIN p.channels THEN p.channels[fd] ELSE c
  IN  [fd |-> p.fd,
       pollfds |-> SubSeq([p.pollfds EXCEPT ![i] = p.pollfds[last]], 1, last - 1),
       channels |-> [f \in DOMAIN p.channels \ {p.fd[c]} |-> p.channels[f]],
       events |-> p.events,
       index |-> [p.index EXCEPT ![moved] = i - 1, ![c] = -1]]

\* The entry is overwritten by the last one, whose channel learns its new place.
RemoveChannel(p, c) ==
  LET i == p.index[c] + 1
      last == Len(p.pollfds)
      moved == p.channels[Stored(p.pollfds[last].fd)]
  IN  [fd |-> p.fd,
       pollfds |-> SubSeq([p.pollfds EXCEPT ![i] = p.pollfds[last]], 1, last - 1),
       channels |-> [f \in DOMAIN p.channels \ {p.fd[c]} |-> p.channels[f]],
       events |-> p.events,
       index |-> [p.index EXCEPT ![moved] = i - 1, ![c] = -1]]

-----------------------------------------------------------------------------
\* ::poll: what it may report of an entry, whatever the descriptors do.
Reports(entry) == IF entry.fd < 0 THEN { {} } ELSE SUBSET (entry.events \cup {"hup", "err"})

\* The entries with a report in the order of the array: the one list of them that
\* ascends.
Fired(report) ==
  LET ready == {i \in DOMAIN report : report[i] # {}}
  IN  {slots \in UNION {[1..n -> ready] : n \in 0..Len(report)} :
         /\ \A i, j \in DOMAIN slots : i < j => slots[i] < slots[j]
         /\ \A r \in ready : \E i \in DOMAIN slots : slots[i] = r}

\* FillActiveChannels: the channels of those entries.
FillActiveChannels(p, slots) == [j \in DOMAIN slots |-> p.channels[p.pollfds[slots[j]].fd]]

\* The revents they get.
Reported(p, report) ==
  [c \in Channels |-> IF HasChannel(p, c) THEN report[p.index[c] + 1] ELSE {}]
=============================================================================
