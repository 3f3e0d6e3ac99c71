----------------------------- MODULE EventLoop -----------------------------
(***************************************************************************)
(* src/Io/EventLoop and Channel::HandleEvent: the loop that polls and runs *)
(* the callbacks of the channels that fired.  All of it runs in one thread;*)
(* what can go wrong is what a callback does to the loop it runs in: it    *)
(* may change, remove and add channels, those the round has still to       *)
(* handle too, and ask the loop to quit.                                   *)
(***************************************************************************)
EXTENDS Poller

CONSTANT Worlds   \* bound: what surrounds the loop, each [fd, kinds]: the descriptor
                  \* of each channel, which channels may share in turn, and the
                  \* reports ::poll makes, of "in", "out", "hup" and "err"

ASSUME WorldAssumption == \A w \in Worlds : w.fd \in [Channels -> Nat]

VARIABLES
  kinds,      \* the reports ::poll makes
  poller,     \* poller_ and the channels' fields it keeps
  revents,    \* revents_ of each channel reported and not handled yet
  active,     \* active_channels_
  at,         \* how many of them HandleEvent has been called on
  todo,       \* callbacks of the current channel still to run
  pc,         \* "out" of Loop, "poll", "handle" or in a "callback"
  quit        \* quit_

vars == <<kinds, poller, revents, active, at, todo, pc, quit>>

Init ==
  /\ \E w \in Worlds : kinds = w.kinds /\ poller = EmptyPoller(w.fd)
  /\ revents = [c \in Channels |-> {}]
  /\ active = << >> /\ at = 0 /\ todo = << >>
  /\ pc = "out"
  /\ quit = FALSE

-----------------------------------------------------------------------------
\* What the program does with channels, before and after Loop or in a callback.

UserCode == pc \in {"out", "callback"}

\* EnableReading, DisableReading, EnableWriting, DisableWriting, DisableAll.
Enabled(c, E) == poller.events[c] \cup E
Disabled(c, E) == poller.events[c] \ E

Update(c, E) ==
  /\ UserCode /\ MayUpdate(poller, c)
  /\ poller' = UpdateChannel([poller EXCEPT !.events[c] = E], c)
  /\ UNCHANGED <<kinds, revents, active, at, todo, pc, quit>>

EnableReading(c) == Update(c, Enabled(c, kReadEvent))
DisableReading(c) == Update(c, Disabled(c, kReadEvent))
EnableWriting(c) == Update(c, Enabled(c, kWriteEvent))
DisableWriting(c) == Update(c, Disabled(c, kWriteEvent))
DisableAll(c) == Update(c, {})

\* active_channels_ stays as it is: a channel that waits for its turn when a callback
\* removes it is handled all the same.
Remove(c) ==
  /\ UserCode /\ HasChannel(poller, c)
  /\ poller' = RemoveChannel(poller, c)
  /\ UNCHANGED <<kinds, revents, active, at, todo, pc, quit>>

Quit ==
  /\ UserCode
  /\ quit' = TRUE
  /\ UNCHANGED <<kinds, poller, revents, active, at, todo, pc>>

-----------------------------------------------------------------------------
\* Loop.

Loop ==
  /\ pc = "out"
  /\ quit' = FALSE
  /\ pc' = "poll"
  /\ UNCHANGED <<kinds, poller, revents, active, at, todo>>

\* A faulty variant: the list of the round before is not cleared.
PollMutant ==
  /\ pc = "poll"
  /\ \E report \in [1..Len(poller.pollfds) -> SUBSET kinds] :
       /\ \A i \in DOMAIN report : report[i] \in Reports(poller.pollfds[i])
       /\ \E slots \in Fired(report) : active' = active \o FillActiveChannels(poller, slots)
       /\ revents' = Reported(poller, report)
  /\ at' = 0
  /\ pc' = "handle"
  /\ UNCHANGED <<kinds, poller, todo, quit>>

\* Poll, with nothing ready when it times out or is interrupted.
Poll ==
  /\ pc = "poll"
  /\ \E report \in [1..Len(poller.pollfds) -> SUBSET kinds] :
       /\ \A i \in DOMAIN report : report[i] \in Reports(poller.pollfds[i])
       /\ \E slots \in Fired(report) : active' = FillActiveChannels(poller, slots)
       /\ revents' = Reported(poller, report)
  /\ at' = 0
  /\ pc' = "handle"
  /\ UNCHANGED <<kinds, poller, todo, quit>>

\* The callbacks of HandleEvent, in the order it tests for them.
Callbacks(r) ==
  SelectSeq(<< "close", "error", "read", "write" >>,
            LAMBDA k : CASE k = "close" -> "hup" \in r /\ "in" \notin r
                         [] k = "error" -> "err" \in r
                         [] k = "read" -> "in" \in r
                         [] k = "write" -> "out" \in r)

HandleEvent ==
  /\ pc = "handle" /\ at < Len(active)
  /\ at' = at + 1
  /\ todo' = Callbacks(revents[active[at + 1]])
  /\ revents' = [revents EXCEPT ![active[at + 1]] = {}]
  /\ pc' = IF todo' # << >> THEN "callback" ELSE "handle"
  /\ UNCHANGED <<kinds, poller, active, quit>>

CallbackEnds ==
  /\ pc = "callback"
  /\ todo' = Tail(todo)
  /\ pc' = IF todo' # << >> THEN "callback" ELSE "handle"
  /\ UNCHANGED <<kinds, poller, revents, active, at, quit>>

\* A faulty variant: only a round without events ends the loop.
NextRoundMutant == IF quit /\ active = << >> THEN "out" ELSE "poll"
NextRound == IF quit THEN "out" ELSE "poll"

RoundEnds ==
  /\ pc = "handle" /\ at = Len(active)
  /\ pc' = NextRound
  /\ UNCHANGED <<kinds, poller, revents, active, at, todo, quit>>

Run == Poll \/ HandleEvent \/ CallbackEnds \/ RoundEnds

Next ==
  \/ \E c \in Channels :
       \/ EnableReading(c) \/ DisableReading(c)
       \/ EnableWriting(c) \/ DisableWriting(c)
       \/ DisableAll(c) \/ Remove(c)
  \/ Quit
  \/ Loop
  \/ Run

Spec == Init /\ [][Next]_vars
\* ::poll returns after ten seconds at the latest, and callbacks return.
FairSpec == Spec /\ WF_vars(Run)

-----------------------------------------------------------------------------
\* After any calls, of callbacks too, the array, the map and the channels agree:
\* each registered channel has the entry its index names, entries and registered
\* channels are as many, and the assert of FillActiveChannels cannot fail.  So
\* ::poll watches what the channels ask for (UpdateChannel): an entry has its
\* channel's events, and one whose channel asks for some is not ignored.
SlotsConsistent ==
  /\ \A c \in Channels :
       IF HasChannel(poller, c)
       THEN /\ poller.index[c] \in 0..(Len(poller.pollfds) - 1)
            /\ LET entry == poller.pollfds[poller.index[c] + 1]
               IN  /\ Stored(entry.fd) = poller.fd[c]
                   /\ entry.events = poller.events[c]
                   /\ poller.events[c] # {} => entry.fd = poller.fd[c]
       ELSE poller.index[c] = -1
  /\ \A i \in DOMAIN poller.pollfds : \E c \in Channels :
       HasChannel(poller, c) /\ poller.index[c] = i - 1

\* What Poll returns goes to the channels that asked for it (FillActiveChannels),
\* whatever the callbacks of earlier rounds changed, removed, added and moved in the
\* array: each active channel is registered and listed once, so that HandleEvent
\* runs once for it in the round, and its revents are some event it asks for or
\* POLLHUP or POLLERR.
ReportsAsked ==
  [][Poll => \A i \in DOMAIN active' :
               LET ch == active'[i]
               IN  /\ HasChannel(poller, ch)
                   /\ \A j \in DOMAIN active' : active'[j] = ch => j = i
                   /\ revents'[ch] # {}
                   /\ revents'[ch] \subseteq poller.events[ch] \cup {"hup", "err"}]_vars

\* Quit called in a callback ends the loop, whatever callbacks still run.
QuitStops == (quit /\ pc # "out") ~> (pc = "out")
=============================================================================
