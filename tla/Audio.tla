------------------------------- MODULE Audio --------------------------------
(***************************************************************************)
(* spiceqxl_audio.c: XSpice plays what applications write into the fifos   *)
(* of a directory.  A watch of the directory finds new fifos; each open    *)
(* one has a ring buffer, which is filled when its watch or the wall timer *)
(* says so and mixed into the buffers of the spice server, at most         *)
(* FeedAhead ahead of what time has played.                                *)
(*                                                                         *)
(* Data is counted in periods; a sample is its number in its fifo, modulo  *)
(* Numbers.  Everything here runs in the X server's one thread; writers    *)
(* and the clock come in between.                                          *)
(***************************************************************************)
EXTENDS Integers, Sequences, SequencesExt, FiniteSets, FiniteSetsExt

CONSTANTS
  Pipes,          \* the fifos applications create
  MaxFifos,       \* MAX_FIFOS
  Size,           \* READ_BUFFER_PERIODS
  FeedAhead,      \* FEED_BUFFER_PERIODS
  Cells,          \* the room for inotify's events, in halves of an event
  Together,       \* can a fifo be created before the one before it was found
  PipeRoom        \* bound: the periods a pipe holds

NoFd == "none"

ASSUME AudioAssumption ==
  /\ {MaxFifos, Size, FeedAhead, PipeRoom} \subseteq Nat \ {0}
  /\ Cells \in Nat /\ Cells >= 2
  /\ NoFd \notin Pipes

Slots == 1..MaxFifos
Numbers == Size

VARIABLES
  pipe,           \* the fifos: who has them open, and how much is in them
  events,         \* what inotify has to tell
  buf, offset,    \* the driver's buffer of events
  at,             \* "idle", or how far a callback of the driver is
  opened,         \* the fifos that were opened or found no room
  fifos, fifo_count, closed_fifos,
  active, spice_buffer, wall_timer_type,
  maxlen,         \* what the loop of process_fifos still has to do
  ahead           \* fed_through_time, from now on

directory == <<events, buf, offset, at, opened>>
data == <<fifos, fifo_count, closed_fifos, active, spice_buffer, wall_timer_type, ahead, maxlen>>
audiovars == <<pipe, directory, data>>

NoPipe == [state |-> "absent", room |-> PipeRoom, sent |-> 0]

Unused == [fd |-> NoFd, len |-> 0, add_to |-> 0, watch |-> FALSE,
           buffer |-> [i \in 0..Size - 1 |-> 0]]

(* A cell of the buffer of events: half an event, or nothing yet.          *)
Blank == [half |-> "none"]
Header(p) == [half |-> "header", of |-> p]
Name(p) == [half |-> "name", of |-> p]

AudioInit ==
  /\ pipe = [p \in Pipes |-> NoPipe]
  /\ events = <<>>
  /\ buf = [i \in 1..Cells |-> Blank] /\ offset = 0
  /\ at = "idle"
  /\ opened = {}
  /\ fifos = [i \in Slots |-> Unused]
  /\ fifo_count = 0 /\ closed_fifos = 0
  /\ active = FALSE /\ spice_buffer = FALSE
  /\ wall_timer_type = "none"
  /\ ahead = 0 /\ maxlen = 0

-----------------------------------------------------------------------------
(* The applications and the clock.                                         *)
Becomes(p, was, now) ==
  /\ pipe[p].state = was
  /\ pipe' = [pipe EXCEPT ![p].state = now]

Create(p) ==
  /\ Together \/ (at = "idle" /\ events = <<>>)
  /\ Becomes(p, "absent", "made")
  /\ events' = Append(events, p)
  /\ UNCHANGED <<buf, offset, at, opened, data>>

Unread(p) == PipeRoom - pipe[p].room

Writes(p) ==
  /\ \/ Becomes(p, "made", "written") \/ Becomes(p, "written", "left")
     \/ /\ pipe[p].state = "written" /\ pipe[p].room > 0
        /\ pipe' = [pipe EXCEPT ![p].room = @ - 1]
  /\ UNCHANGED <<directory, data>>

(* The name is removed once the driver has no use for it, and may come     *)
(* back.  A bound: only with a number of samples that starts over at 0.    *)
Removed(p) ==
  /\ pipe[p] = [NoPipe EXCEPT !.state = "left"]
  /\ p \in opened /\ \A i \in Slots : fifos[i].fd # p
  /\ pipe' = [pipe EXCEPT ![p] = NoPipe]
  /\ opened' = opened \ {p}
  /\ UNCHANGED <<events, buf, offset, at, data>>

Plays == /\ ahead > 0 /\ ahead' = ahead - 1
         /\ UNCHANGED <<pipe, directory, fifos, fifo_count, closed_fifos, active,
                        spice_buffer, wall_timer_type, maxlen>>

-----------------------------------------------------------------------------
(* A fifo's ring buffer.                                                   *)
Least(a, b) == IF a < b THEN a ELSE b

(* fifo_data_added, with the n samples that were read.                     *)
Added(f, n, first) ==
  [f EXCEPT !.add_to = (@ + n) % Size,
            !.len = @ + n,
            !.buffer = [i \in DOMAIN @ |->
               IF i - f.add_to \in 0..n - 1 THEN (first + i - f.add_to) % Numbers ELSE @[i]]]

(* fifo_read, with what the pipe holds: how much the two reads get, and    *)
(* what the last of them returns.                                          *)
FirstLen(f) == Least(Size - f.len, Size - f.add_to)

ReadTwice(f, holds) == holds >= FirstLen(f) /\ Size - f.len > FirstLen(f)

Got(f, holds) == Least(holds, IF ReadTwice(f, holds) THEN Size - f.len ELSE FirstLen(f))

LastRead(f, holds) ==
  IF ReadTwice(f, holds) THEN Got(f, holds) - FirstLen(f) ELSE Got(f, holds)

Filled(f, holds, first) ==
  LET n == Least(holds, FirstLen(f)) IN
  IF ReadTwice(f, holds)
  THEN Added(Added(f, n, first), Got(f, holds) - n, first + n)
  ELSE Added(f, n, first)

(* fifo_remove_data: the samples it copies, of which the first is where    *)
(* remove_from says, and those after the wrap come from the start.         *)
RemoveFrom_Mutant(f) ==                         \* slip: as if it never wrapped
  IF f.add_to >= f.len THEN f.add_to - f.len ELSE 0

RemoveFrom(f) == IF f.add_to >= f.len THEN f.add_to - f.len ELSE f.add_to + Size - f.len

Copied(f, n) ==
  LET remain == Size - RemoveFrom(f) IN
  [i \in 1..n |-> f.buffer[IF i <= remain THEN RemoveFrom(f) + i - 1 ELSE i - remain - 1]]

(* What was taken counts as 0 from then on: nobody reads it again.         *)
Taken(f, n) ==
  [f EXCEPT !.len = @ - n,
            !.buffer = [i \in DOMAIN @ |->
               IF (i + Size - RemoveFrom(f)) % Size < n THEN 0 ELSE @[i]]]

-----------------------------------------------------------------------------
(* process_fifos: a round of its loop.  The spice server's buffers hold a  *)
(* period; when it gives none, there being no client, as much as a fifo    *)
(* holds is dropped.                                                       *)
Bytes(held) == IF held THEN 1 ELSE Size

MixInFifos(bytes) ==
  fifos' = [i \in Slots |->
              IF i <= fifo_count THEN Taken(fifos[i], Least(bytes, fifos[i].len)) ELSE fifos[i]]

Feeding == at = "processing" /\ maxlen > 0

Process_Mutant ==                               \* slip: no timer for the rest
  /\ Feeding
  /\ \E held \in IF spice_buffer THEN {TRUE} ELSE BOOLEAN :
     IF ahead < FeedAhead
     THEN /\ MixInFifos(Bytes(held))
          /\ ahead' = ahead + Bytes(held)
          /\ maxlen' = maxlen - Bytes(held)
          /\ spice_buffer' = FALSE
          /\ UNCHANGED at
     ELSE /\ spice_buffer' = held
          /\ maxlen' = 0 /\ at' = "idle"
          /\ UNCHANGED <<ahead, fifos>>
  /\ UNCHANGED <<pipe, events, buf, offset, opened, fifo_count, closed_fifos, active,
                 wall_timer_type>>

Process ==
  /\ Feeding
  /\ \E held \in IF spice_buffer THEN {TRUE} ELSE BOOLEAN :
     IF ahead < FeedAhead
     THEN /\ MixInFifos(Bytes(held))
          /\ ahead' = ahead + Bytes(held)
          /\ maxlen' = maxlen - Bytes(held)
          /\ spice_buffer' = FALSE
          /\ UNCHANGED <<at, wall_timer_type>>
     ELSE /\ spice_buffer' = held
          /\ wall_timer_type' = "period"
          /\ maxlen' = 0 /\ at' = "idle"
          /\ UNCHANGED <<ahead, fifos>>
  /\ UNCHANGED <<pipe, events, buf, offset, opened, fifo_count, closed_fifos, active>>

-----------------------------------------------------------------------------
(* read_from_fifos.  A pipe without a writer reads as its end.             *)
Read(i) == i <= fifo_count /\ Size - fifos[i].len > 0 /\ fifos[i].fd # NoFd

(* What the slots up to i leave in the pipes, and what a slot that is read *)
(* finds in its own.                                                       *)
Left[i \in 0..MaxFifos] ==
  IF i = 0 THEN [p \in Pipes |-> Unread(p)]
  ELSE IF Read(i) THEN [Left[i - 1] EXCEPT ![fifos[i].fd] = @ - Got(fifos[i], @)]
  ELSE Left[i - 1]

Holds(i) == Left[i - 1][fifos[i].fd]

Ended(i) ==
  /\ Read(i) /\ pipe[fifos[i].fd].state # "written"
  /\ LastRead(fifos[i], Holds(i)) = 0

AfterRead(i) ==
  LET f == fifos[i]
      p == f.fd
      g == Filled(f, Holds(i), pipe[p].sent + Unread(p) - Holds(i))
  IN IF ~Read(i) THEN f
     ELSE IF Ended(i) THEN [g EXCEPT !.watch = FALSE, !.fd = NoFd]
     ELSE [g EXCEPT !.watch = @ /\ g.len < Size]

PipeAfterRead(p) ==
  LET n == Unread(p) - Left[MaxFifos][p]
  IN [pipe[p] EXCEPT !.room = @ + n, !.sent = (@ + n) % Numbers]

ReadFromFifos ==
  /\ at = "called"
  /\ fifos' = [i \in Slots |-> AfterRead(i)]
  /\ closed_fifos' = closed_fifos + Cardinality({i \in Slots : Ended(i)})
  /\ pipe' = [p \in Pipes |-> PipeAfterRead(p)]
  /\ maxlen' = Max({0} \union {fifos'[i].len : i \in 1..fifo_count})
  /\ active' = (active \/ maxlen' > 0)
  /\ wall_timer_type' = "none"
  /\ at' = IF closed_fifos' > 0 THEN "condensing" ELSE "processing"
  /\ UNCHANGED <<events, buf, offset, opened, fifo_count, spice_buffer, ahead>>

(* condense_fifos: the last fifo in use takes the slot of one that is      *)
(* closed and empty.                                                       *)
Dropped == {i \in 1..fifo_count : fifos[i].fd = NoFd /\ fifos[i].len = 0}

Condense_Mutant ==                              \* slip: copies, and swaps nothing
  /\ at = "condensing"
  /\ IF Dropped = {} \/ closed_fifos = 0
     THEN at' = "processing" /\ UNCHANGED <<fifos, fifo_count, closed_fifos>>
     ELSE /\ fifos' = [fifos EXCEPT ![Min(Dropped)] = fifos[fifo_count]]
          /\ fifo_count' = fifo_count - 1
          /\ closed_fifos' = closed_fifos - 1
          /\ UNCHANGED at
  /\ UNCHANGED <<pipe, events, buf, offset, opened, active, spice_buffer, wall_timer_type,
                 ahead, maxlen>>

Condense ==
  /\ at = "condensing"
  /\ IF Dropped = {} \/ closed_fifos = 0
     THEN at' = "processing" /\ UNCHANGED <<fifos, fifo_count, closed_fifos>>
     ELSE /\ fifos' = [fifos EXCEPT ![Min(Dropped)] = fifos[fifo_count],
                                   ![fifo_count] = fifos[Min(Dropped)]]
          /\ fifo_count' = fifo_count - 1
          /\ closed_fifos' = closed_fifos - 1
          /\ UNCHANGED at
  /\ UNCHANGED <<pipe, events, buf, offset, opened, active, spice_buffer, wall_timer_type,
                 ahead, maxlen>>

(* All that was read has been processed: start_watching.                   *)
StartWatching ==
  fifos' = [i \in Slots |->
     IF i > fifo_count \/ fifos[i].len = Size \/ fifos[i].fd = NoFd THEN fifos[i]
     ELSE [fifos[i] EXCEPT !.watch = TRUE]]

Processed ==
  /\ at = "processing" /\ maxlen <= 0
  /\ at' = "idle" /\ maxlen' = 0
  /\ IF fifo_count > 0
     THEN StartWatching /\ wall_timer_type' = "idle" /\ UNCHANGED active
     ELSE active' = FALSE /\ UNCHANGED <<fifos, wall_timer_type>>
  /\ UNCHANGED <<pipe, events, buf, offset, opened, fifo_count, closed_fifos, spice_buffer,
                 ahead>>

(* The watches: data, or the last writer has gone.                         *)
FifoReady(i) ==
  /\ fifos[i].watch
  /\ Unread(fifos[i].fd) > 0 \/ pipe[fifos[i].fd].state = "left"

Called ==
  /\ at = "idle" /\ at' = "called"
  /\ wall_timer_type' = "none"
  /\ UNCHANGED <<pipe, events, buf, offset, opened, fifos, fifo_count, closed_fifos, active,
                 spice_buffer, ahead, maxlen>>

FifoWatch == (\E i \in Slots : FifoReady(i)) /\ Called

WallTicker_Mutant ==                            \* slip: takes each for the idle one
  /\ at = "idle" /\ wall_timer_type # "none"
  /\ active' = FALSE /\ wall_timer_type' = "none"
  /\ UNCHANGED <<pipe, directory, fifos, fifo_count, closed_fifos, spice_buffer, ahead, maxlen>>

WallTicker ==
  /\ at = "idle" /\ wall_timer_type # "none"
  /\ IF wall_timer_type = "period" THEN Called
     ELSE /\ active' = FALSE /\ wall_timer_type' = "none"
          /\ UNCHANGED <<pipe, directory, fifos, fifo_count, closed_fifos, spice_buffer,
                         ahead, maxlen>>

-----------------------------------------------------------------------------
(* handle_one_change; what is not the header of an event is no creation,   *)
(* or of something that is not there.                                      *)
IsNew(e) == e.half = "header" /\ pipe[e.of].state # "absent"

HandleOneChange(e) ==
  IF IsNew(e) THEN
    /\ opened' = opened \union {e.of}
    /\ IF fifo_count = MaxFifos THEN UNCHANGED <<fifos, fifo_count>>
       ELSE /\ fifos' = [fifos EXCEPT ![fifo_count + 1].fd = e.of,
                                      ![fifo_count + 1].watch = TRUE]
            /\ fifo_count' = fifo_count + 1
  ELSE UNCHANGED <<opened, fifos, fifo_count>>

(* playback_dir_changed: a round of its loop.  The read gets as many       *)
(* events as fit, and one is handled.  An event that was read is two       *)
(* cells; zeros, or a name taken for an event, have no name: one cell.     *)
Cell(i) == IF i <= Cells THEN buf[i] ELSE Blank

EventLen(e) == IF e.half = "header" THEN 2 ELSE 1

(* What the memmove leaves: it takes what is after the end of the data.    *)
MovedDown(b, end, len) ==
  [i \in 1..Cells |-> IF i <= end - len /\ end + i <= Cells THEN b[end + i] ELSE b[i]]

PlaybackDirChanged ==
  /\ at = "reading" \/ (at = "idle" /\ events # <<>>)
  /\ LET n == Least(Len(events), (Cells - offset) \div 2)
         b == [i \in 1..Cells |->
                 IF i - offset \in 1..2 * n
                 THEN LET p == events[(i - offset + 1) \div 2]
                      IN IF (i - offset) % 2 = 1 THEN Header(p) ELSE Name(p)
                 ELSE buf[i]]
         end == offset + 2 * n
         len == EventLen(b[1])
     IN IF n = 0 THEN at' = "idle" /\ UNCHANGED <<events, buf, offset, opened, fifos, fifo_count>>
        ELSE /\ at' = "reading"
             /\ events' = SubSeq(events, n + 1, Len(events))
             /\ HandleOneChange(b[1])
             /\ buf' = IF end > len THEN MovedDown(b, end, len) ELSE b
             /\ offset' = end - len
  /\ UNCHANGED <<pipe, closed_fifos, active, spice_buffer, wall_timer_type, ahead, maxlen>>

-----------------------------------------------------------------------------
(* What comes while read_from_fifos works on what it has read might as     *)
(* well come after it, but for the clock.                                  *)
Outside ==
  /\ at \in {"idle", "reading"}
  /\ \E p \in Pipes : Create(p) \/ Writes(p) \/ Removed(p)

Goes == ReadFromFifos \/ Condense \/ Process \/ Processed

Driver == PlaybackDirChanged \/ FifoWatch \/ WallTicker \/ Goes

AudioNext == Outside \/ Plays \/ Driver

(* Time goes on, and X serves its watches and timers.                      *)
AudioFairness ==
  /\ WF_audiovars(Plays)
  /\ WF_audiovars(Goes \/ (at = "reading" /\ PlaybackDirChanged))
  /\ SF_audiovars(FifoWatch) /\ SF_audiovars(WallTicker)

AudioSpec == AudioInit /\ [][AudioNext]_audiovars /\ AudioFairness

-----------------------------------------------------------------------------
(* Properties.                                                             *)

(* The fifos in use come first, the others are empty and unwatched, and    *)
(* closed_fifos counts the closed ones, however fifos close, are dropped   *)
(* and swapped, and new ones take their slots.                             *)
CountsAgree ==
  /\ closed_fifos = Cardinality({i \in 1..fifo_count : fifos[i].fd = NoFd})
  /\ \A i \in Slots :
       /\ i > fifo_count => fifos[i].fd = NoFd /\ fifos[i].len = 0
       /\ fifos[i].fd = NoFd => ~fifos[i].watch

(* What a fifo's ring buffer will give to the spice server is what was     *)
(* written, in order and without a gap up to what its pipe still holds,    *)
(* wherever the ring wraps and however it is fed.                          *)
PlaysInOrder ==
  \A i \in 1..fifo_count :
    LET f == fifos[i]
        samples == Copied(f, f.len)
        last == IF f.fd = NoFd THEN samples[f.len] ELSE pipe[f.fd].sent - 1
    IN f.len > 0 => samples = [k \in 1..f.len |-> (last + Numbers + k - f.len) % Numbers]

(* While a fifo is open, something will read it: its watch or the timer;   *)
(* and a buffer of the spice server is not kept without the timer that     *)
(* gives it back.                                                          *)
NoneForgotten ==
  at \in {"idle", "reading"} =>
  /\ \A i \in 1..fifo_count :
       fifos[i].fd # NoFd \/ fifos[i].len > 0 => fifos[i].watch \/ wall_timer_type = "period"
  /\ spice_buffer => active /\ wall_timer_type = "period"

(* What is written to an open fifo is read.                                *)
Waiting(p) == Unread(p) > 0 /\ \E i \in Slots : fifos[i].fd = p

Heard == \A p \in Pipes : Waiting(p) ~> ~Waiting(p)

(* "reads from files (presumably fifos) in a configured directory"         *)
(* (spiceqxl_audio.c:24): when the driver has read all events, each fifo   *)
(* of the directory was opened, unless it found all slots taken.           *)
EveryFifoIsOpened ==
  at = "idle" /\ events = <<>> =>
    \A p \in Pipes : pipe[p].state # "absent" => p \in opened
=============================================================================
