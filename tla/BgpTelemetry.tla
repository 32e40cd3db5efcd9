---------------------------- MODULE BgpTelemetry ----------------------------
(***************************************************************************)
(* BGP history of a topology: the collector that polls the devices         *)
(* (observability/bgp_collector.py, bgp_parser.py), its spool of line      *)
(* protocol segments, the Telegraf process that tails it (external), and   *)
(* the query that turns the history into events by one of two ways         *)
(* (toolkit/_core/observability/bgp_ops.py).                               *)
(*                                                                         *)
(* Every device has one neighbour: sessions do not influence each other.   *)
(* A poll's lines are one batch: the heartbeat of the event index, the     *)
(* neighbour row unless the snapshot is sparse, the transition if the      *)
(* state changed.  All batches have the same size.  The state a device     *)
(* reports is chosen when its poll ends.  Time goes on with every poll     *)
(* that is launched: no two of them have the same time in nanoseconds.     *)
(***************************************************************************)
EXTENDS Naturals, Sequences, FiniteSets, FiniteSetsExt, SequencesExt

CONSTANTS
  Devices,      \* routing devices, each with one neighbour
  States,       \* what a poll may report
  Sparse,       \* more than 128 devices: established rows only in full snapshots
  SpoolLimit,   \* size of the spool in batches (max_bytes)
  SegmentSize,  \* batches of a segment (segment_bytes)
  Tolerance,    \* polls in _EVENT_INDEX_FRESHNESS_TOLERANCE_SECONDS
  MaxTime,      \* bound: no round begins when a poll of this time was written
  MaxCrashes    \* bound: deaths of the collector

ASSUME StatesAssumption == States \subseteq {"up", "down", "gone"}
ASSUME BgpSizesAssumption == {SpoolLimit, SegmentSize, MaxTime} \subseteq Nat \ {0} /\ {MaxCrashes, Tolerance} \subseteq Nat
ASSUME ModeAssumption == Sparse \in BOOLEAN

VARIABLES
  active,     \* the segment being written
  sealed,     \* sealed segments, named by the time of their last line and a sequence number
  stored,     \* what Telegraf has stored
  tracker,    \* the state each session had when it was last polled
  phase,      \* what the collector is doing
  time,       \* time of the last poll, or of the last one that left a trace when the round began
  full,       \* this round writes a full snapshot
  toPoll,     \* devices to poll in this round
  polling,    \* polls under way, with the time they were launched at
  done,       \* batches not written yet
  lostPolls,  \* devices of which a poll was lost, or whose collector was restarted
  crashes

spoolVars == <<active, sealed>>
roundVars == <<phase, time, full, toPoll, polling, done>>
bgpVars == <<spoolVars, stored, tracker, roundVars, lostPolls, crashes>>

Segment == [at : Nat, no : Nat]
Batch == [dev : Devices, at : Nat, ok : BOOLEAN, state : States \cup {"none"},
          row : {"up", "down", "none"}, event : {<<>>} \cup (States \X States)]
Marker(id) == [spool_segment |-> id]
Line == Batch \cup [spool_segment : Segment]
Lines(file) == {file[i] : i \in DOMAIN file}
Spooled == Lines(active) \cup UNION {Lines(sealed[s]) : s \in DOMAIN sealed}
Batches(lines) == {l \in lines : "dev" \in DOMAIN l}

BgpTypeOK ==
  /\ active \in Seq(Line) /\ stored \subseteq Line
  /\ DOMAIN sealed \subseteq Segment /\ IsFiniteSet(DOMAIN sealed)
  /\ \A s \in DOMAIN sealed : sealed[s] \in Seq(Line)
  /\ tracker \in [Devices -> States \cup {"none"}]
  /\ phase \in {"wait", "collect", "refused", "cleanup", "dead"}
  /\ time \in Nat /\ full \in BOOLEAN
  /\ toPoll \subseteq Devices /\ polling \subseteq [dev : Devices, at : Nat] /\ done \subseteq Batch
  /\ lostPolls \subseteq Devices /\ crashes \in 0..MaxCrashes

BgpInit ==
  /\ active = <<>> /\ sealed = <<>> /\ stored = {}
  /\ tracker = [d \in Devices |-> "none"]
  /\ phase = "wait" /\ time = 0 /\ full = FALSE /\ toPoll = {} /\ polling = {} /\ done = {}
  /\ lostPolls = {} /\ crashes = 0

----------------------------------------------------------------------------
(* One round: _collect_bgp_lines_paced and _collect_device_bgp *)

LastTime == Max({0} \cup {b.at : b \in Batches(Spooled \cup stored)})

\* The first round is full; a sparse collector repeats a full snapshot every minute.
BeginRound ==
  /\ phase = "wait" /\ LastTime < MaxTime
  /\ phase' = "collect" /\ time' = LastTime /\ toPoll' = Devices
  /\ full' \in IF Sparse /\ time # 0 THEN BOOLEAN ELSE {TRUE}
  /\ UNCHANGED <<spoolVars, stored, tracker, polling, done, lostPolls, crashes>>

Launch(d) ==
  /\ phase = "collect" /\ d \in toPoll
  /\ toPoll' = toPoll \ {d} /\ time' = time + 1
  /\ polling' = polling \cup {[dev |-> d, at |-> time']}
  /\ UNCHANGED <<spoolVars, stored, tracker, phase, full, done, lostPolls, crashes>>

\* Mutant: a poll that failed is taken for a summary without neighbours.
MissingOnFailure(d, s) ==
  IF tracker[d] \in {"none", s} THEN <<>> ELSE <<tracker[d], IF s = "none" THEN "gone" ELSE s>>

\* BgpTransitionTracker.process: the event of a poll of d that reported s, if it was answered.
Event(d, s) == IF s \in {"none", tracker[d]} \/ tracker[d] = "none" THEN <<>> ELSE <<tracker[d], s>>

\* A session never seen has no entry that could be missing.
Tracked(d, s) == IF s = "none" \/ (s = "gone" /\ tracker[d] = "none") THEN tracker[d] ELSE s

Row(s) == IF s = "down" \/ (s = "up" /\ full) THEN s ELSE "none"

\* What poll p left if it reported s, or "none" if it failed.
BatchOf(p, s) ==
  [dev |-> p.dev, at |-> p.at, ok |-> s # "none", state |-> s, row |-> Row(s), event |-> Event(p.dev, s)]

\* A poll fails (timeout, command or parser error) or reports a state.
Finish(p) ==
  /\ p \in polling /\ polling' = polling \ {p}
  /\ \E s \in States \cup {"none"} :
       /\ done' = done \cup {BatchOf(p, s)}
       /\ tracker' = [tracker EXCEPT ![p.dev] = Tracked(p.dev, s)]
  /\ UNCHANGED <<spoolVars, stored, phase, time, full, toPoll, lostPolls, crashes>>

----------------------------------------------------------------------------
(* The spool: _write_segmented_lines, _rotate_active_segment *)

Size == Len(active) + MapThenSumSet(LAMBDA s : Len(sealed[s]), DOMAIN sealed)

Times(file) == {l.at : l \in Batches(Lines(file))} \cup {l.spool_segment.at : l \in Lines(file) \ Batches(Lines(file))}
NextSegment == LET t == Max(Times(active)) IN [at |-> t, no |-> Min({n \in 0..Cardinality(DOMAIN sealed) : [at |-> t, no |-> n] \notin DOMAIN sealed})]

\* Mutant: a segment starts with its marker.
MarkerFirst(id) == sealed' = [s \in DOMAIN sealed \cup {id} |-> IF s = id THEN <<Marker(id)>> \o active ELSE sealed[s]]

\* The marker is the last line of a sealed segment.
Seal(id) == sealed' = [s \in DOMAIN sealed \cup {id} |-> IF s = id THEN Append(active, Marker(id)) ELSE sealed[s]]

Rotates == active # <<>> /\ Len(active) + 1 > SegmentSize

\* A marker is shorter than any batch: where the batch fits, the sealing does not fail.
Refuses == Size + 1 > SpoolLimit

Write(b) ==
  /\ phase = "collect" /\ b \in done /\ ~Refuses
  /\ done' = done \ {b}
  /\ IF Rotates THEN Seal(NextSegment) /\ active' = <<b>>
     ELSE active' = Append(active, b) /\ UNCHANGED sealed
  /\ UNCHANGED <<stored, tracker, phase, time, full, toPoll, polling, lostPolls, crashes>>

\* BufferError: the polls under way are waited for, and all batches not written yet are dropped.
Refuse ==
  /\ phase = "collect" /\ done # {} /\ Refuses
  /\ phase' = "refused" /\ toPoll' = {}
  /\ UNCHANGED <<spoolVars, stored, tracker, time, full, polling, done, lostPolls, crashes>>

EndRefused ==
  /\ phase = "refused" /\ polling = {}
  /\ phase' = "wait" /\ lostPolls' = lostPolls \cup {b.dev : b \in done} /\ done' = {}
  /\ UNCHANGED <<spoolVars, stored, tracker, time, full, toPoll, polling, crashes>>

EndRound ==
  /\ phase = "collect" /\ toPoll = {} /\ polling = {} /\ done = {}
  /\ phase' = "cleanup"
  /\ UNCHANGED <<spoolVars, stored, tracker, time, full, toPoll, polling, done, lostPolls, crashes>>

(* _query_ingested_segments and _delete_ingested_segments *)
Ingested == {s \in DOMAIN sealed : Marker(s) \in stored}

DeleteSegments ==
  /\ phase = "cleanup" /\ phase' = "wait"
  /\ sealed' \in {sealed, [s \in DOMAIN sealed \ Ingested |-> sealed[s]]}
  /\ UNCHANGED <<active, stored, tracker, time, full, toPoll, polling, done, lostPolls, crashes>>

\* The collector dies, possibly after the marker was appended and before the file was renamed.
Crash ==
  /\ phase # "dead" /\ crashes < MaxCrashes /\ crashes' = crashes + 1
  /\ phase' = "dead" /\ toPoll' = {} /\ polling' = {} /\ done' = {} /\ lostPolls' = Devices
  /\ active' \in {active} \cup IF phase = "collect" /\ done # {} /\ Rotates /\ ~Refuses
                               THEN {Append(active, Marker(NextSegment))} ELSE {}
  /\ UNCHANGED <<sealed, stored, tracker, time, full>>

(* ensure_worker_bgp_collector *)
Restart ==
  /\ phase = "dead" /\ phase' = "wait" /\ time' = 0
  /\ tracker' = [d \in Devices |-> "none"]
  /\ UNCHANGED <<spoolVars, stored, full, toPoll, polling, done, lostPolls, crashes>>

\* Telegraf stores the lines of each file in their order; what it reads twice changes nothing.
Ingest(file) ==
  /\ Lines(file) \ stored # {}
  /\ stored' = stored \cup {file[Min({i \in DOMAIN file : file[i] \notin stored})]}
  /\ UNCHANGED <<spoolVars, tracker, roundVars, lostPolls, crashes>>

Telegraf == Ingest(active) \/ \E s \in DOMAIN sealed : Ingest(sealed[s])

Collector ==
  \/ BeginRound \/ Refuse \/ EndRefused \/ EndRound \/ DeleteSegments
  \/ \E d \in Devices : Launch(d)
  \/ \E p \in polling : Finish(p)
  \/ \E b \in done : Write(b)

BgpNext == Collector \/ Crash \/ Restart \/ Telegraf

\* The collector's loop goes on as long as it lives; Telegraf tails the spool.
BgpFairness == WF_bgpVars(Collector) /\ WF_bgpVars(Telegraf)

BgpSpec == BgpInit /\ [][BgpNext]_bgpVars /\ BgpFairness
----------------------------------------------------------------------------
(* The query: _build_bgp_events_fast and _build_bgp_events *)

Of(d) == {b \in Batches(stored) : b.dev = d}
Earliest(bs) == CHOOSE b \in bs : \A c \in bs : b.at <= c.at
Latest(bs) == CHOOSE b \in bs : \A c \in bs : b.at >= c.at
Since(bs, t) == {b \in bs : b.at >= t}
Before(bs, t) == {b \in bs : b.at < t}

\* How both ways name what a session did, given the steps between its states and the states themselves.
EventType(steps, states) ==
  LET down == \E p \in steps : p[1] = "up" /\ p[2] # "up"
      up   == \E p \in steps : p[1] # "up" /\ p[2] = "up"
  IN CASE down /\ up -> "flap" [] down /\ ~up -> "down" [] ~down /\ up -> "recovered"
       [] OTHER -> IF states \ {"up"} # {} THEN "non_established" ELSE "established"

\* _resolve_pingmesh_time_scope: both ends are given, or the last minutes are asked for.
Modes == {"absolute", "rolling"}

\* What is asked for from before the window: nothing in a rolling scope.
Prior(samples, t, mode) == {b \in Before(samples, t) : mode = "absolute"}

RowsOf(d) == {b \in Of(d) : b.row # "none"}

\* From the first row of the window, the last row before it, and the transitions, which tell where
\* they come from.
FastEvent(d, t, mode) ==
  LET moves  == {b \in Since(Of(d), t) : b.event # <<>>}
      window == Since(RowsOf(d), t)
      first  == IF window # {} THEN Earliest(window).row ELSE Earliest(moves).event[2]
      steps  == {b.event : b \in moves} \cup
                {<<Latest(rs).row, first>> : rs \in {Prior(RowsOf(d), t, mode)} \ {{}}}
      states == {b.event[2] : b \in moves} \cup
                IF window = {} THEN {} ELSE {Earliest(window).row, Latest(window).row}
  IN IF window = {} /\ moves = {} THEN "none" ELSE EventType(steps, states)

\* What happened to a session from sample to sample.
Story(samples, state, t, mode) ==
  LET window == Since(samples, t)
      prior  == Prior(samples, t, mode)
      told   == window \cup IF prior = {} THEN {} ELSE {Latest(prior)}
      steps  == {<<state[Latest(Before(told, b.at))], state[b]>> : b \in {c \in told : Before(told, c.at) # {}}}
  IN IF window = {} THEN "none" ELSE EventType(steps, {state[b] : b \in window})

\* From the rows of the snapshots.
SnapshotEvent(d, t, mode) == Story(RowsOf(d), [b \in Of(d) |-> b.row], t, mode)

\* The index of the events covers a window if its first and its last beat are near the ends of it.
IndexCovers(d, t) ==
  LET beats == Since(Of(d), t)
  IN beats # {} /\ Earliest(beats).at <= t + Tolerance /\ Latest(beats).at + Tolerance >= time

\* query_bgp_events, for one device and a window that ends now
Answer(d, t, mode) == IF IndexCovers(d, t) THEN FastEvent(d, t, mode) ELSE SnapshotEvent(d, t, mode)

\* What the polls saw: in the window, and with the last one before it.
PolledEvent(d, t, mode) == Story({b \in Of(d) : b.ok}, [b \in Of(d) |-> b.state], t, mode)
----------------------------------------------------------------------------
(* Properties *)

Windows == 1..time
\* Nothing was lost, the neighbour stayed configured, and what is stored has no gap.
Known(d) ==
  /\ d \notin lostPolls
  /\ \A b \in Of(d) : b.state # "gone" /\ \A l \in Batches(Spooled \ stored) : l.dev = d => b.at < l.at

\* The last row before a window is not what the last poll before it saw.
StalePrior(d, t) ==
  LET rows == Before(RowsOf(d), t)
  IN rows # {} /\ Latest(rows).row # Latest(Before({b \in Of(d) : b.ok}, t)).state

\* Asked about any window, the query tells what the polls that are stored saw, however many of them
\* failed.  By the transitions it tells the step into the window, too, in either scope; only a
\* session that a sparse collector saw up all the time may be left out, and only its last row may
\* be a stale one to begin with.  By full snapshots it tells that step where both ends are given,
\* and the steps within a rolling window: there the two ways differ.
EventsTellTruth ==
  \A d \in Devices : phase = "wait" /\ Known(d) =>
    \A t \in Windows, mode \in Modes :
      /\ mode = "rolling" \/ ~StalePrior(d, t) =>
           \/ FastEvent(d, t, mode) = PolledEvent(d, t, "absolute")
           \/ Sparse /\ FastEvent(d, t, mode) = "none" /\ PolledEvent(d, t, "absolute") = "established"
      /\ ~Sparse => /\ ~StalePrior(d, t)
                    /\ SnapshotEvent(d, t, mode) = PolledEvent(d, t, mode)
                    /\ mode = "absolute" => Answer(d, t, mode) = PolledEvent(d, t, mode)

\* A line that was written stays in the spool until Telegraf has stored it, whatever segments are
\* deleted or reused in name and wherever the collector dies.
UnreadLinesKept == [][\A l \in Spooled : l \in Spooled' \cup stored]_bgpVars

\* The spool refuses a batch only "to overwrite unconsumed telemetry": once everything is stored it
\* takes batches again.
SpoolTakesBatchesAgain == (Refuses /\ Spooled \subseteq stored) ~> ~Refuses
=============================================================================
