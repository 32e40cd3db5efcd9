------------------------------ MODULE Pingmesh ------------------------------
(***************************************************************************)
(* The Pingmesh agent of one client (native/client-agent/src/pingmesh.rs,  *)
(* config.rs) and what the analysis (pingmesh/_detector_coverage.py,       *)
(* _detector_analysis.py, scenario/observation.py) reads from its rows:    *)
(* whether an observation window covers every pair of clients on every     *)
(* batch of source ports, which paths drop large packets only, and whether *)
(* the window is healthy enough to serve as a baseline.                    *)
(*                                                                         *)
(* Time is counted in cycles.  A cycle sends its probes, reads replies,    *)
(* confirms the unanswered large (DF) probes, and reads replies again; the *)
(* order of the probes within a phase is left out.  Round-trip times are   *)
(* left out.  The writer posts rows to the ingest listener at the same     *)
(* time.                                                                   *)
(***************************************************************************)
EXTENDS Naturals, Sequences, FiniteSets, FiniteSetsExt, SequencesExt

CONSTANTS
  Policies,       \* what the topology may prescribe
  Confirm,        \* probes that confirm an unanswered DF probe (DF_CONFIRMATION_PROBES)
  MinLost,        \* lost probes that make a path lossy, or explain a send error
  LossyPaths,     \* lossy paths of this client that the gate lets pass, being at most 1 in 1000 of all paths
  QueueCapacity,  \* METRICS_QUEUE_CAPACITY
  BatchSize,      \* METRICS_BATCH_SIZE
  MaxCycles,      \* bound: cycles of the agent
  MaxTrouble      \* bound: probes that are not sent, answered late, or answered without a timestamp

ASSUME PoliciesAssumption ==
  \A p \in Policies : /\ p \in [targets : Nat \ {0}, size : Nat \ {0}, ports : Nat \ {0}, per : Nat \ {0}]
                      /\ p.size <= p.targets /\ p.per <= p.ports
ASSUME SizesAssumption == {Confirm, MinLost, QueueCapacity, BatchSize, MaxCycles} \subseteq Nat \ {0} /\ {LossyPaths, MaxTrouble} \subseteq Nat

VARIABLES
  policy, phases,   \* the policy, and the phases of this client's rotation and of its ticks
  step,             \* what the probe loop is doing
  now,              \* the tick of its last cycle
  cycle, sequence,
  stats,            \* counters of each target and kind of probe
  pending,          \* probes waiting for a reply
  log,              \* history of this cycle: every probe and what became of it
  queue, batch, writing, db,
  used,             \* sequence numbers used before this cycle
  skips,            \* ticks at which no cycle began
  trouble

loopVars == <<step, now, cycle, sequence, used, skips>>
probeVars == <<stats, pending, log, trouble>>
writerVars == <<batch, writing, db>>
vars == <<policy, phases, loopVars, probeVars, queue, writerVars>>

----------------------------------------------------------------------------
(* Rotation: config.rs, build_targets, rotating_destination_batch, probe_batch_indices *)

Ceil(a, b) == (a + b - 1) \div b
TargetsOf == 0..policy.targets - 1
DestinationBatches == Ceil(policy.targets, policy.size)
PortBatches == Ceil(policy.ports, policy.per)
Epoch == DestinationBatches * PortBatches

DestinationBatch(c) == (c % Epoch) % DestinationBatches
PortBatch(c) == ((c % Epoch) \div DestinationBatches + phases.port) % PortBatches
ActiveTargets(c) == {(phases.target + i) % policy.targets : i \in {j \in TargetsOf : j % DestinationBatches = DestinationBatch(c)}}
Position(t) == ((t + policy.targets - phases.target) % policy.targets) \div DestinationBatches
ActivePorts(b) == Min({policy.per, policy.ports - b * policy.per})

\* A cycle ends at half its time if all is answered and else at its end: by the phase of the ticks in
\* the seconds of the clock, neither, the second or both of these are a second later than the tick.
Phases == [target : TargetsOf, port : 0..PortBatches - 1, tick : {"early", "middle", "late"}]
Stamp == IF phases.tick = "late" \/ (phases.tick = "middle" /\ pending # {}) THEN now + 1 ELSE now

Kinds == {"rtt", "df"}
Zero == [sent |-> 0, received |-> 0, drops |-> 0, invalid |-> 0, errors |-> 0]
Nothing == [tk \in TargetsOf \X Kinds |-> Zero]
Probes(k, t) == {p \in log : p.kind = k /\ p.target = t}

TypeOK ==
  /\ policy \in Policies /\ phases \in Phases
  /\ step \in {"wait", "drain", "confirm", "last", "report", "dead"}
  /\ now \in 0..MaxCycles + 1 /\ cycle \in 0..MaxCycles /\ sequence \in Nat /\ used \in Nat /\ skips \subseteq 0..MaxCycles
  /\ stats \in [TargetsOf \X Kinds -> [DOMAIN Zero -> Nat]]
  /\ \A p \in pending : [p EXCEPT !.answer = "none"] \in log \/ p \in log
  /\ Len(queue) <= QueueCapacity /\ Len(batch) <= BatchSize /\ writing \in BOOLEAN
  /\ trouble \in 0..MaxTrouble

Init ==
  /\ policy \in Policies
  /\ phases \in Phases
  /\ step = "wait" /\ now = 0 /\ cycle = 0 /\ sequence = 0 /\ used = 0 /\ skips = {}
  /\ stats = Nothing /\ pending = {} /\ log = {}
  /\ queue = <<>> /\ batch = <<>> /\ writing = FALSE /\ db = {}
  /\ trouble = 0

----------------------------------------------------------------------------
(* One cycle: probe_loop, run_probe_cycle *)

\* Mutant: the sequence starts again in every cycle.
RestartSequence == 0

FirstSequence == sequence

\* A tick that the last cycle overran is skipped.
SkipTick ==
  /\ step = "wait" /\ now < MaxCycles /\ now > 0 /\ trouble < MaxTrouble
  /\ skips' = skips \cup {now} /\ now' = now + 1 /\ trouble' = trouble + 1
  /\ UNCHANGED <<policy, phases, step, cycle, sequence, used, stats, pending, log, queue, writerVars>>

\* What became of the attempt to send a probe: "mtu" for EMSGSIZE, "local" for an error of this
\* host that passes, "path" for an error that speaks of the path.
Outcomes == {"sent", "mtu", "local", "path"}

\* Mutant: an error of this host that passes goes unnoticed.
CountedWithoutLocal(s, outs) ==
  LET n(set) == Quantify(DOMAIN outs, LAMBDA i : outs[i] \in set)
  IN [s EXCEPT !.sent = @ + n({"sent", "mtu", "path"}), !.drops = @ + n({"mtu"}),
               !.invalid = @ + n({"mtu"}), !.errors = @ + n({"mtu"})]

\* send_probe
Counted(s, outs) ==
  LET n(set) == Quantify(DOMAIN outs, LAMBDA i : outs[i] \in set)
  IN [s EXCEPT !.sent = @ + n({"sent", "mtu", "path"}), !.drops = @ + n({"mtu"}),
               !.invalid = @ + n({"mtu"}), !.errors = @ + n({"mtu", "local"})]

\* Sends the probes, numbered from first, on top of what was counted and logged before; at most as many
\* go wrong as the bound leaves.
SendAll(probes, first, counts, waiting, history) ==
  \E bad \in UNION {kSubset(k, DOMAIN probes) : k \in 0..Min({MaxTrouble - trouble, Len(probes)})} :
  \E what \in [bad -> Outcomes \ {"sent"}] :
    LET out(i) == IF i \in bad THEN what[i] ELSE "sent"
        tried == {[kind |-> probes[i].kind, target |-> probes[i].target, socket |-> probes[i].socket,
                   seq |-> first + i - 1, out |-> out(i), answer |-> "none"] : i \in DOMAIN probes}
        outs(tk) == LET mine == {i \in DOMAIN probes : probes[i].target = tk[1] /\ probes[i].kind = tk[2]}
                    IN [i \in mine |-> out(i)]
    IN /\ stats' = [tk \in DOMAIN stats |-> Counted(counts[tk], outs(tk))]
       /\ pending' = waiting \cup {p \in tried : p.out = "sent"}
       /\ log' = history \cup tried
       /\ sequence' = first + Len(probes)
       /\ trouble' = trouble + Cardinality(bad)

\* build_probe_schedule: every port of the batch, and one DF probe, for every target of the cycle
Schedule ==
  LET sockets == ActivePorts(PortBatch(cycle))
  IN SetToSeq(UNION {{[kind |-> "rtt", target |-> t, socket |-> s] : s \in 0..sockets - 1} \cup
                     {[kind |-> "df", target |-> t, socket |-> Position(t) % sockets]} : t \in ActiveTargets(cycle)})

SendProbes ==
  /\ step = "wait" /\ cycle < MaxCycles /\ now <= MaxCycles
  /\ step' = "drain"
  /\ SendAll(Schedule, FirstSequence, Nothing, {}, {})
  /\ UNCHANGED <<policy, phases, now, cycle, used, skips, queue, writerVars>>

\* drain_replies: replies are matched by their sequence number alone.
Handle(stamped, bare) ==
  LET matched(seqs, tk) == {p \in pending : p.seq \in seqs /\ <<p.target, p.kind>> = tk}
      read(tk) == Cardinality(matched(stamped, tk))
      without(tk) == Cardinality(matched(bare, tk))
  IN /\ stats' = [tk \in DOMAIN stats |->
           [stats[tk] EXCEPT !.received = @ + read(tk), !.invalid = @ + without(tk), !.errors = @ + without(tk)]]
     /\ pending' = {p \in pending : p.seq \notin stamped \cup bare}

\* Replies to answered and to bare are read, one of those without a timestamp, and perhaps one to an
\* earlier cycle.
Read(answered, bare) ==
  LET mark(p) == [p EXCEPT !.answer = IF p \in answered THEN "read" ELSE IF p \in bare THEN "bare" ELSE @]
  IN /\ \E stale \in {{}} \cup {{q} : q \in 0..used - 1} : Handle({p.seq : p \in answered} \cup stale, {p.seq : p \in bare})
     /\ log' = {mark(p) : p \in log}

\* What is not answered by now is lost or late.
FirstDrain ==
  /\ step = "drain" /\ step' = "confirm"
  /\ \E missing \in UNION {kSubset(k, pending) : k \in 0..Min({MaxTrouble - trouble, Cardinality(pending)})} :
     \E bare \in {b \in {{}} \cup {{p} : p \in pending \ missing} : Cardinality(missing \cup b) <= MaxTrouble - trouble} :
       /\ Read(pending \ (missing \cup bare), bare)
       /\ trouble' = trouble + Cardinality(missing \cup bare)
  /\ UNCHANGED <<policy, phases, now, cycle, sequence, used, skips, queue, writerVars>>

UnansweredDf == {p \in pending : p.kind = "df"}

ConfirmDf ==
  /\ step = "confirm" /\ step' = "last"
  /\ SendAll(SetToSeq({[kind |-> "df", target |-> p.target, socket |-> p.socket, no |-> n] :
                          p \in UnansweredDf, n \in 1..Confirm}), sequence, stats, pending, log)
  /\ UNCHANGED <<policy, phases, now, cycle, used, skips, queue, writerVars>>

LastDrain ==
  /\ step = "last" /\ step' = "report"
  /\ \E answered \in SUBSET pending : \E bare \in {{}} \cup {{p} : p \in pending \ answered} :
       /\ Cardinality(bare) <= MaxTrouble - trouble /\ trouble' = trouble + Cardinality(bare)
       /\ Read(answered, bare)
  /\ UNCHANGED <<policy, phases, now, cycle, sequence, used, skips, queue, writerVars>>

\* An error of the socket that is none of the above ends the process.
Die ==
  /\ step \in {"wait", "confirm"} /\ step' = "dead"
  /\ queue' = <<>> /\ batch' = <<>> /\ writing' = FALSE
  /\ UNCHANGED <<policy, phases, now, cycle, sequence, used, skips, probeVars, db>>

\* valid_sent, build_result, metric_lines; the last three fields are history.
Valid(s) == s.sent - s.invalid
RowOf(t, at) ==
  LET r == stats[<<t, "rtt">>]
      d == stats[<<t, "df">>]
      unanswered(k) == Cardinality({p \in Probes(k, t) : p.out \in {"sent", "path"} /\ p.answer = "none"})
  IN [cycle |-> cycle, target |-> t, batch |-> PortBatch(cycle), at |-> at,
      sent |-> Valid(r), lost |-> Valid(r) - r.received,
      dfSent |-> Valid(d), dfLost |-> Valid(d) - d.received,
      drops |-> d.drops, errors |-> r.errors + d.errors,
      probed |-> Cardinality({p \in Probes("rtt", t) : p.out \in {"sent", "path"} /\ p.answer # "bare"}),
      missed |-> unanswered("rtt"), dfMissed |-> unanswered("df")]

EndCycle ==
  /\ step = "report"
  /\ LET rows == SetToSeq({RowOf(t, Stamp) : t \in ActiveTargets(cycle)})
     IN IF Len(queue) + Len(rows) <= QueueCapacity
        THEN /\ queue' = queue \o rows /\ step' = "wait" /\ now' = now + 1 /\ cycle' = cycle + 1
             /\ UNCHANGED <<batch, writing>>
        ELSE /\ step' = "dead" /\ queue' = <<>> /\ batch' = <<>> /\ writing' = FALSE
             /\ UNCHANGED <<now, cycle>>
  /\ used' = Max({used, sequence})
  /\ stats' = Nothing /\ pending' = {} /\ log' = {}
  /\ UNCHANGED <<policy, phases, sequence, skips, trouble, db>>

----------------------------------------------------------------------------
(* metrics_writer and write_batch *)

Collect ==
  /\ ~writing /\ queue # <<>>
  /\ batch' = Append(batch, Head(queue)) /\ queue' = Tail(queue)
  /\ writing' = (Len(batch) + 1 >= BatchSize)
  /\ UNCHANGED <<policy, phases, loopVars, probeVars, db>>

BatchTimeout ==
  /\ ~writing /\ batch # <<>> /\ writing' = TRUE
  /\ UNCHANGED <<policy, phases, loopVars, probeVars, queue, batch, db>>

Posted ==
  /\ writing /\ db' = db \cup ToSet(batch) /\ batch' = <<>> /\ writing' = FALSE
  /\ UNCHANGED <<policy, phases, loopVars, probeVars, queue>>

\* The rows may have been stored although no answer came.
PostFailed ==
  /\ writing /\ db' \in {db, db \cup ToSet(batch)}
  /\ UNCHANGED <<policy, phases, loopVars, probeVars, queue, batch, writing>>

Next ==
  \/ SkipTick \/ SendProbes \/ FirstDrain \/ ConfirmDf \/ LastDrain \/ EndCycle \/ Die
  \/ Collect \/ BatchTimeout \/ Posted \/ PostFailed

Spec == Init /\ [][Next]_vars
----------------------------------------------------------------------------
(* The analysis of a window *)

Window(from, to) == {r \in db : from <= r.at /\ r.at < to}
Total(rows, field) == MapThenSumSet(LAMBDA r : r[field], rows)
On(rows, t, b) == {r \in rows : r.target = t /\ r.batch = b}

\* is_explained_df_send_error
Explained(r, rows) ==
  /\ r.errors # 0 /\ r.errors = r.drops
  /\ Total({q \in On(rows, r.target, r.batch) : q.sent > 0}, "lost") >= MinLost

\* summarize_coverage
Complete(rows) ==
  /\ \A t \in TargetsOf, b \in 0..PortBatches - 1 : On(rows, t, b) # {}
  /\ \A r \in rows : r.errors = 0 \/ Explained(r, rows)

\* Small packets pass and all large ones are lost on the way, not on this host.
LargeOnlyLost(mine) ==
  /\ Total(mine, "sent") > 0 /\ Total(mine, "lost") = 0
  /\ Total(mine, "dfSent") >= Confirm + 1 /\ Total(mine, "dfLost") >= Total(mine, "dfSent")
  /\ Total(mine, "drops") = 0

\* Mutant: DF evidence is grouped by path alone.
SuspectByPath(rows, t) == LargeOnlyLost({r \in rows : r.target = t})

\* The part of analyze_snapshot_rows that names a path on which only large packets are dropped.
Suspect(rows, t) == \E b \in 0..PortBatches - 1 : LargeOnlyLost(On(rows, t, b))

Sampled(rows, t) == {r \in rows : r.target = t /\ r.sent > 0}

Unreachable(rows, t) ==
  LET mine == Sampled(rows, t)
  IN mine # {} /\ Total(mine, "lost") >= Total(mine, "sent")

\* loss_pct_threshold is 5 %
Lossy(rows, t) ==
  LET mine == Sampled(rows, t)
  IN Total(mine, "lost") >= MinLost /\ 20 * Total(mine, "lost") >= Total(mine, "sent")

\* loss_pct_delta is 5 % over the baseline
ReportsLoss(base, rows, t) ==
  LET was == Sampled(base, t)
      mine == Sampled(rows, t)
      sent == Total(mine, "sent")
      lost == Total(mine, "lost")
  IN /\ was # {} /\ mine # {}
     /\ \/ lost >= sent
        \/ /\ Lossy(rows, t)
           /\ 20 * lost * Total(was, "sent") >= 20 * Total(was, "lost") * sent + sent * Total(was, "sent")

\* All large packets of a batch are lost now, and at least 15 % less of them were in the baseline.
ReportsMtu(base, rows, t) ==
  \E b \in 0..PortBatches - 1 :
    LET was == On(base, t, b)
        mine == On(rows, t, b)
    IN /\ Total(was, "dfSent") > 0 /\ Total(was, "sent") > 0
       /\ LargeOnlyLost(mine)
       /\ 20 * Total(was, "dfLost") <= 17 * Total(was, "dfSent")

\* _slice_rows
Slice(rows, from, to) == {r \in rows : from <= r.at /\ r.at < to}

\* analyze_snapshot_rows, by family: "packet_loss" and "path_unreachable" are one, of which a path has one.
Reported(base, rows, t) ==
  {family \in {"loss", "mtu"} :
     IF family = "loss" THEN ReportsLoss(base, rows, t) ELSE ReportsMtu(base, rows, t)}

\* The parts of the observation in which what the whole reports is reported as well.
WindowsObserved(base, rows, parts, family, t) ==
  {w \in DOMAIN parts : /\ family \in Reported(base, rows, t)
                        /\ family \in Reported(base, Slice(rows, parts[w][1], parts[w][2]), t)}

Persistence(windows) ==
  CASE windows = {"early", "steady"} -> "persistent"
    [] windows = {"early"}           -> "early_only"
    [] windows = {"steady"}          -> "steady_only"
    [] OTHER                         -> "full_window"

\* baseline_gate_errors finds nothing to object to: it lets one lossy path in a thousand pass.
PassesGate(rows) ==
  /\ rows # {} /\ Complete(rows)
  /\ \A t \in TargetsOf : ~Suspect(rows, t) /\ ~Unreachable(rows, t)
  /\ Cardinality({t \in TargetsOf : Lossy(rows, t)}) <= LossyPaths
  /\ \A r \in rows : r.errors # 0 => Explained(r, rows)

\* Mutant: no time for the rows of the last cycle.
WithoutGrace == Epoch

\* complete_window_seconds: at least two cycles of grace
CompleteWindow == Epoch + 2
----------------------------------------------------------------------------
(* Properties *)

Rows == ToSet(queue) \cup ToSet(batch) \cup db
Begins == 0..MaxCycles

\* Windows are analysed when the writer has nothing in hand: whatever a failed post stored is there then too.
Settled == batch = <<>>

\* Every row that leaves the agent counts as lost exactly the probes of its own cycle that were sent
\* and had no reply, whatever late replies of earlier cycles are read in between.
LossIsReal == \A r \in Rows : r.lost = r.missed /\ r.dfLost = r.dfMissed /\ r.sent = r.probed

\* "A confirmed network MTU signal requires ... consecutive unanswered probes on one ECMP source-port
\* batch": a path is suspected only if that many large probes went unanswered on one batch on which no
\* small one did.
SuspicionConfirmed ==
  Settled => \A f, t \in Begins : f < t => \A d \in TargetsOf : Suspect(Window(f, t), d) =>
    \E b \in 0..PortBatches - 1 :
      LET mine == On(Window(f, t), d, b)
      IN Total(mine, "dfMissed") > Confirm /\ Total(mine, "missed") = 0

\* In a window that counts as complete every client was probed from every source port, whatever send
\* errors are explained away; in one that passes the gate for baselines a probe of every client was
\* answered as well.
GateMeansProbed ==
  Settled => \A f, t \in Begins : f < t => \A d \in TargetsOf :
    /\ Complete(Window(f, t)) =>
         \A b \in 0..PortBatches - 1 : \E r \in On(Window(f, t), d, b) : r.probed = ActivePorts(b)
    /\ PassesGate(Window(f, t)) => \E r \in Window(f, t) : r.target = d /\ r.missed < r.probed

\* Once the writer has caught up, a window of the length the scenario waits for is complete, wherever
\* in the rotation it begins, unless a tick was skipped or a probe failed on this host.
WindowIsComplete ==
  step = "wait" /\ queue = <<>> /\ batch = <<>> =>
    \A f \in Begins :
      LET rows == Window(f, f + CompleteWindow)
      IN f + CompleteWindow <= now /\ skips \cap (f..f + CompleteWindow) = {} /\ (\A r \in rows : r.errors = 0)
           => Complete(rows)

\* A window counts as complete when the clients were probed and only then: coverage is neither
\* assumed nor missed.
CoverageMeansProbes == GateMeansProbed /\ WindowIsComplete

\* A path that loses packets now and is not reported, because the baseline lost some as well.
Masked(base, rows, d) == Lossy(rows, d) /\ ~ReportsLoss(base, rows, d)

\* Relative to a baseline that passes the gate, what a later window shows to be unreachable is reported.
\* Loss is left out only on a path that lost probes in the baseline, too: on all but the tolerated paths
\* less than MinLost of them, or it is less than 10 % now.  The loss of large packets only is left out
\* on a batch of ports only if in the baseline small packets of it were lost as well, or more than 85 %
\* of its large ones, if not all or not enough of them to confirm it.
FaultsAreReported ==
  Settled => \A f, t \in Begins : f < t /\ PassesGate(Window(f, t)) => \A g, u \in Begins : t <= g /\ g < u =>
    LET base == Window(f, t)
        rows == Window(g, u)
        masked == {d \in TargetsOf : Masked(base, rows, d)}
    IN /\ \A d \in TargetsOf : Unreachable(rows, d) => ReportsLoss(base, rows, d)
       /\ \A d \in masked : Total(Sampled(base, d), "missed") > 0
       /\ Cardinality({d \in masked : /\ Total(Sampled(base, d), "missed") >= MinLost
                                      /\ 10 * Total(Sampled(rows, d), "missed") >= Total(Sampled(rows, d), "probed")})
            <= LossyPaths
       /\ \A d \in TargetsOf, b \in 0..PortBatches - 1 :
            LargeOnlyLost(On(rows, d, b)) /\ ~ReportsMtu(base, rows, d) =>
              LET was == On(base, d, b)
              IN \/ Total(was, "missed") > 0
                 \/ /\ 20 * Total(was, "dfMissed") > 17 * Total(was, "dfSent")
                    /\ Total(was, "dfSent") <= Confirm \/ Total(was, "dfMissed") < Total(was, "dfSent")

\* Relative to such a baseline, and whatever lies between the early part of the observation and the
\* steady one: a loss is called persistent only if probes went unanswered in both parts, and a path of
\* which no probe was answered from the first row to the last is.
LastingLossIsPersistent ==
  Settled => \A f, t \in Begins : f < t /\ PassesGate(Window(f, t)) =>
    \A g, m, n, u \in Begins : t <= g /\ g < m /\ m <= n /\ n < u => \A d \in TargetsOf :
      LET rows == Window(g, u)
          mine(w) == Sampled(Slice(rows, w[1], w[2]), d)
          parts == [early |-> <<g, m>>, steady |-> <<n, u>>]
          called == Persistence(WindowsObserved(Window(f, t), rows, parts, "loss", d))
      IN /\ called = "persistent" => \A w \in DOMAIN parts : \E r \in mine(parts[w]) : r.missed > 0
         /\ ((\A w \in DOMAIN parts : mine(parts[w]) # {}) /\ (\A r \in Sampled(rows, d) : r.missed = r.probed))
              => called = "persistent"

\* A baseline that passes the gate hides of a later fault only what it had itself, and nothing of how
\* long it lasts.
BaselineHidesOnlyItsOwn == FaultsAreReported /\ LastingLossIsPersistent
=============================================================================
