---------------------------- MODULE FaultProofs ----------------------------
(***************************************************************************)
(* Proofs about the faults on a link (LinkFaults) and about those on a     *)
(* device (DeviceFaults): the tracker knows whatever an injection or a     *)
(* recovery has left behind.                                               *)
(***************************************************************************)
EXTENDS LinkFaults, DeviceFaults, TLAPS, WellFoundedInduction

----------------------------------------------------------------------------
(* The faults of a link *)

\* What the tracker answers for: while it recovers, what it has not recovered yet or could not recover.
Elems(s) == {s[i] : i \in DOMAIN s}
Recovering == main \in {"recovering", "joining"}
Tracked == IF Recovering THEN Elems(pending) \cup Elems(remaining) ELSE Elems(faults)
Rest == Elems(Tail(pending)) \cup Elems(remaining)

Injecting == main \in Kinds
Mending == main = "recovering" /\ job[Main] # NoJob

\* Who is in _set_physical_link, and for what.
Shape(j) ==
  /\ j.undo => j.lower /\ j.failed
  /\ j.lower /\ j.failed => j.undo
  /\ j.restoring => (j.lower => j.undo) /\ Head(j.left) \in j.snaps
JobsInv ==
  /\ main \in {"idle", "joining"} => job[Main] = NoJob
  /\ Injecting => job[Main] # NoJob /\ job[Main].lower
  /\ Mending => pending # <<>> /\ ~job[Main].lower /\ job[Main].snaps = Head(pending).snaps
  /\ main = "joining" => pending # <<>>
  /\ job[Flapper] # NoJob => flapper # "none"
  /\ \A t \in Threads : job[t] # NoJob => Shape(job[t])

\* The flapping thread belongs to a fault that is tracked, and that one is not recovered beside it.
HasTask(fs) == \E f \in fs : f.task
ThreadInv ==
  /\ flapper # "none" => HasTask(Tracked)
  /\ Mending /\ stopped /\ Head(pending).task => flapper = "none"
  /\ main = "link_flapping" => flapper = "none"

\* Where an injection that is under way may have left its mark, unless it is known to have failed to undo it.
Touched(j) == IF j.undo THEN Elems(j.left) ELSE Elems(j.tried)
Unsettled(j, e) == e \in Touched(j) \/ j.residual

UpInv ==
  /\ Tracked = {} /\ job[Main] = NoJob => \A e \in Ends : up[e]
  /\ Tracked = {} /\ Injecting => \A e \in Ends : ~up[e] => Unsettled(job[Main], e)
  /\ Mending => \/ HasTask(Rest) \/ ~stopped \/ job[Main].failed
                \/ flapper = "none" /\ \A e \in Ends : ~up[e] => e \in Elems(job[Main].left)

\* Who has taken the routes of a client away still knows them.
RoutesInv ==
  /\ \A e \in DOMAIN routes : routes[e] => up[e]
  /\ DOMAIN routes # {} => flapper = "none" /\ main # "link_flapping"
  /\ \A e \in DOMAIN routes : ~routes[e] =>
       \/ \E f \in Tracked : e \in f.snaps
       \/ Injecting /\ e \in job[Main].snaps /\ Unsettled(job[Main], e)
  /\ Injecting => \A e \in DOMAIN routes : routes[e] => e \in job[Main].snaps
  /\ Mending /\ ~job[Main].failed =>
       \A e \in DOMAIN routes : e \in Head(pending).snaps /\ ~routes[e] => e \in Elems(job[Main].left)

LinkInv == TypeOK /\ JobsInv /\ ThreadInv /\ UpInv /\ RoutesInv

----------------------------------------------------------------------------
(* Sequences and their elements *)

LEMMA ElemsEmpty == Elems(<<>>) = {}
  BY DEF Elems

LEMMA ElemsTail ==
  ASSUME NEW S, NEW s \in Seq(S), s # <<>>
  PROVE  Head(s) \in S /\ Tail(s) \in Seq(S) /\ Elems(s) = {Head(s)} \cup Elems(Tail(s))
<1>1. Head(s) \in S /\ Tail(s) \in Seq(S) /\ Len(s) \in Nat \ {0} /\ Len(Tail(s)) = Len(s) - 1 /\ Head(s) = s[1]
  OBVIOUS
<1>2. \A i \in 1..Len(Tail(s)) : Tail(s)[i] = s[i + 1]
  OBVIOUS
<1>3. \A i \in 1..Len(s) : i = 1 \/ (i - 1 \in 1..Len(Tail(s)) /\ s[i] = Tail(s)[i - 1])
  BY <1>1, <1>2
<1>4. \A i \in 1..Len(Tail(s)) : i + 1 \in 1..Len(s)
  BY <1>1
<1>5. DOMAIN s = 1..Len(s) /\ DOMAIN Tail(s) = 1..Len(Tail(s))
  BY <1>1
<1>6. Elems(s) \subseteq {Head(s)} \cup Elems(Tail(s))
  <2> SUFFICES ASSUME NEW i \in 1..Len(s) PROVE s[i] = Head(s) \/ s[i] \in Elems(Tail(s))
    BY <1>5 DEF Elems
  <2> QED  BY <1>1, <1>3, <1>5 DEF Elems
<1>7. {Head(s)} \cup Elems(Tail(s)) \subseteq Elems(s)
  BY <1>1, <1>2, <1>4, <1>5 DEF Elems
<1> QED
  BY <1>1, <1>6, <1>7

LEMMA ElemsAppend ==
  ASSUME NEW S, NEW s \in Seq(S), NEW x \in S
  PROVE  Append(s, x) \in Seq(S) /\ Append(s, x) # <<>> /\ Elems(Append(s, x)) = Elems(s) \cup {x}
<1>1. Append(s, x) \in Seq(S) /\ Len(s) \in Nat /\ Len(Append(s, x)) = Len(s) + 1
  OBVIOUS
<1>2. \A i \in 1..Len(s) + 1 : Append(s, x)[i] = IF i = Len(s) + 1 THEN x ELSE s[i]
  OBVIOUS
<1>3. DOMAIN s = 1..Len(s) /\ DOMAIN Append(s, x) = 1..Len(s) + 1
  BY <1>1
<1> QED
  BY <1>1, <1>2, <1>3 DEF Elems

LEMMA ElemsCons ==
  ASSUME NEW S, NEW s \in Seq(S), NEW x \in S
  PROVE  <<x>> \o s \in Seq(S) /\ Elems(<<x>> \o s) = Elems(s) \cup {x}
<1>1. <<x>> \o s \in Seq(S) /\ Len(s) \in Nat /\ Len(<<x>> \o s) = Len(s) + 1
  OBVIOUS
<1>2. \A i \in 1..Len(s) + 1 : (<<x>> \o s)[i] = IF i = 1 THEN x ELSE s[i - 1]
  OBVIOUS
<1>3. DOMAIN s = 1..Len(s) /\ DOMAIN (<<x>> \o s) = 1..Len(s) + 1
  BY <1>1
<1>4. Elems(<<x>> \o s) \subseteq Elems(s) \cup {x}
  BY <1>1, <1>2, <1>3 DEF Elems
<1>5. \A i \in 1..Len(s) : i + 1 \in 1..Len(s) + 1 /\ (<<x>> \o s)[i + 1] = s[i]
  BY <1>1, <1>2
<1>6. 1 \in 1..Len(s) + 1 /\ (<<x>> \o s)[1] = x
  BY <1>1, <1>2
<1>7. Elems(s) \cup {x} \subseteq Elems(<<x>> \o s)
  <2>1. x \in Elems(<<x>> \o s)
    BY <1>3, <1>6 DEF Elems
  <2>2. ASSUME NEW i \in 1..Len(s) PROVE s[i] \in Elems(<<x>> \o s)
    BY <1>3, <1>5 DEF Elems
  <2> QED  BY <1>3, <2>1, <2>2 DEF Elems
<1> QED
  BY <1>1, <1>4, <1>7

LEMMA ElemsIn ==
  ASSUME NEW S, NEW s \in Seq(S)
  PROVE  Elems(s) \subseteq S /\ (Elems(s) = {} => s = <<>>)
<1>1. Elems(s) \subseteq S
  BY DEF Elems
<1>2. ASSUME s # <<>> PROVE Head(s) \in Elems(s)
  BY <1>2, ElemsTail
<1> QED
  BY <1>1, <1>2

LEMMA ElemsPair == Elems(<<Target, Peer>>) = Ends
  BY DEF Elems, Ends

----------------------------------------------------------------------------
(* FaultTracker.remove_faults *)

\* Induction over the numbers up to m, for a set instead of a predicate.
LEMMA UpTo ==
  ASSUME NEW m \in Nat, NEW T, 0 \in T, \A n \in 0..m : n \in T /\ n < m => n + 1 \in T
  PROVE  0..m \subseteq T
<1> DEFINE bad == (0..m) \ T
           less == OpToRel(<, Nat)
<1> SUFFICES ASSUME bad # {} PROVE FALSE
  OBVIOUS
<1>1. bad \subseteq Nat
  OBVIOUS
<1>2. \A x, y \in Nat : y < x => <<y, x>> \in less
  BY DEF OpToRel
<1>3. IsWellFoundedOn(less, Nat)
  BY NatLessThanWellFounded
<1>4. PICK x \in bad : \A y \in bad : ~(<<y, x>> \in less)
  <2> HIDE DEF bad, less
  <2> QED  BY <1>1, <1>3, WFMin
<1>5. x \in Nat /\ x # 0 /\ x - 1 \in 0..m /\ x - 1 < m /\ (x - 1) + 1 = x /\ x - 1 < x /\ x - 1 \in Nat
  OBVIOUS
<1>6. x - 1 \notin bad
  <2> HIDE DEF bad, less
  <2>1. x - 1 \in Nat /\ <<x - 1, x>> \in less
    BY <1>2, <1>5
  <2> QED  BY <1>4, <2>1
<1> QED
  BY <1>5, <1>6

\* The function of Without exists, so that it is what its definition says.
LEMMA WithoutUnfolds ==
  ASSUME NEW S, NEW s \in Seq(S), NEW kinds
  PROVE  \E kept :
           /\ kept = [n \in 0..Len(s) |-> IF n = 0 THEN <<>>
                                          ELSE IF s[n].kind \in kinds THEN kept[n - 1]
                                          ELSE Append(kept[n - 1], s[n])]
           /\ Without(s, kinds) = kept[Len(s)]
<1> DEFINE m == Len(s)
           At(g, n) == IF n = 0 THEN <<>> ELSE IF s[n].kind \in kinds THEN g[n - 1] ELSE Append(g[n - 1], s[n])
           T == {n \in 0..m : \E g \in [0..m -> Seq(S)] : \A i \in 0..n : g[i] = At(g, i)}
<1>1. m \in Nat /\ \A i \in 1..m : s[i] \in S
  OBVIOUS
<1>2. 0 \in T
  <2> DEFINE g == [i \in 0..m |-> <<>>]
  <2>1. g \in [0..m -> Seq(S)]
    BY <1>1
  <2>2. ASSUME NEW i \in 0..0 PROVE g[i] = At(g, i)
    BY <1>1
  <2> HIDE DEF g, At
  <2> QED  BY <1>1, <2>1, <2>2
<1>3. ASSUME NEW n \in 0..m, n \in T, n < m PROVE n + 1 \in T
  <2>1. PICK g \in [0..m -> Seq(S)] : \A i \in 0..n : g[i] = At(g, i)
    BY <1>3
  <2> DEFINE h == [g EXCEPT ![n + 1] = At(g, n + 1)]
  <2>2. n + 1 \in 0..m /\ n + 1 # 0 /\ n \in 0..m /\ s[n + 1] \in S /\ (n + 1) - 1 = n
    BY <1>1, <1>3
  <2>3. At(g, n + 1) \in Seq(S)
    BY <2>1, <2>2
  <2>4. h \in [0..m -> Seq(S)] /\ h[n + 1] = At(g, n + 1) /\ \A i \in 0..n : h[i] = g[i]
    BY <2>2, <2>3
  <2>5. ASSUME NEW i \in 0..(n + 1) PROVE h[i] = At(h, i)
    <3>1. CASE i = 0
      BY <2>1, <2>4, <3>1
    <3>2. CASE i \in 1..n
      <4>1. i - 1 \in 0..n /\ i \in 0..n
        BY <3>2
      <4> QED  BY <2>1, <2>4, <4>1
    <3>3. CASE i = n + 1
      <4>1. h[n] = g[n]
        BY <2>4
      <4> QED  BY <2>2, <2>4, <3>3, <4>1
    <3> QED  BY <3>1, <3>2, <3>3
  <2> HIDE DEF h, At
  <2> QED  BY <2>2, <2>4, <2>5
<1>4. m \in T
  <2> HIDE DEF T, m
  <2>1. 0..m \subseteq T
    BY <1>1, <1>2, <1>3, UpTo
  <2> QED  BY <1>1, <2>1
<1>5. \E g \in [0..m -> Seq(S)] : g = [n \in 0..m |-> At(g, n)]
  <2>1. PICK g \in [0..m -> Seq(S)] : \A i \in 0..m : g[i] = At(g, i)
    BY <1>4
  <2> HIDE DEF At
  <2> QED  BY <2>1
<1> QED
  BY <1>5 DEF Without

LEMMA WithoutFacts ==
  ASSUME NEW S, NEW s \in Seq(S), NEW kinds
  PROVE  /\ Without(s, kinds) \in Seq(S)
         /\ Elems(Without(s, kinds)) = {f \in Elems(s) : f.kind \notin kinds}
         /\ Len(Without(s, kinds)) <= Len(s)
<1>1. PICK kept :
        /\ kept = [n \in 0..Len(s) |-> IF n = 0 THEN <<>>
                                       ELSE IF s[n].kind \in kinds THEN kept[n - 1]
                                       ELSE Append(kept[n - 1], s[n])]
        /\ Without(s, kinds) = kept[Len(s)]
  BY WithoutUnfolds
<1> DEFINE m == Len(s)
           First(n) == {f \in {s[i] : i \in 1..n} : f.kind \notin kinds}
           T == {n \in 0..m : kept[n] \in Seq(S) /\ Elems(kept[n]) = First(n) /\ Len(kept[n]) <= n}
<1>2. m \in Nat /\ \A i \in 1..m : s[i] \in S
  OBVIOUS
<1>3. \A n \in 0..m : kept[n] = IF n = 0 THEN <<>>
                                ELSE IF s[n].kind \in kinds THEN kept[n - 1]
                                ELSE Append(kept[n - 1], s[n])
  BY <1>1
<1>4. 0 \in T
  <2>1. kept[0] = <<>> /\ 0 \in 0..m
    BY <1>2, <1>3
  <2>2. First(0) = {}
    OBVIOUS
  <2>3. <<>> \in Seq(S) /\ Len(<<>>) <= 0
    OBVIOUS
  <2>4. Elems(kept[0]) = First(0)
    BY <2>1, <2>2, ElemsEmpty
  <2> HIDE DEF First
  <2> QED  BY <2>1, <2>3, <2>4
<1>5. ASSUME NEW n \in 0..m, n \in T, n < m PROVE n + 1 \in T
  <2>1. n + 1 \in 0..m /\ n + 1 # 0 /\ s[n + 1] \in S /\ (n + 1) - 1 = n
    BY <1>2, <1>5
  <2>2. kept[n] \in Seq(S) /\ Elems(kept[n]) = First(n) /\ Len(kept[n]) <= n /\ Len(kept[n]) <= n + 1
    BY <1>5
  <2>3. kept[n + 1] = IF s[n + 1].kind \in kinds THEN kept[n] ELSE Append(kept[n], s[n + 1])
    BY <1>3, <2>1
  <2>4. {s[i] : i \in 1..(n + 1)} = {s[i] : i \in 1..n} \cup {s[n + 1]}
    BY <1>5
  <2>5. First(n + 1) = IF s[n + 1].kind \in kinds THEN First(n) ELSE First(n) \cup {s[n + 1]}
    BY <2>4
  <2> HIDE DEF First
  <2>6. CASE s[n + 1].kind \in kinds
    BY <2>1, <2>2, <2>3, <2>5, <2>6
  <2>7. CASE s[n + 1].kind \notin kinds
    <3>1. /\ Append(kept[n], s[n + 1]) \in Seq(S) /\ Len(Append(kept[n], s[n + 1])) <= n + 1
          /\ Elems(Append(kept[n], s[n + 1])) = Elems(kept[n]) \cup {s[n + 1]}
      <4>1. Len(Append(kept[n], s[n + 1])) = Len(kept[n]) + 1 /\ Len(kept[n]) \in Nat
        BY <2>1, <2>2
      <4> QED  BY <2>1, <2>2, <4>1, ElemsAppend
    <3> QED  BY <2>1, <2>2, <2>3, <2>5, <2>7, <3>1
  <2> QED  BY <2>6, <2>7
<1>6. m \in T
  <2> HIDE DEF T, m
  <2>1. 0..m \subseteq T
    BY <1>2, <1>4, <1>5, UpTo
  <2> QED  BY <1>2, <2>1
<1>7. Elems(s) = {s[i] : i \in 1..m}
  BY DEF Elems
<1> QED
  BY <1>1, <1>6, <1>7


----------------------------------------------------------------------------
(* _set_physical_link *)

\* The routes of a link are those of its clients.
LEMMA RoutesType ==
  ASSUME TypeOK
  PROVE  DOMAIN routes \in Links /\ DOMAIN routes \subseteq Ends /\ routes \in [DOMAIN routes -> BOOLEAN]
  BY LinkAssumption DEF TypeOK, Ends

LEMMA JobType ==
  ASSUME TypeOK, NEW t \in Threads, job[t] # NoJob
  PROVE  job[t] \in Job
  BY DEF TypeOK

LEMMA SetLinkFacts ==
  ASSUME NEW lower \in BOOLEAN, NEW snaps \in SUBSET Ends
  PROVE  /\ SetLink(lower, snaps) \in Job /\ SetLink(lower, snaps) # NoJob /\ Shape(SetLink(lower, snaps))
         /\ SetLink(lower, snaps).lower = lower /\ SetLink(lower, snaps).snaps = snaps
         /\ Elems(SetLink(lower, snaps).left) = Ends /\ Elems(SetLink(lower, snaps).tried) = {}
         /\ SetLink(lower, snaps).undo = FALSE /\ SetLink(lower, snaps).failed = FALSE
         /\ SetLink(lower, snaps).residual = FALSE
<1>1. <<Target, Peer>> \in Seq(Ends) /\ <<>> \in Seq(Ends)
  BY DEF Ends
<1>2. SetLink(lower, snaps) \in Job
  BY <1>1 DEF SetLink, Job
<1> QED
  BY <1>2, JobAssumption, ElemsPair, ElemsEmpty DEF SetLink, Shape

\* What one step of a job does to it and to the endpoint that is next, whichever command it is.
OtherJobs(t) == job' \in [Threads -> Job \cup {NoJob}] /\ \A u \in Threads \ {t} : job'[u] = job[u]
SameTask(j, k) == k.lower = j.lower /\ k.snaps = j.snaps /\ (j.residual => k.residual)
Lowered(t) ==
  LET j == job[t]
      k == job'[t]
  IN  /\ j \in Job /\ k \in Job /\ SameTask(j, k) /\ Shape(k) /\ j.lower /\ OtherJobs(t)
      /\ up' \in [Ends -> BOOLEAN] /\ routes' \in [DOMAIN routes -> BOOLEAN] /\ DOMAIN routes' = DOMAIN routes
      /\ \A e \in Ends : up'[e] # up[e] => e \in Touched(k)
      /\ Touched(j) \subseteq Touched(k)
      /\ \A e \in Ends : up'[e] => up[e]
      /\ \A e \in DOMAIN routes : routes'[e] <=> routes[e] /\ up'[e]
Raised(t) ==
  LET j == job[t]
      k == job'[t]
  IN  /\ j \in Job /\ k \in Job /\ SameTask(j, k) /\ Shape(k) /\ k.undo = j.undo /\ k.tried = j.tried /\ OtherJobs(t)
      /\ j.failed => k.failed
      /\ j.lower => j.undo
      /\ up' \in [Ends -> BOOLEAN] /\ routes' \in [DOMAIN routes -> BOOLEAN] /\ DOMAIN routes' = DOMAIN routes
      /\ \A e \in Ends : up[e] => up'[e]
      /\ \A e \in DOMAIN routes : (routes[e] => routes'[e]) /\ (routes'[e] => routes[e] \/ up'[e])
      /\ \A e \in Elems(j.left) :
           \/ e \in Elems(k.left)
           \/ up'[e] /\ (e \in DOMAIN routes /\ e \in j.snaps => routes'[e])
           \/ IF j.undo THEN k.residual ELSE k.failed
      /\ \A e \in DOMAIN routes : routes'[e] /\ ~routes[e] => e \in j.snaps

LEMMA LowerEndFacts ==
  ASSUME TypeOK, JobsInv, NEW t \in Threads, LowerEnd(t)
  PROVE  Lowered(t)
<1> DEFINE j == job[t]
           k == job'[t]
           e == Head(j.left)
           tried == <<e>> \o j.tried
<1>1. j \in Job /\ j # NoJob /\ j.left # <<>> /\ j.lower /\ ~j.undo /\ Shape(j)
  BY JobType DEF LowerEnd, Busy, JobsInv
<1>2. j.left \in Seq(Ends) /\ j.tried \in Seq(Ends)
  BY <1>1 DEF Job
<1>3. e \in Ends /\ Tail(j.left) \in Seq(Ends)
  BY <1>1, <1>2, ElemsTail
<1>4. tried \in Seq(Ends) /\ Elems(tried) = Elems(j.tried) \cup {e}
  BY <1>2, <1>3, ElemsCons
<1>5. job' = [job EXCEPT ![t] = k] /\ job \in [Threads -> Job \cup {NoJob}]
  BY DEF LowerEnd, TypeOK
<1>6. up' \in {up, [up EXCEPT ![e] = FALSE]} /\ up \in [Ends -> BOOLEAN]
  BY DEF LowerEnd, TypeOK
<1>7. /\ up' \in [Ends -> BOOLEAN]
      /\ \A x \in Ends : (up'[x] => up[x]) /\ (up'[x] # up[x] => x = e)
  BY <1>3, <1>6
<1>8. routes' = [x \in DOMAIN routes |-> routes[x] /\ up'[x]]
  BY DEF LowerEnd
<1>9. /\ routes' \in [DOMAIN routes -> BOOLEAN] /\ DOMAIN routes' = DOMAIN routes
      /\ \A x \in DOMAIN routes : routes'[x] <=> routes[x] /\ up'[x]
  <2>1. DOMAIN routes \subseteq Ends /\ routes \in [DOMAIN routes -> BOOLEAN]
    BY RoutesType
  <2> QED  BY <1>7, <1>8, <2>1
<1>10. k \in Job /\ SameTask(j, k) /\ Shape(k) /\ Touched(k) = Elems(tried)
  <2>1. CASE k = [NextEnd(j) EXCEPT !.tried = tried]
    <3>1. /\ k \in Job /\ k.lower = j.lower /\ k.snaps = j.snaps /\ k.residual = j.residual
          /\ k.undo = j.undo /\ k.failed = j.failed /\ k.restoring = FALSE /\ k.tried = tried
      BY <1>1, <1>3, <1>4, <2>1 DEF NextEnd, Job
    <3> QED  BY <1>1, <3>1 DEF SameTask, Shape, Touched
  <2>2. CASE k = [j EXCEPT !.failed = TRUE, !.undo = TRUE, !.left = tried]
    <3>1. /\ k \in Job /\ k.lower = j.lower /\ k.snaps = j.snaps /\ k.residual = j.residual
          /\ k.undo = TRUE /\ k.failed = TRUE /\ k.left = tried /\ k.restoring = j.restoring
      BY <1>1, <1>4, <2>2 DEF Job
    <3>2. ~j.restoring
      BY <1>1 DEF Shape
    <3> QED  BY <1>1, <3>1, <3>2 DEF SameTask, Shape, Touched
  <2> QED  BY <1>5, <2>1, <2>2 DEF LowerEnd
<1>11. Touched(j) = Elems(j.tried)
  BY <1>1 DEF Touched
<1>12. OtherJobs(t)
  BY <1>5, <1>10 DEF OtherJobs
<1> HIDE DEF j, k, e, tried
<1>13. /\ j \in Job /\ k \in Job /\ SameTask(j, k) /\ Shape(k) /\ j.lower /\ OtherJobs(t)
       /\ up' \in [Ends -> BOOLEAN] /\ routes' \in [DOMAIN routes -> BOOLEAN] /\ DOMAIN routes' = DOMAIN routes
       /\ \A x \in Ends : up'[x] # up[x] => x \in Touched(k)
       /\ Touched(j) \subseteq Touched(k)
       /\ \A x \in Ends : up'[x] => up[x]
       /\ \A x \in DOMAIN routes : routes'[x] <=> routes[x] /\ up'[x]
  BY <1>1, <1>4, <1>7, <1>9, <1>10, <1>11, <1>12
<1> QED
  BY <1>13 DEF Lowered, j, k

\* NextEnd and Failed, which end the work on an endpoint.
LEMMA NextEndFacts ==
  ASSUME NEW j \in Job, j.left # <<>>, Shape(j)
  PROVE  LET k == NextEnd(j)
         IN  /\ k \in Job /\ Shape(k) /\ k.lower = j.lower /\ k.snaps = j.snaps /\ k.undo = j.undo
             /\ k.tried = j.tried /\ k.failed = j.failed /\ k.residual = j.residual
             /\ Elems(j.left) = {Head(j.left)} \cup Elems(k.left) /\ Head(j.left) \in Ends
<1>1. j.left \in Seq(Ends)
  BY DEF Job
<1>2. Head(j.left) \in Ends /\ Tail(j.left) \in Seq(Ends) /\ Elems(j.left) = {Head(j.left)} \cup Elems(Tail(j.left))
  BY <1>1, ElemsTail
<1>3. /\ NextEnd(j) \in Job /\ NextEnd(j).lower = j.lower /\ NextEnd(j).snaps = j.snaps /\ NextEnd(j).undo = j.undo
      /\ NextEnd(j).tried = j.tried /\ NextEnd(j).failed = j.failed /\ NextEnd(j).residual = j.residual
      /\ NextEnd(j).left = Tail(j.left) /\ NextEnd(j).restoring = FALSE
  BY <1>2 DEF NextEnd, Job
<1> QED
  BY <1>2, <1>3 DEF Shape

LEMMA FailedFacts ==
  ASSUME NEW j \in Job, Shape(j), j.lower => j.undo
  PROVE  LET k == Failed(j)
         IN  /\ k \in Job /\ Shape(k) /\ k.lower = j.lower /\ k.snaps = j.snaps /\ k.undo = j.undo
             /\ k.tried = j.tried /\ k.left = j.left /\ (j.failed => k.failed) /\ (j.residual => k.residual)
             /\ IF j.undo THEN k.residual ELSE k.failed
<1>1. CASE j.undo
  BY <1>1 DEF Failed, Job, Shape
<1>2. CASE ~j.undo
  BY <1>2 DEF Failed, Job, Shape
<1> QED
  BY <1>1, <1>2

LEMMA RaiseEndFacts ==
  ASSUME TypeOK, JobsInv, NEW t \in Threads, RaiseEnd(t)
  PROVE  Raised(t)
<1> DEFINE j == job[t]
           k == job'[t]
           e == Head(j.left)
<1>1. j \in Job /\ j # NoJob /\ j.left # <<>> /\ (j.lower => j.undo) /\ Shape(j)
  BY JobType DEF RaiseEnd, Busy, JobsInv
<1>2. e \in Ends
  BY <1>1, NextEndFacts
<1>3. job' = [job EXCEPT ![t] = k] /\ job \in [Threads -> Job \cup {NoJob}]
  BY DEF RaiseEnd, TypeOK
<1>4. /\ up' \in [Ends -> BOOLEAN]
      /\ \A x \in Ends : up[x] => up'[x]
  BY <1>2 DEF RaiseEnd, TypeOK
<1>5. routes' = routes /\ routes \in [DOMAIN routes -> BOOLEAN]
  BY RoutesType DEF RaiseEnd
<1>6. /\ k \in Job /\ SameTask(j, k) /\ Shape(k) /\ k.undo = j.undo /\ k.tried = j.tried /\ (j.failed => k.failed)
      /\ \A x \in Elems(j.left) : \/ x \in Elems(k.left)
                                  \/ up'[x] /\ x \notin j.snaps
                                  \/ IF j.undo THEN k.residual ELSE k.failed
  <2>1. CASE e \in j.snaps /\ k = [j EXCEPT !.restoring = TRUE]
    <3>1. /\ k \in Job /\ k.lower = j.lower /\ k.snaps = j.snaps /\ k.residual = j.residual
          /\ k.undo = j.undo /\ k.failed = j.failed /\ k.restoring = TRUE /\ k.tried = j.tried /\ k.left = j.left
      BY <1>1, <2>1 DEF Job
    <3> QED  BY <1>1, <2>1, <3>1 DEF SameTask, Shape
  <2>2. CASE e \notin j.snaps /\ k = NextEnd(j) /\ up' = [up EXCEPT ![e] = TRUE]
    <3>1. up'[e]
      BY <1>2, <2>2 DEF TypeOK
    <3> QED  BY <1>1, <2>2, <3>1, NextEndFacts DEF SameTask
  <2>3. CASE k = NextEnd(Failed(j))
    <3>1. /\ Failed(j) \in Job /\ Shape(Failed(j)) /\ Failed(j).left = j.left /\ Failed(j).undo = j.undo
          /\ Failed(j).tried = j.tried /\ Failed(j).lower = j.lower /\ Failed(j).snaps = j.snaps
          /\ (j.failed => Failed(j).failed) /\ (j.residual => Failed(j).residual)
          /\ IF j.undo THEN Failed(j).residual ELSE Failed(j).failed
      BY <1>1, FailedFacts
    <3>2. /\ k \in Job /\ Shape(k) /\ k.lower = j.lower /\ k.snaps = j.snaps /\ k.undo = j.undo
          /\ k.tried = j.tried /\ k.failed = Failed(j).failed /\ k.residual = Failed(j).residual
      BY <1>1, <2>3, <3>1, NextEndFacts
    <3> QED  BY <3>1, <3>2 DEF SameTask
  <2> QED  BY <1>3, <2>1, <2>2, <2>3 DEF RaiseEnd
<1>7. OtherJobs(t)
  BY <1>3, <1>6 DEF OtherJobs
<1> HIDE DEF j, k, e
<1>8. /\ j \in Job /\ k \in Job /\ SameTask(j, k) /\ Shape(k) /\ k.undo = j.undo /\ k.tried = j.tried /\ OtherJobs(t)
      /\ j.failed => k.failed
      /\ j.lower => j.undo
      /\ up' \in [Ends -> BOOLEAN] /\ routes' \in [DOMAIN routes -> BOOLEAN] /\ DOMAIN routes' = DOMAIN routes
      /\ \A x \in Ends : up[x] => up'[x]
      /\ \A x \in DOMAIN routes : (routes[x] => routes'[x]) /\ (routes'[x] => routes[x] \/ up'[x])
      /\ \A x \in Elems(j.left) :
           \/ x \in Elems(k.left)
           \/ up'[x] /\ (x \in DOMAIN routes /\ x \in j.snaps => routes'[x])
           \/ IF j.undo THEN k.residual ELSE k.failed
      /\ \A x \in DOMAIN routes : routes'[x] /\ ~routes[x] => x \in j.snaps
  BY <1>1, <1>4, <1>5, <1>6, <1>7
<1> QED
  BY <1>8 DEF Raised, j, k

LEMMA RestoreRoutesFacts ==
  ASSUME TypeOK, JobsInv, NEW t \in Threads, RestoreRoutes(t)
  PROVE  Raised(t)
<1> DEFINE j == job[t]
           k == job'[t]
           e == Head(j.left)
<1>1. j \in Job /\ j # NoJob /\ j.left # <<>> /\ (j.lower => j.undo) /\ Shape(j) /\ e \in j.snaps
  BY JobType DEF RestoreRoutes, Busy, JobsInv, Shape
<1>2. e \in Ends
  BY <1>1, NextEndFacts
<1>3. job' = [job EXCEPT ![t] = k] /\ job \in [Threads -> Job \cup {NoJob}]
  BY DEF RestoreRoutes, TypeOK
<1>4. up' = up /\ up \in [Ends -> BOOLEAN]
  BY DEF RestoreRoutes, TypeOK
<1>5. /\ routes' \in [DOMAIN routes -> BOOLEAN] /\ DOMAIN routes' = DOMAIN routes
      /\ \A x \in DOMAIN routes : (routes[x] => routes'[x]) /\ (routes'[x] => routes[x] \/ up'[x])
      /\ \A x \in DOMAIN routes : routes'[x] /\ ~routes[x] => x \in j.snaps
  <2>1. routes \in [DOMAIN routes -> BOOLEAN] /\ up[e] \in BOOLEAN
    BY <1>2, <1>4, RoutesType
  <2>2. \/ up[e] /\ routes' = [routes EXCEPT ![e] = TRUE]
        \/ routes' = routes
        \/ routes' = [routes EXCEPT ![e] = routes[e] \/ up[e]]
    BY DEF RestoreRoutes
  <2>3. CASE e \notin DOMAIN routes
    <3>1. routes' = routes
      BY <2>1, <2>2, <2>3
    <3> QED  BY <2>1, <3>1
  <2>4. CASE e \in DOMAIN routes
    BY <1>1, <1>4, <2>1, <2>2, <2>4
  <2> QED  BY <2>3, <2>4
<1>6. /\ k \in Job /\ SameTask(j, k) /\ Shape(k) /\ k.undo = j.undo /\ k.tried = j.tried /\ (j.failed => k.failed)
      /\ \A x \in Elems(j.left) : \/ x \in Elems(k.left)
                                  \/ up'[x] /\ (x \in DOMAIN routes => routes'[x])
                                  \/ IF j.undo THEN k.residual ELSE k.failed
  <2>1. CASE k = NextEnd(j) /\ up[e] /\ routes' = [routes EXCEPT ![e] = TRUE]
    <3>1. up'[e] /\ (e \in DOMAIN routes => routes'[e])
      BY <1>4, <2>1, RoutesType
    <3> QED  BY <1>1, <2>1, <3>1, NextEndFacts DEF SameTask
  <2>2. CASE k = NextEnd(Failed(j))
    <3>1. /\ Failed(j) \in Job /\ Shape(Failed(j)) /\ Failed(j).left = j.left /\ Failed(j).undo = j.undo
          /\ Failed(j).tried = j.tried /\ Failed(j).lower = j.lower /\ Failed(j).snaps = j.snaps
          /\ (j.failed => Failed(j).failed) /\ (j.residual => Failed(j).residual)
          /\ IF j.undo THEN Failed(j).residual ELSE Failed(j).failed
      BY <1>1, FailedFacts
    <3>2. /\ k \in Job /\ Shape(k) /\ k.lower = j.lower /\ k.snaps = j.snaps /\ k.undo = j.undo
          /\ k.tried = j.tried /\ k.failed = Failed(j).failed /\ k.residual = Failed(j).residual
      BY <1>1, <2>2, <3>1, NextEndFacts
    <3> QED  BY <3>1, <3>2 DEF SameTask
  <2> QED  BY <1>3, <2>1, <2>2 DEF RestoreRoutes
<1>7. OtherJobs(t)
  BY <1>3, <1>6 DEF OtherJobs
<1> HIDE DEF j, k, e
<1>8. /\ j \in Job /\ k \in Job /\ SameTask(j, k) /\ Shape(k) /\ k.undo = j.undo /\ k.tried = j.tried /\ OtherJobs(t)
      /\ j.failed => k.failed
      /\ j.lower => j.undo
      /\ up' \in [Ends -> BOOLEAN] /\ routes' \in [DOMAIN routes -> BOOLEAN] /\ DOMAIN routes' = DOMAIN routes
      /\ \A x \in Ends : up[x] => up'[x]
      /\ \A x \in DOMAIN routes : (routes[x] => routes'[x]) /\ (routes'[x] => routes[x] \/ up'[x])
      /\ \A x \in Elems(j.left) :
           \/ x \in Elems(k.left)
           \/ up'[x] /\ (x \in DOMAIN routes /\ x \in j.snaps => routes'[x])
           \/ IF j.undo THEN k.residual ELSE k.failed
      /\ \A x \in DOMAIN routes : routes'[x] /\ ~routes[x] => x \in j.snaps
  BY <1>1, <1>4, <1>5, <1>6, <1>7
<1> QED
  BY <1>8 DEF Raised, j, k

----------------------------------------------------------------------------
(* One step of a job *)

KeepsRest == UNCHANGED <<faults, main, recoveryVars, flapVars>>

LEMMA JobTypes ==
  ASSUME TypeOK, NEW t \in Threads, Lowered(t) \/ Raised(t), KeepsRest
  PROVE  TypeOK'
<1>1. job' \in [Threads -> Job \cup {NoJob}] /\ up' \in [Ends -> BOOLEAN]
  BY DEF Lowered, Raised, OtherJobs
<1>2. routes' \in [DOMAIN routes -> BOOLEAN] /\ DOMAIN routes \in Links
  BY RoutesType DEF Lowered, Raised
<1> QED
  BY <1>1, <1>2 DEF TypeOK, KeepsRest, recoveryVars, flapVars

LEMMA JobJobs ==
  ASSUME TypeOK, JobsInv, NEW t \in Threads, job[t] # NoJob, Lowered(t) \/ Raised(t), KeepsRest
  PROVE  JobsInv' /\ job'[t] # NoJob
<1>1. /\ job'[t] \in Job /\ job'[t] # NoJob /\ job'[t].lower = job[t].lower /\ job'[t].snaps = job[t].snaps
      /\ Shape(job'[t]) /\ \A u \in Threads \ {t} : job'[u] = job[u]
  BY JobAssumption DEF Lowered, Raised, SameTask, OtherJobs
<1>2. main' = main /\ pending' = pending /\ flapper' = flapper
  BY DEF KeepsRest, recoveryVars, flapVars
<1>3. Main \in Threads /\ Flapper \in Threads /\ Main # Flapper
  BY ThreadsAssumption DEF Threads
<1>4. /\ main' \in {"idle", "joining"} => job'[Main] = NoJob
      /\ main' \in Kinds => job'[Main] # NoJob /\ job'[Main].lower
      /\ main' = "recovering" /\ job'[Main] # NoJob =>
           pending' # <<>> /\ ~job'[Main].lower /\ job'[Main].snaps = Head(pending').snaps
      /\ main' = "joining" => pending' # <<>>
  <2>1. CASE t = Main
    BY <1>1, <1>2, <2>1 DEF JobsInv, Injecting, Mending
  <2>2. CASE t # Main
    <3>1. job'[Main] = job[Main]
      BY <1>1, <1>3, <2>2
    <3> QED  BY <1>2, <3>1 DEF JobsInv, Injecting, Mending
  <2> QED  BY <2>1, <2>2
<1>5. job'[Flapper] # NoJob => flapper' # "none"
  BY <1>1, <1>2, <1>3 DEF JobsInv
<1>6. \A u \in Threads : job'[u] # NoJob => Shape(job'[u])
  BY <1>1 DEF JobsInv
<1> QED
  BY <1>1, <1>4, <1>5, <1>6 DEF JobsInv, Injecting, Mending

\* While the flapping thread works, no client is on the link and a tracked fault can stop the thread.
LEMMA FlapperJob ==
  ASSUME LinkInv, job[Flapper] # NoJob, Lowered(Flapper) \/ Raised(Flapper), KeepsRest
  PROVE  LinkInv'
<1>1. Flapper \in Threads /\ Main \in Threads /\ Main # Flapper
  BY ThreadsAssumption DEF Threads
<1>2. TypeOK' /\ JobsInv'
  BY <1>1, JobTypes, JobJobs DEF LinkInv
<1>3. job'[Main] = job[Main] /\ DOMAIN routes' = DOMAIN routes
  BY <1>1 DEF Lowered, Raised, OtherJobs
<1>4. flapper # "none" /\ flapper' # "none" /\ DOMAIN routes = {} /\ HasTask(Tracked)
  BY DEF LinkInv, JobsInv, ThreadInv, RoutesInv, KeepsRest, flapVars
<1>5. Tracked' = Tracked /\ Rest' = Rest /\ main' = main /\ pending' = pending /\ stopped' = stopped
  BY DEF KeepsRest, recoveryVars, Tracked, Recovering, Rest
<1>6. ThreadInv'
  BY <1>3, <1>4, <1>5 DEF LinkInv, ThreadInv, Mending, KeepsRest, flapVars
<1>7. UpInv'
  BY <1>3, <1>4, <1>5 DEF LinkInv, UpInv, Mending, HasTask
<1>8. RoutesInv'
  BY <1>3, <1>4, <1>5 DEF LinkInv, RoutesInv, ThreadInv, KeepsRest, flapVars
<1> QED
  BY <1>2, <1>6, <1>7, <1>8 DEF LinkInv

\* An injection takes the endpoints down.
LEMMA MainLowers ==
  ASSUME LinkInv, job[Main] # NoJob, Lowered(Main), KeepsRest
  PROVE  LinkInv'
<1>1. Main \in Threads
  BY DEF Threads
<1>2. TypeOK' /\ JobsInv' /\ job'[Main] # NoJob
  BY <1>1, JobTypes, JobJobs DEF LinkInv
<1>3. main \in Kinds /\ main' = main /\ ~Mending /\ ~Mending'
  BY <1>1 DEF LinkInv, JobsInv, Injecting, Mending, Lowered, KeepsRest, TypeOK, Kinds
<1>4. Tracked' = Tracked /\ flapper' = flapper
  BY DEF KeepsRest, recoveryVars, flapVars, Tracked, Recovering
<1>5. \A e \in Ends : Unsettled(job[Main], e) \/ up'[e] # up[e] => Unsettled(job[Main], e)'
  BY DEF Lowered, Unsettled, SameTask
<1>6. DOMAIN routes \subseteq Ends /\ DOMAIN routes' = DOMAIN routes /\ job'[Main].snaps = job[Main].snaps
  BY RoutesType DEF LinkInv, Lowered, SameTask
<1>7. ThreadInv'
  BY <1>3, <1>4 DEF LinkInv, ThreadInv
<1>8. UpInv'
  BY <1>2, <1>3, <1>4, <1>5 DEF LinkInv, UpInv, Injecting
<1>9. RoutesInv'
  <2>1. \A e \in DOMAIN routes : (routes'[e] => routes[e] /\ up'[e]) /\ (routes[e] /\ ~routes'[e] => up[e] /\ ~up'[e])
    BY DEF Lowered, LinkInv, RoutesInv
  <2>2. Injecting /\ Injecting'
    BY <1>3 DEF Injecting
  <2>3. \A e \in DOMAIN routes : routes[e] => e \in job'[Main].snaps
    BY <1>6, <2>2 DEF LinkInv, RoutesInv
  <2>4. ASSUME NEW e \in DOMAIN routes, ~routes'[e]
        PROVE  (\E f \in Tracked : e \in f.snaps) \/ (e \in job'[Main].snaps /\ Unsettled(job[Main], e)')
    <3>1. CASE routes[e]
      <4>1. e \in Ends /\ up'[e] # up[e]
        BY <1>6, <2>1, <2>4, <3>1
      <4> QED  BY <1>5, <2>3, <3>1, <4>1
    <3>2. CASE ~routes[e]
      <4>1. e \in Ends
        BY <1>6
      <4>2. (\E f \in Tracked : e \in f.snaps) \/ (e \in job[Main].snaps /\ Unsettled(job[Main], e))
        BY <3>2 DEF LinkInv, RoutesInv
      <4> QED  BY <1>5, <1>6, <4>1, <4>2
    <3> QED  BY <3>1, <3>2
  <2> QED  BY <1>3, <1>4, <1>6, <2>1, <2>2, <2>3, <2>4 DEF LinkInv, RoutesInv
<1> QED
  BY <1>2, <1>7, <1>8, <1>9 DEF LinkInv

\* A compensation and a recovery bring them up.
LEMMA MainRaises ==
  ASSUME LinkInv, job[Main] # NoJob, Raised(Main), KeepsRest
  PROVE  LinkInv'
<1> DEFINE j == job[Main]
           k == job'[Main]
<1>1. Main \in Threads
  BY DEF Threads
<1>2. TypeOK' /\ JobsInv' /\ k # NoJob /\ JobsInv /\ TypeOK
  BY <1>1, JobTypes, JobJobs DEF LinkInv
<1>3. main' = main /\ Tracked' = Tracked /\ Rest' = Rest /\ flapper' = flapper /\ pending' = pending /\ stopped' = stopped
  BY DEF KeepsRest, recoveryVars, flapVars, Tracked, Recovering, Rest
<1>4. (Injecting' <=> Injecting) /\ (Mending' <=> Mending)
  BY <1>2, <1>3 DEF Injecting, Mending
<1>5. DOMAIN routes \subseteq Ends /\ DOMAIN routes' = DOMAIN routes /\ k.snaps = j.snaps
  BY <1>2, RoutesType DEF Raised, SameTask
<1>6. /\ \A e \in Ends : up[e] => up'[e]
      /\ \A e \in DOMAIN routes : (routes[e] => routes'[e]) /\ (routes'[e] => up'[e])
  BY <1>5 DEF Raised, LinkInv, RoutesInv
<1>7. /\ \A e \in Elems(j.left) : \/ e \in Elems(k.left)
                                  \/ up'[e] /\ (e \in DOMAIN routes /\ e \in j.snaps => routes'[e])
                                  \/ IF j.undo THEN k.residual ELSE k.failed
      /\ (j.residual => k.residual) /\ (j.failed => k.failed) /\ k.undo = j.undo
  BY DEF Raised, SameTask
<1>8. ASSUME Injecting, NEW e \in Ends, Unsettled(j, e)
      PROVE  Unsettled(k, e) \/ (up'[e] /\ (e \in DOMAIN routes /\ e \in j.snaps => routes'[e]))
  <2>1. j.undo
    BY <1>8, <1>2 DEF JobsInv, Raised
  <2> QED  BY <1>7, <1>8, <2>1 DEF Unsettled, Touched
<1>9. Mending => ~j.undo
  BY <1>1, <1>2 DEF Mending, JobsInv, Shape
<1>10. Unsettled(job[Main], 0)' = Unsettled(k, 0) /\ job[Main]' = k
  BY DEF Unsettled
<1> HIDE DEF j, k
<1>11. ThreadInv'
  BY <1>3, <1>4 DEF LinkInv, ThreadInv
<1>12. UpInv'
  <2>1. ~(Tracked' = {} /\ job'[Main] = NoJob)
    BY <1>2 DEF k
  <2>2. Tracked' = {} /\ Injecting' => \A e \in Ends : ~up'[e] => Unsettled(k, e)
    BY <1>3, <1>4, <1>6, <1>8 DEF LinkInv, UpInv, j
  <2>3. Mending' => \/ HasTask(Rest) \/ ~stopped \/ k.failed
                    \/ flapper = "none" /\ \A e \in Ends : ~up'[e] => e \in Elems(k.left)
    <3> SUFFICES ASSUME Mending, ~HasTask(Rest), stopped, ~k.failed
                 PROVE  flapper = "none" /\ \A e \in Ends : ~up'[e] => e \in Elems(k.left)
      BY <1>4
    <3>1. flapper = "none" /\ \A e \in Ends : ~up[e] => e \in Elems(j.left)
      BY <1>7 DEF LinkInv, UpInv, j
    <3> QED  BY <1>6, <1>7, <1>9, <3>1
  <2> QED  BY <1>3, <2>1, <2>2, <2>3 DEF UpInv, HasTask, k
<1>13. RoutesInv'
  <2>1. DOMAIN routes # {} => flapper = "none" /\ main # "link_flapping"
    BY DEF LinkInv, RoutesInv
  <2>2. ASSUME NEW e \in DOMAIN routes, ~routes'[e]
        PROVE  (\E f \in Tracked : e \in f.snaps) \/ (Injecting /\ e \in k.snaps /\ Unsettled(k, e))
    <3>1. (\E f \in Tracked : e \in f.snaps) \/ (Injecting /\ e \in j.snaps /\ Unsettled(j, e))
      BY <1>6, <2>2 DEF LinkInv, RoutesInv, j
    <3>2. e \in Ends
      BY <1>5
    <3> QED  BY <1>5, <1>8, <2>2, <3>1, <3>2
  <2>3. ASSUME Injecting, NEW e \in DOMAIN routes, routes'[e] PROVE e \in k.snaps
    <3>1. CASE routes[e]
      BY <1>5, <2>3, <3>1 DEF LinkInv, RoutesInv, j
    <3>2. CASE ~routes[e]
      BY <1>5, <2>3, <3>2 DEF Raised, j
    <3> QED  BY <3>1, <3>2
  <2>4. ASSUME Mending, ~k.failed, NEW e \in DOMAIN routes, e \in Head(pending).snaps, ~routes'[e]
        PROVE  e \in Elems(k.left)
    <3>1. ~j.failed /\ ~routes[e] /\ j.snaps = Head(pending).snaps
      BY <1>2, <1>6, <1>7, <2>4 DEF JobsInv, j
    <3>2. e \in Elems(j.left)
      BY <2>4, <3>1 DEF LinkInv, RoutesInv, j
    <3> QED  BY <1>7, <1>9, <2>4, <3>1, <3>2
  <2> QED  BY <1>3, <1>4, <1>5, <1>6, <2>1, <2>2, <2>3, <2>4 DEF RoutesInv, k
<1> QED
  BY <1>2, <1>11, <1>12, <1>13 DEF LinkInv

----------------------------------------------------------------------------
(* The steps around a job *)

\* Nobody injects link_flapping where a flap takes the routes of a client with it.
NoAccessFlapping == (\A clients \in Links : clients = {}) \/ "link_flapping" \notin AccessKinds

LEMMA SnapshotType == TypeOK => Snapshot \in SUBSET Ends
  BY RoutesType DEF Snapshot

LEMMA MainIsThread == Main \in Threads /\ Flapper \in Threads /\ Main # Flapper
  BY ThreadsAssumption DEF Threads

LEMMA InjectStep ==
  ASSUME LinkInv, NoAccessFlapping, NEW kind \in Kinds, Inject(kind)
  PROVE  LinkInv'
<1> DEFINE k == SetLink(TRUE, Snapshot)
<1>1. /\ k \in Job /\ k # NoJob /\ Shape(k) /\ k.lower = TRUE /\ k.snaps = Snapshot
      /\ Elems(k.left) = Ends /\ Elems(k.tried) = {} /\ k.failed = FALSE
  BY SetLinkFacts, SnapshotType DEF LinkInv
<1>2. job' = [job EXCEPT ![Main] = k] /\ main = "idle" /\ main' = kind
  BY DEF Inject, StartJob
<1> HIDE DEF k
<1>3. UNCHANGED <<linkVars, faults, recoveryVars, flapVars>>
  BY DEF Inject
<1>4. TypeOK'
  BY <1>1, <1>2, <1>3, MainIsThread DEF LinkInv, TypeOK, linkVars, recoveryVars, flapVars, Kinds
<1>5. job'[Main] = k /\ job'[Flapper] = job[Flapper] /\ job[Main] = NoJob
  BY <1>2, MainIsThread DEF LinkInv, TypeOK, JobsInv
<1>6. main' \in Kinds /\ main' \notin {"idle", "joining", "recovering"}
  BY <1>2 DEF Kinds
<1>7. JobsInv'
  BY <1>1, <1>3, <1>5, <1>6 DEF LinkInv, JobsInv, Injecting, Mending, flapVars, Threads
<1>8. Tracked' = Tracked /\ ~Mending' /\ Injecting' /\ ~Recovering
  BY <1>2, <1>3, <1>6 DEF Tracked, Recovering, Mending, Injecting
<1>9. flapper' = flapper /\ (main' = "link_flapping" => flapper = "none")
  BY <1>2, <1>3 DEF Inject, flapVars
<1>10. ThreadInv'
  BY <1>8, <1>9 DEF LinkInv, ThreadInv
<1>11. UpInv'
  <2>1. Tracked = {} => \A e \in Ends : up[e]
    BY <1>5 DEF LinkInv, UpInv
  <2> QED  BY <1>1, <1>3, <1>5, <1>8, <2>1 DEF UpInv, linkVars
<1>12. RoutesInv'
  <2>1. DOMAIN routes # {} => flapper = "none" /\ main' # "link_flapping"
    BY <1>2, RoutesType DEF Inject, NoAccessFlapping, LinkInv, RoutesInv
  <2>2. ~Injecting
    BY <1>2 DEF Injecting, Kinds
  <2>3. \A e \in DOMAIN routes : ~routes[e] => \E f \in Tracked : e \in f.snaps
    BY <2>2 DEF LinkInv, RoutesInv
  <2>4. \A e \in DOMAIN routes : routes[e] => e \in k.snaps
    BY <1>1 DEF Snapshot
  <2>5. \A e \in DOMAIN routes : routes[e] => up[e]
    BY DEF LinkInv, RoutesInv
  <2> QED  BY <1>3, <1>5, <1>8, <1>9, <2>1, <2>3, <2>4, <2>5 DEF RoutesInv, linkVars
<1> QED
  BY <1>4, <1>7, <1>10, <1>11, <1>12 DEF LinkInv

\* An injection that ends tracks its fault, unless everything it did is undone.
LEMMA InjectedStep ==
  ASSUME LinkInv, main \in Kinds, JobEnded(Main), EndJob(Main), main' = "idle", UNCHANGED <<linkVars, recoveryVars>>,
         faults' \in Seq(Fault),
         \/ faults' = faults /\ ~Succeeded(Main) /\ ~job[Main].residual /\ flapper' = flapper
         \/ \E f \in Fault : /\ faults' = Append(faults, f)
                             /\ DOMAIN routes # {} => f.snaps = job[Main].snaps
                             /\ flapper' # flapper => f.task,
         \/ UNCHANGED flapVars
         \/ /\ main = "link_flapping" /\ flapper' = "down_wait" /\ rounds' = Iterations /\ stopEvent' = FALSE
            /\ flapSnaps' = job[Main].snaps
  PROVE  LinkInv'
<1>1. /\ job[Main] \in Job /\ job[Main] # NoJob /\ job[Main].lower /\ Shape(job[Main]) /\ job[Main].left = <<>>
      /\ Injecting
  BY JobType, MainIsThread DEF LinkInv, JobsInv, Injecting, JobEnded
<1>2. job'[Main] = NoJob /\ job'[Flapper] = job[Flapper] /\ job' \in [Threads -> Job \cup {NoJob}]
  BY MainIsThread DEF LinkInv, TypeOK, EndJob
<1>3. ~Injecting' /\ ~Mending' /\ ~Recovering /\ ~Recovering'
  BY <1>2 DEF Injecting, Mending, Recovering, Kinds
<1>4. Tracked = Elems(faults) /\ Tracked' = Elems(faults')
  BY <1>3 DEF Tracked, Elems
<1>5. faults \in Seq(Fault)
  BY DEF LinkInv, TypeOK
<1>6. ASSUME NEW f \in Fault, faults' = Append(faults, f) PROVE Tracked' = Tracked \cup {f}
  BY <1>4, <1>5, <1>6, ElemsAppend
<1>7. Tracked \subseteq Tracked'
  BY <1>4, <1>6
<1>8. TypeOK'
  <2>1. /\ flapper' \in {"none", "down_wait", "raising", "up_wait", "lowering", "final"}
        /\ rounds' \in 0..Iterations /\ stopEvent' \in BOOLEAN /\ flapSnaps' \subseteq Ends
    <3>1. job[Main].snaps \subseteq Ends
      BY <1>1 DEF Job
    <3>2. Iterations \in 0..Iterations
      BY BoundsAssumption
    <3>3. CASE UNCHANGED flapVars
      BY <3>3 DEF LinkInv, TypeOK, flapVars
    <3>4. CASE ~UNCHANGED flapVars
      BY <3>1, <3>2, <3>4
    <3> QED  BY <3>3, <3>4
  <2>2. main' = "idle" /\ up' = up /\ routes' = routes /\ pending' = pending /\ remaining' = remaining /\ stopped' = stopped
    BY DEF linkVars, recoveryVars
  <2> QED  BY <1>2, <2>1, <2>2 DEF LinkInv, TypeOK
<1>9. JobsInv'
  BY <1>2, <1>3 DEF LinkInv, JobsInv, flapVars, Threads, Injecting, Mending
<1>10. ThreadInv'
  <2>1. flapper' # "none" => HasTask(Tracked')
    <3>1. CASE flapper' = flapper
      BY <1>7, <3>1 DEF LinkInv, ThreadInv, HasTask
    <3>2. CASE flapper' # flapper
      <4>1. PICK f \in Fault : faults' = Append(faults, f) /\ f.task
        <5>1. main = "link_flapping" /\ flapper' = "down_wait"
          BY <3>2 DEF flapVars
        <5>2. CASE \E f \in Fault : faults' = Append(faults, f) /\ f.task
          BY <5>2
        <5>3. CASE faults' = faults /\ flapper' = flapper
          BY <3>2, <5>3
        <5> QED  BY <3>2, <5>2, <5>3
      <4> QED  BY <1>6, <4>1 DEF HasTask
    <3> QED  BY <3>1, <3>2
  <2> QED  BY <1>3, <2>1 DEF ThreadInv, HasTask
<1>11. ASSUME faults' = faults /\ ~Succeeded(Main) /\ ~job[Main].residual, NEW e PROVE ~Unsettled(job[Main], e)
  BY <1>1, <1>11, ElemsEmpty DEF Succeeded, Shape, Unsettled, Touched
<1>12. UpInv'
  <2>1. ASSUME Tracked' = {} PROVE \A e \in Ends : up[e]
    <3>1. faults' = faults /\ ~Succeeded(Main) /\ ~job[Main].residual
      BY <1>6, <2>1
    <3> QED  BY <1>1, <1>7, <1>11, <2>1, <3>1 DEF LinkInv, UpInv
  <2> QED  BY <1>3, <2>1 DEF UpInv, linkVars
<1>13. RoutesInv'
  <2>1. \A e \in DOMAIN routes : routes[e] => up[e]
    BY DEF LinkInv, RoutesInv
  <2>2. DOMAIN routes # {} => flapper' = "none"
    BY DEF LinkInv, RoutesInv, flapVars
  <2>3. ASSUME NEW e \in DOMAIN routes, ~routes[e] PROVE \E f \in Tracked' : e \in f.snaps
    <3>1. (\E f \in Tracked : e \in f.snaps) \/ (e \in job[Main].snaps /\ Unsettled(job[Main], e))
      BY <2>3 DEF LinkInv, RoutesInv
    <3>2. CASE e \in job[Main].snaps /\ Unsettled(job[Main], e)
      <4>1. PICK f \in Fault : faults' = Append(faults, f) /\ f.snaps = job[Main].snaps
        BY <1>11, <3>2
      <4> QED  BY <1>6, <3>2, <4>1
    <3> QED  BY <1>7, <3>1, <3>2
  <2> QED  BY <1>3, <2>1, <2>2, <2>3 DEF RoutesInv, linkVars
<1> QED
  BY <1>8, <1>9, <1>10, <1>12, <1>13 DEF LinkInv

LEMMA InjectedSteps ==
  ASSUME LinkInv, LinkDownInjected \/ FlappingInjected \/ FlappingNotInjected
  PROVE  LinkInv'
<1>1. main \in Kinds /\ JobEnded(Main) /\ EndJob(Main) /\ main' = "idle" /\ UNCHANGED <<linkVars, recoveryVars>>
  BY DEF LinkDownInjected, FlappingInjected, FlappingNotInjected, Kinds
<1>2. job[Main].snaps \in SUBSET Ends /\ faults \in Seq(Fault)
  BY <1>1, JobType, MainIsThread DEF LinkInv, TypeOK, JobEnded, Job
<1>3. CASE LinkDownInjected
  <2> DEFINE f == [kind |-> "link_down", snaps |-> job[Main].snaps, task |-> FALSE]
  <2>1. f \in Fault /\ f.snaps = job[Main].snaps
    BY <1>2 DEF Fault, Kinds
  <2>2. UNCHANGED flapVars /\ flapper' = flapper
    BY <1>3 DEF LinkDownInjected, flapVars
  <2>3. faults' = Append(faults, f) \/ (faults' = faults /\ ~Succeeded(Main) /\ ~job[Main].residual)
    BY <1>3 DEF LinkDownInjected
  <2> HIDE DEF f
  <2> QED  BY <1>1, <1>2, <2>1, <2>2, <2>3, InjectedStep, ElemsAppend
<1>4. CASE FlappingInjected
  <2> DEFINE f == [kind |-> "link_flapping", snaps |-> job[Main].snaps, task |-> TRUE]
  <2>1. f \in Fault /\ f.snaps = job[Main].snaps /\ f.task
    BY <1>2 DEF Fault, Kinds
  <2>2. /\ main = "link_flapping" /\ flapper' = "down_wait" /\ rounds' = Iterations /\ stopEvent' = FALSE
        /\ flapSnaps' = job[Main].snaps /\ faults' = Append(faults, f)
    BY <1>4 DEF FlappingInjected
  <2> HIDE DEF f
  <2> QED  BY <1>1, <1>2, <2>1, <2>2, InjectedStep, ElemsAppend
<1>5. CASE FlappingNotInjected
  <2> DEFINE f == [kind |-> "link_flapping", snaps |-> {}, task |-> FALSE]
  <2>1. f \in Fault
    BY DEF Fault, Kinds
  <2>2. UNCHANGED flapVars /\ flapper' = flapper /\ DOMAIN routes = {}
    BY <1>5 DEF FlappingNotInjected, flapVars, LinkInv, RoutesInv
  <2>3. faults' = Append(faults, f) \/ (faults' = faults /\ ~Succeeded(Main) /\ ~job[Main].residual)
    BY <1>5 DEF FlappingNotInjected
  <2> HIDE DEF f
  <2> QED  BY <1>1, <1>2, <2>1, <2>2, <2>3, InjectedStep, ElemsAppend
<1> QED
  BY <1>3, <1>4, <1>5

\* The flapping thread goes from one step of its loop to the next.
LEMMA FlapperStepKeeps ==
  ASSUME LinkInv, flapper # "none", UNCHANGED <<linkVars, faults, main, recoveryVars>>, TypeOK',
         job'[Main] = job[Main], job'[Flapper] # NoJob => flapper' # "none" /\ Shape(job'[Flapper])
  PROVE  LinkInv'
<1>1. /\ Tracked' = Tracked /\ Rest' = Rest /\ main' = main /\ pending' = pending /\ stopped' = stopped
      /\ up' = up /\ routes' = routes
  BY DEF linkVars, recoveryVars, Tracked, Recovering, Rest
<1>2. DOMAIN routes = {} /\ HasTask(Tracked)
  BY DEF LinkInv, ThreadInv, RoutesInv
<1>3. JobsInv'
  BY <1>1, MainIsThread DEF LinkInv, JobsInv, Injecting, Mending, Threads
<1>4. ThreadInv'
  BY <1>1, <1>2 DEF LinkInv, ThreadInv, Mending
<1>5. UpInv'
  BY <1>1, <1>2 DEF LinkInv, UpInv, Mending, HasTask
<1>6. RoutesInv'
  BY <1>1, <1>2 DEF LinkInv, RoutesInv, ThreadInv
<1> QED
  BY <1>3, <1>4, <1>5, <1>6 DEF LinkInv

LEMMA FlapperSteps ==
  ASSUME LinkInv, FlapperDownWait \/ FlapperRaised \/ FlapperUpWait \/ FlapperLowered \/ FlapperEnds
  PROVE  LinkInv'
<1>1. flapper # "none" /\ UNCHANGED <<linkVars, faults, main, recoveryVars>>
  BY DEF FlapperDownWait, FlapperRaised, FlapperUpWait, FlapperLowered, FlapperEnds
<1>2. /\ flapper' \in {"none", "down_wait", "raising", "up_wait", "lowering", "final"}
      /\ rounds' \in 0..Iterations /\ stopEvent' \in BOOLEAN /\ flapSnaps' \subseteq Ends
  <2>1. rounds \in 0..Iterations /\ (rounds > 1 => rounds - 1 \in 0..Iterations) /\ 0 \in 0..Iterations
    BY BoundsAssumption DEF LinkInv, TypeOK
  <2>2. stopEvent \in BOOLEAN /\ flapSnaps \subseteq Ends
    BY DEF LinkInv, TypeOK
  <2> QED  BY <2>1, <2>2 DEF FlapperDownWait, FlapperRaised, FlapperUpWait, FlapperLowered, FlapperEnds, LastPass, Flap
<1>3. \/ EndJob(Flapper)
      \/ flapper' # "none" /\ \E lower \in BOOLEAN : StartJob(Flapper, lower, flapSnaps)
  BY DEF FlapperDownWait, FlapperRaised, FlapperUpWait, FlapperLowered, FlapperEnds, LastPass, Flap
<1>4. flapSnaps \in SUBSET Ends /\ job \in [Threads -> Job \cup {NoJob}]
  BY DEF LinkInv, TypeOK
<1>5. /\ job' \in [Threads -> Job \cup {NoJob}] /\ job'[Main] = job[Main]
      /\ job'[Flapper] # NoJob => flapper' # "none" /\ Shape(job'[Flapper])
  <2>1. CASE EndJob(Flapper)
    BY <1>4, <2>1, MainIsThread DEF EndJob
  <2>2. CASE flapper' # "none" /\ \E lower \in BOOLEAN : StartJob(Flapper, lower, flapSnaps)
    <3>1. PICK lower \in BOOLEAN : job' = [job EXCEPT ![Flapper] = SetLink(lower, flapSnaps)]
      BY <2>2 DEF StartJob
    <3>2. SetLink(lower, flapSnaps) \in Job /\ Shape(SetLink(lower, flapSnaps))
      BY <1>4, SetLinkFacts
    <3> QED  BY <1>4, <2>2, <3>1, <3>2, MainIsThread
  <2> QED  BY <1>3, <2>1, <2>2
<1>6. TypeOK'
  BY <1>1, <1>2, <1>5 DEF LinkInv, TypeOK, linkVars, recoveryVars
<1> QED
  BY <1>1, <1>5, <1>6, FlapperStepKeeps

LEMMA RecoverAllStep ==
  ASSUME LinkInv, RecoverAll
  PROVE  LinkInv'
<1>1. /\ main = "idle" /\ main' = "recovering" /\ pending' = faults /\ remaining' = <<>> /\ job' = job
      /\ UNCHANGED <<linkVars, faults, stopped, flapVars>>
  BY DEF RecoverAll
<1>2. job[Main] = NoJob /\ ~Injecting /\ ~Injecting' /\ ~Mending /\ ~Mending' /\ ~Recovering
  BY <1>1 DEF LinkInv, JobsInv, Injecting, Mending, Recovering, Kinds
<1>3. Tracked' = Tracked
  BY <1>1, <1>2, ElemsEmpty DEF Tracked, Recovering, Elems
<1>4. TypeOK'
  BY <1>1 DEF LinkInv, TypeOK, linkVars, flapVars
<1>5. JobsInv'
  BY <1>1, <1>2 DEF LinkInv, JobsInv, flapVars
<1>6. ThreadInv'
  BY <1>1, <1>2, <1>3 DEF LinkInv, ThreadInv, flapVars, HasTask
<1>7. UpInv'
  BY <1>1, <1>2, <1>3 DEF LinkInv, UpInv, linkVars
<1>8. RoutesInv'
  BY <1>1, <1>2, <1>3 DEF LinkInv, RoutesInv, linkVars, flapVars
<1> QED
  BY <1>4, <1>5, <1>6, <1>7, <1>8 DEF LinkInv

LEMMA StopFlapperStep ==
  ASSUME LinkInv, StopFlapper
  PROVE  LinkInv'
<1>1. /\ main = "recovering" /\ main' = "joining" /\ job[Main] = NoJob /\ pending # <<>> /\ stopEvent' = TRUE
      /\ UNCHANGED <<linkVars, faults, job, recoveryVars, flapper, rounds, flapSnaps>>
  BY DEF StopFlapper
<1>2. ~Injecting /\ ~Injecting' /\ ~Mending /\ ~Mending'
  BY <1>1 DEF Injecting, Mending, Kinds
<1>3. Tracked' = Tracked
  BY <1>1 DEF Tracked, Recovering, recoveryVars
<1>4. TypeOK'
  BY <1>1 DEF LinkInv, TypeOK, linkVars, recoveryVars
<1>5. JobsInv'
  BY <1>1, <1>2 DEF LinkInv, JobsInv, recoveryVars
<1>6. ThreadInv'
  BY <1>1, <1>2, <1>3 DEF LinkInv, ThreadInv, HasTask
<1>7. UpInv'
  BY <1>1, <1>2, <1>3 DEF LinkInv, UpInv, linkVars
<1>8. RoutesInv'
  BY <1>1, <1>2, <1>3 DEF LinkInv, RoutesInv, linkVars
<1> QED
  BY <1>4, <1>5, <1>6, <1>7, <1>8 DEF LinkInv

\* A recovery starts beside a flapping thread only for another fault, or known not to have stopped it.
LEMMA RecoveryStarts ==
  ASSUME LinkInv, RecoverNext \/ JoinFlapper
  PROVE  LinkInv'
<1> DEFINE k == SetLink(FALSE, Head(pending).snaps)
<1>1. /\ main \in {"recovering", "joining"} /\ main' = "recovering" /\ job[Main] = NoJob /\ pending # <<>>
      /\ job' = [job EXCEPT ![Main] = k] /\ stopped' \in BOOLEAN
      /\ UNCHANGED <<linkVars, faults, pending, remaining, flapVars>>
  BY DEF RecoverNext, JoinFlapper, StartJob, LinkInv, JobsInv
<1>2. \/ stopped' /\ (Head(pending).task => flapper = "none")
      \/ stopped' = (flapper = "none")
  BY DEF RecoverNext, JoinFlapper
<1>3. /\ pending \in Seq(Fault) /\ Head(pending) \in Fault
      /\ Elems(pending) = {Head(pending)} \cup Elems(Tail(pending))
  BY <1>1, ElemsTail DEF LinkInv, TypeOK
<1>4. Head(pending).snaps \in SUBSET Ends
  BY <1>3 DEF Fault
<1>5. /\ k \in Job /\ k # NoJob /\ Shape(k) /\ k.lower = FALSE /\ k.snaps = Head(pending).snaps
      /\ Elems(k.left) = Ends /\ k.failed = FALSE
  BY <1>4, SetLinkFacts
<1> HIDE DEF k
<1>6. job'[Main] = k /\ job'[Flapper] = job[Flapper] /\ job' \in [Threads -> Job \cup {NoJob}]
  BY <1>1, <1>5, MainIsThread DEF LinkInv, TypeOK
<1>7. /\ Tracked' = Tracked /\ Rest' = Rest /\ ~Injecting /\ ~Injecting' /\ ~Mending /\ Mending'
      /\ Tracked = {Head(pending)} \cup Rest /\ flapper' = flapper /\ pending' = pending /\ up' = up /\ routes' = routes
  BY <1>1, <1>3, <1>5, <1>6 DEF Tracked, Rest, Recovering, Injecting, Mending, Kinds, flapVars, linkVars
<1>8. TypeOK'
  BY <1>1, <1>6 DEF LinkInv, TypeOK, linkVars, flapVars
<1>9. JobsInv'
  BY <1>1, <1>5, <1>6, <1>7 DEF LinkInv, JobsInv, Threads
<1>10. ThreadInv'
  <2>1. stopped' /\ Head(pending).task => flapper = "none"
    BY <1>2
  <2> QED  BY <1>1, <1>7, <2>1 DEF LinkInv, ThreadInv, HasTask
<1>11. UpInv'
  <2>1. CASE flapper = "none"
    BY <1>5, <1>6, <1>7, <2>1 DEF UpInv
  <2>2. CASE flapper # "none"
    <3>1. stopped' => HasTask(Rest)
      BY <1>2, <1>7, <2>2 DEF LinkInv, ThreadInv, HasTask
    <3> QED  BY <1>5, <1>6, <1>7, <2>2, <3>1 DEF UpInv, HasTask
  <2> QED  BY <2>1, <2>2
<1>12. RoutesInv'
  <2>1. DOMAIN routes \subseteq Ends
    BY RoutesType DEF LinkInv
  <2> QED  BY <1>1, <1>5, <1>6, <1>7, <2>1 DEF LinkInv, RoutesInv
<1> QED
  BY <1>8, <1>9, <1>10, <1>11, <1>12 DEF LinkInv

\* FaultTracker.remove_faults, and pending and remaining as they are after a recovery.
WithoutType == \A fs \in Seq(Fault), kinds \in SUBSET Kinds : Without(fs, kinds) \in Seq(Fault)

LEMMA RecoverOneStep ==
  ASSUME LinkInv, RecoverOne, WithoutType
  PROVE  LinkInv'
<1>1. /\ main = "recovering" /\ main' = "recovering" /\ job[Main] # NoJob /\ job[Main].left = <<>>
      /\ pending' = Tail(pending)
      /\ UNCHANGED <<linkVars, stopped, flapVars>> /\ up' = up /\ routes' = routes /\ flapper' = flapper
  BY DEF RecoverOne, JobEnded, linkVars, flapVars
<1>2. Mending /\ pending # <<>> /\ ~Injecting
  BY <1>1 DEF Mending, LinkInv, JobsInv, Injecting, Kinds
<1>3. /\ pending \in Seq(Fault) /\ Head(pending) \in Fault /\ Tail(pending) \in Seq(Fault)
      /\ Elems(pending) = {Head(pending)} \cup Elems(Tail(pending))
      /\ faults \in Seq(Fault) /\ remaining \in Seq(Fault)
  BY <1>2, ElemsTail DEF LinkInv, TypeOK
<1>4. Tracked = {Head(pending)} \cup Rest
  BY <1>1, <1>3 DEF Tracked, Recovering, Rest
<1>5. job' \in [Threads -> Job \cup {NoJob}] /\ job'[Main] = NoJob /\ job'[Flapper] = job[Flapper]
  BY MainIsThread DEF LinkInv, TypeOK, RecoverOne, EndJob
<1>6. ~Mending' /\ ~Injecting' /\ Tracked' = Elems(Tail(pending)) \cup Elems(remaining')
  BY <1>1, <1>5 DEF Mending, Injecting, Tracked, Recovering, Kinds, Elems
<1>7. \/ /\ stopped /\ ~job[Main].failed /\ Tracked' = Rest /\ faults' \in Seq(Fault) /\ remaining' = remaining
      \/ /\ ~(stopped /\ ~job[Main].failed) /\ Tracked' = Tracked /\ faults' = faults /\ remaining' \in Seq(Fault)
  <2>1. CASE stopped /\ Succeeded(Main)
    <3>1. faults' = Without(faults, {Head(pending).kind}) /\ remaining' = remaining /\ {Head(pending).kind} \in SUBSET Kinds
      BY <1>3, <2>1 DEF RecoverOne, Fault
    <3> QED  BY <1>3, <1>6, <2>1, <3>1 DEF WithoutType, Succeeded, Rest
  <2>2. CASE ~(stopped /\ Succeeded(Main))
    <3>1. remaining' = Append(remaining, Head(pending)) /\ faults' = faults
      BY <2>2 DEF RecoverOne
    <3>2. remaining' \in Seq(Fault) /\ Elems(remaining') = Elems(remaining) \cup {Head(pending)}
      BY <1>3, <3>1, ElemsAppend
    <3> QED  BY <1>4, <1>6, <2>2, <3>1, <3>2 DEF Succeeded, Rest
  <2> QED  BY <2>1, <2>2
<1>8. TypeOK'
  BY <1>1, <1>3, <1>5, <1>7 DEF LinkInv, TypeOK, linkVars, flapVars
<1>9. JobsInv'
  BY <1>1, <1>5, <1>6 DEF LinkInv, JobsInv, Threads
<1>10. ThreadInv'
  <2>1. flapper # "none" => HasTask(Tracked')
    <3>1. flapper # "none" => HasTask(Tracked) /\ (stopped => ~Head(pending).task)
      BY <1>2 DEF LinkInv, ThreadInv
    <3> QED  BY <1>4, <1>7, <3>1 DEF HasTask
  <2> QED  BY <1>1, <1>6, <2>1 DEF ThreadInv, HasTask
<1>11. UpInv'
  <2>1. ASSUME Tracked' = {} PROVE \A e \in Ends : up[e]
    <3>1. stopped /\ ~job[Main].failed /\ ~HasTask(Rest)
      BY <1>4, <1>7, <2>1 DEF HasTask
    <3> QED  BY <1>1, <1>2, <3>1, ElemsEmpty DEF LinkInv, UpInv
  <2> QED  BY <1>1, <1>6, <2>1 DEF UpInv
<1>12. RoutesInv'
  <2>1. ASSUME NEW e \in DOMAIN routes, ~routes[e] PROVE \E f \in Tracked' : e \in f.snaps
    <3>1. PICK f \in Tracked : e \in f.snaps
      BY <1>2, <2>1 DEF LinkInv, RoutesInv
    <3>2. ~job[Main].failed => e \notin Head(pending).snaps
      BY <1>1, <1>2, <2>1, ElemsEmpty DEF LinkInv, RoutesInv
    <3> QED  BY <1>4, <1>7, <3>1, <3>2
  <2> QED  BY <1>1, <1>6, <2>1 DEF LinkInv, RoutesInv
<1> QED
  BY <1>8, <1>9, <1>10, <1>11, <1>12 DEF LinkInv

LEMMA RecoverAllEndsStep ==
  ASSUME LinkInv, RecoverAllEnds
  PROVE  LinkInv'
<1>1. /\ main = "recovering" /\ main' = "idle" /\ job[Main] = NoJob /\ pending = <<>> /\ faults' = remaining
      /\ remaining' = <<>> /\ stopped' = FALSE /\ job' = job /\ pending' = pending
      /\ up' = up /\ routes' = routes /\ UNCHANGED flapVars /\ flapper' = flapper
  BY DEF RecoverAllEnds, linkVars, flapVars
<1>2. ~Injecting /\ ~Injecting' /\ ~Mending /\ ~Mending'
  BY <1>1 DEF Injecting, Mending, Kinds
<1>3. Tracked' = Tracked
  BY <1>1, ElemsEmpty DEF Tracked, Recovering, Elems
<1>4. TypeOK'
  BY <1>1 DEF LinkInv, TypeOK, flapVars
<1>5. JobsInv'
  BY <1>1, <1>2 DEF LinkInv, JobsInv
<1>6. ThreadInv'
  BY <1>1, <1>2, <1>3 DEF LinkInv, ThreadInv, HasTask
<1>7. UpInv'
  BY <1>1, <1>2, <1>3 DEF LinkInv, UpInv
<1>8. RoutesInv'
  BY <1>1, <1>2, <1>3 DEF LinkInv, RoutesInv
<1> QED
  BY <1>4, <1>5, <1>6, <1>7, <1>8 DEF LinkInv

----------------------------------------------------------------------------
LEMMA InitLinkInv == Init => LinkInv
<1> SUFFICES ASSUME Init PROVE LinkInv
  OBVIOUS
<1>1. PICK clients \in Links : routes = [e \in clients |-> TRUE]
  BY DEF Init
<1>2. DOMAIN routes = clients /\ routes \in [clients -> BOOLEAN] /\ DOMAIN routes \subseteq Ends
      /\ \A e \in DOMAIN routes : routes[e] /\ up[e]
  BY <1>1, LinkAssumption DEF Init, Ends
<1>3. <<>> \in Seq(Fault)
  OBVIOUS
<1>4. /\ main = "idle" /\ job = [t \in Threads |-> NoJob] /\ flapper = "none" /\ faults = <<>> /\ pending = <<>>
      /\ remaining = <<>> /\ rounds = 0 /\ up = [e \in Ends |-> TRUE]
  BY DEF Init
<1>5. ~Injecting /\ ~Mending /\ ~Recovering
  BY <1>4 DEF Injecting, Mending, Recovering, Kinds
<1>6. TypeOK
  <2>1. routes \in UNION {[c -> BOOLEAN] : c \in Links}
    BY <1>2
  <2>2. up \in [Ends -> BOOLEAN] /\ job \in [Threads -> Job \cup {NoJob}] /\ rounds \in 0..Iterations
    BY <1>4, BoundsAssumption
  <2>3. flapSnaps \subseteq Ends /\ stopped \in BOOLEAN /\ stopEvent \in BOOLEAN
    BY DEF Init
  <2> QED  BY <1>3, <1>4, <2>1, <2>2, <2>3 DEF TypeOK
<1>7. JobsInv
  BY <1>4, <1>5, MainIsThread DEF JobsInv
<1>8. ThreadInv /\ UpInv
  BY <1>4, <1>5 DEF ThreadInv, UpInv
<1>9. RoutesInv
  BY <1>2, <1>4, <1>5 DEF RoutesInv
<1> QED
  BY <1>6, <1>7, <1>8, <1>9 DEF LinkInv

LEMMA LinkStep == LinkInv /\ NoAccessFlapping /\ [Next]_vars => LinkInv'
<1> SUFFICES ASSUME LinkInv, NoAccessFlapping, [Next]_vars PROVE LinkInv'
  OBVIOUS
<1>1. CASE UNCHANGED vars
  <2>1. UNCHANGED <<linkVars, faults, job, main, recoveryVars, flapVars>>
    BY <1>1 DEF vars
  <2>2. /\ up' = up /\ routes' = routes /\ faults' = faults /\ job' = job /\ main' = main /\ pending' = pending
        /\ remaining' = remaining /\ stopped' = stopped /\ flapper' = flapper /\ rounds' = rounds
        /\ stopEvent' = stopEvent /\ flapSnaps' = flapSnaps
    BY <2>1 DEF linkVars, recoveryVars, flapVars
  <2>3. Tracked' = Tracked /\ Rest' = Rest /\ (Injecting' <=> Injecting) /\ (Mending' <=> Mending)
    BY <2>2 DEF Tracked, Rest, Recovering, Injecting, Mending
  <2>4. TypeOK'
    BY <2>2 DEF LinkInv, TypeOK
  <2>5. JobsInv'
    BY <2>2, <2>3 DEF LinkInv, JobsInv
  <2>6. ThreadInv' /\ UpInv'
    BY <2>2, <2>3 DEF LinkInv, ThreadInv, UpInv
  <2>7. RoutesInv'
    BY <2>2, <2>3 DEF LinkInv, RoutesInv
  <2> QED  BY <2>4, <2>5, <2>6, <2>7 DEF LinkInv
<1>2. ASSUME NEW t \in Threads, JobStep(t) PROVE LinkInv'
  <2>1. job[t] # NoJob /\ KeepsRest
    BY <1>2 DEF JobStep, LowerEnd, RaiseEnd, RestoreRoutes, Busy, KeepsRest
  <2>2. Lowered(t) \/ Raised(t)
    BY <1>2, LowerEndFacts, RaiseEndFacts, RestoreRoutesFacts DEF JobStep, LinkInv
  <2>3. t = Main \/ t = Flapper
    BY DEF Threads
  <2> QED  BY <2>1, <2>2, <2>3, FlapperJob, MainLowers, MainRaises
<1>3. CASE LinkDownInjected \/ FlappingInjected \/ FlappingNotInjected
  BY <1>3, InjectedSteps
<1>4. CASE FlapperDownWait \/ FlapperRaised \/ FlapperUpWait \/ FlapperLowered \/ FlapperEnds
  BY <1>4, FlapperSteps
<1>5. CASE RecoverAll
  BY <1>5, RecoverAllStep
<1>6. CASE RecoverNext \/ JoinFlapper
  BY <1>6, RecoveryStarts
<1>7. CASE StopFlapper
  BY <1>7, StopFlapperStep
<1>8. CASE RecoverOne
  <2>1. WithoutType
    BY WithoutFacts DEF WithoutType
  <2> QED  BY <1>8, <2>1, RecoverOneStep
<1>9. CASE RecoverAllEnds
  BY <1>9, RecoverAllEndsStep
<1>10. CASE \E kind \in Kinds : Inject(kind)
  BY <1>10, InjectStep
<1> QED
  BY <1>1, <1>2, <1>3, <1>4, <1>5, <1>6, <1>7, <1>8, <1>9, <1>10, MainIsThread DEF Next, MainStep, FlapperStep

\* What a link fault leaves behind, the tracker knows, and so does the thread that flaps the link.
THEOREM LinkInvHolds ==
  ASSUME NoAccessFlapping
  PROVE  Spec => []LinkInv
<1>1. NoAccessFlapping
  OBVIOUS
<1> QED
  BY <1>1, InitLinkInv, LinkStep, PTL DEF Spec

\* A link no fault is tracked for is as it was, and a flapping thread belongs to a tracked fault: whatever
\* commands fail, whoever they fail for and however often the link is injected and recovered.
THEOREM UntrackedIsClean ==
  ASSUME NoAccessFlapping
  PROVE  Spec => []UntrackedMeansClean
<1>1. LinkInv => UntrackedMeansClean
  <2> SUFFICES ASSUME LinkInv, main = "idle"
               PROVE  /\ faults = <<>> => Clean
                      /\ flapper # "none" => \E i \in DOMAIN faults : faults[i].task
    BY DEF UntrackedMeansClean
  <2>1. Tracked = Elems(faults) /\ ~Injecting /\ job[Main] = NoJob
    BY DEF Tracked, Recovering, Injecting, Kinds, LinkInv, JobsInv
  <2>2. faults = <<>> => Clean
    BY <2>1, ElemsEmpty DEF LinkInv, UpInv, RoutesInv, Clean
  <2>3. flapper # "none" => HasTask(Elems(faults))
    BY <2>1 DEF LinkInv, ThreadInv
  <2> QED  BY <2>2, <2>3 DEF HasTask, Elems
<1> QED
  BY <1>1, LinkInvHolds, PTL

----------------------------------------------------------------------------
(* The faults of a device *)

\* The faults the tracker answers for: while it recovers, those it has not recovered.
DeviceTracked == IF phase = "recovering" THEN Elems(devicePending) \cup Elems(deviceRemaining) ELSE Elems(deviceFaults)

\* The part of the device that a fault of a kind changes is in its original state.
Undone(d, kind) ==
  /\ kind = "mtu_mismatch" => d.mtu = "original"
  /\ kind \in Impairments => d.qdisc = "none"
  /\ kind = "blackhole_route" => "Null0" \notin d.routes
  /\ kind = "static_route_misconfig" => "wrong" \notin d.routes
  /\ kind \in Neighbor => d.neighbor = {}
  /\ kind = "network_statement_missing" => "network" \in d.policy
  /\ kind = "route_map_deny_prefix" => "prefix-list" \notin d.policy /\ "deny" \notin d.policy
  /\ kind = "acl_misconfig" => d.rules = 0 /\ d.acl = {}
  /\ kind = "device_down" => d.running /\ ~d.parked /\ d.whole

\* Kinds whose faults one recovery really undoes together: those of a group, except policy.
Alike(kind) == IF kind \in Policy THEN {kind} ELSE {k \in AllKinds : Group(k) = Group(kind)}

Accounted(d, fs) == \A kind \in AllKinds : Undone(d, kind) \/ \E f \in fs : f.kind \in Alike(kind)
DeviceInv ==
  /\ DeviceTypeOK
  /\ devicePending # <<>> => phase = "recovering"
  /\ "own" \in dev.routes <=> OwnRoute
  /\ \A f \in DeviceTracked : f.kind = "mtu_mismatch" => f.original
  /\ Accounted(dev, DeviceTracked)

\* A step from d to e on behalf of a fault of a kind changes nothing else.
Others(d, e, kind) ==
  /\ e \in Device
  /\ kind # "mtu_mismatch" => e.mtu = d.mtu
  /\ kind \notin Impairments => e.qdisc = d.qdisc
  /\ "own" \in e.routes <=> "own" \in d.routes
  /\ kind # "blackhole_route" => ("Null0" \in e.routes => "Null0" \in d.routes)
  /\ kind # "static_route_misconfig" => ("wrong" \in e.routes => "wrong" \in d.routes)
  /\ kind \notin Neighbor => e.neighbor = d.neighbor
  /\ kind # "network_statement_missing" => ("network" \in d.policy => "network" \in e.policy)
  /\ kind # "route_map_deny_prefix" =>
       ("prefix-list" \in e.policy => "prefix-list" \in d.policy) /\ ("deny" \in e.policy => "deny" \in d.policy)
  /\ kind # "acl_misconfig" => e.rules = d.rules /\ e.acl = d.acl
  /\ kind # "device_down" => e.running = d.running /\ e.parked = d.parked /\ e.whole = d.whole

----------------------------------------------------------------------------
(* Commands and readbacks *)

LEMMA RunFacts ==
  ASSUME NEW d, NEW partial, NEW full, NEW r \in Run(d, partial, full)
  PROVE  r.ok \in BOOLEAN /\ r.dev \in {d, full} \cup partial
<1>1. CASE r = [ok |-> TRUE, dev |-> full]
  BY <1>1
<1>2. CASE r \in [ok : BOOLEAN, dev : {d, full} \cup partial]
  BY <1>2
<1> QED
  BY <1>1, <1>2 DEF Run

LEMMA VerifiedFacts ==
  ASSUME NEW runs, NEW good, NEW r \in Verified(runs, good)
  PROVE  (\E s \in runs : r.dev = s.dev /\ (r.ok => s.ok)) /\ (r.ok => good[r.dev])
<1>1. PICK s \in runs : r \in {[ok |-> s.ok /\ c, dev |-> s.dev] : c \in Confirmed(good[s.dev])}
  BY DEF Verified
<1>2. PICK c \in Confirmed(good[s.dev]) : r = [ok |-> s.ok /\ c, dev |-> s.dev]
  BY <1>1
<1>3. c = good[s.dev] \/ c = FALSE
  BY DEF Confirmed
<1>4. r.dev = s.dev /\ r.ok = (s.ok /\ c)
  BY <1>2
<1> QED
  BY <1>3, <1>4

\* One verified command that turns the device into full, or into one of partial.
LEMMA VerifiedRun ==
  ASSUME NEW d, NEW partial, NEW full, NEW good, NEW r \in Verified(Run(d, partial, full), good)
  PROVE  r.dev \in {d, full} \cup partial /\ (r.ok => good[r.dev])
  BY RunFacts, VerifiedFacts

LEMMA VerifiedApplied ==
  ASSUME NEW d, NEW partial, NEW full, NEW good, NEW r \in Verified(Applied(Run(d, partial, full), full), good)
  PROVE  r.dev \in {d, full} \cup partial /\ (r.ok => good[r.dev]) /\ (r.ok => r.dev = full)
<1>1. /\ \E s \in Applied(Run(d, partial, full), full) : r.dev = s.dev /\ (r.ok => s.ok)
      /\ r.ok => good[r.dev]
  BY VerifiedFacts
<1> QED
  BY <1>1, RunFacts DEF Applied

LEMMA OthersRefl ==
  ASSUME NEW d \in Device, NEW kind
  PROVE  Others(d, d, kind)
  BY DEF Others

LEMMA OthersTrans ==
  ASSUME NEW d, NEW e, NEW g, NEW kind, Others(d, e, kind), Others(e, g, kind)
  PROVE  Others(d, g, kind)
  BY DEF Others

----------------------------------------------------------------------------
(* What each handler does *)

LEMMA ApplyMtuFacts ==
  ASSUME NEW d \in Device, NEW mtu \in Mtus, NEW r \in ApplyMtu(d, mtu)
  PROVE  /\ r.dev \in Device
         /\ Others(d, r.dev, "mtu_mismatch")
         /\ ~UnreadableMtu /\ r.ok => r.dev.mtu = mtu
<1> DEFINE config == Run(d, {[d EXCEPT !.configured = mtu]}, [d EXCEPT !.mtu = mtu, !.configured = mtu])
           link(e) == Run(e, {}, [e EXCEPT !.mtu = mtu])
           read(runs) == UNION {{[ok |-> s.ok /\ m = mtu, dev |-> s.dev] : m \in ReadMtu(s.dev)} : s \in runs}
           first == read(config)
<1>1. \/ r \in first
      \/ \E s \in first : r \in read(link(s.dev))
  BY DEF ApplyMtu
<1>2. ASSUME NEW runs, NEW s \in read(runs)
      PROVE  (\E q \in runs : s.dev = q.dev) /\ (~UnreadableMtu /\ s.ok => s.dev.mtu = mtu)
  <2>1. PICK q \in runs : s \in {[ok |-> q.ok /\ m = mtu, dev |-> q.dev] : m \in ReadMtu(q.dev)}
    BY <1>2
  <2>2. PICK m \in ReadMtu(q.dev) : s = [ok |-> q.ok /\ m = mtu, dev |-> q.dev]
    BY <2>1
  <2>3. ~UnreadableMtu => m = q.dev.mtu
    BY DEF ReadMtu
  <2> QED  BY <2>2, <2>3
<1>3. ASSUME NEW e \in Device, NEW q \in link(e) PROVE Others(e, q.dev, "mtu_mismatch")
  <2>1. q.dev \in {e, [e EXCEPT !.mtu = mtu]}
    BY <1>3, RunFacts
  <2> QED  BY <2>1 DEF Others, Device, Impairments, Neighbor
<1>4. ASSUME NEW q \in config PROVE Others(d, q.dev, "mtu_mismatch")
  <2>1. q.dev \in {d, [d EXCEPT !.mtu = mtu, !.configured = mtu], [d EXCEPT !.configured = mtu]}
    BY <1>4, RunFacts
  <2> QED  BY <2>1 DEF Others, Device, Impairments, Neighbor
<1> HIDE DEF config, link, read, first
<1>5. ASSUME NEW s \in first PROVE Others(d, s.dev, "mtu_mismatch") /\ (~UnreadableMtu /\ s.ok => s.dev.mtu = mtu)
  BY <1>2, <1>4 DEF first
<1>6. CASE \E s \in first : r \in read(link(s.dev))
  <2>1. PICK s \in first : r \in read(link(s.dev))
    BY <1>6
  <2>2. s.dev \in Device /\ Others(d, s.dev, "mtu_mismatch")
    BY <1>5 DEF Others
  <2>3. Others(s.dev, r.dev, "mtu_mismatch") /\ (~UnreadableMtu /\ r.ok => r.dev.mtu = mtu)
    BY <1>2, <1>3, <2>1, <2>2
  <2> QED  BY <2>2, <2>3, OthersTrans DEF Others
<1> QED
  BY <1>1, <1>5, <1>6 DEF Others

LEMMA QdiscFacts ==
  ASSUME NEW d \in Device, NEW kind \in Impairments
  PROVE  /\ \A r \in DeleteQdisc(d) : Others(d, r.dev, kind) /\ (r.ok => r.dev.qdisc = "none")
         /\ \A r \in SetQdisc(d, kind) : Others(d, r.dev, kind) /\ (r.ok => r.dev.qdisc = kind)
<1>1. ASSUME NEW q \in {"none"} \cup Impairments, NEW e \in {d, [d EXCEPT !.qdisc = q]} PROVE Others(d, e, kind)
  BY <1>1 DEF Others, Device, Impairments, Neighbor
<1>2. ASSUME NEW r \in DeleteQdisc(d) PROVE Others(d, r.dev, kind) /\ (r.ok => r.dev.qdisc = "none")
  <2>1. r.dev \in {d, [d EXCEPT !.qdisc = "none"]} /\ (r.ok => [e \in Device |-> e.qdisc = "none"][r.dev])
    BY <1>2, VerifiedRun DEF DeleteQdisc
  <2>2. Others(d, r.dev, kind)
    BY <1>1, <2>1
  <2>3. r.dev \in Device
    BY <2>2 DEF Others
  <2> QED  BY <2>1, <2>2, <2>3
<1>3. ASSUME NEW r \in SetQdisc(d, kind) PROVE Others(d, r.dev, kind) /\ (r.ok => r.dev.qdisc = kind)
  <2>1. r.dev \in {d, [d EXCEPT !.qdisc = kind]} /\ (r.ok => [e \in Device |-> e.qdisc = kind][r.dev])
    BY <1>3, VerifiedRun DEF SetQdisc
  <2>2. Others(d, r.dev, kind)
    BY <1>1, <2>1
  <2>3. r.dev \in Device
    BY <2>2 DEF Others
  <2> QED  BY <2>1, <2>2, <2>3
<1> QED
  BY <1>2, <1>3

RouteKinds == {"blackhole_route", "static_route_misconfig"}
Statement(kind) == IF kind = "blackhole_route" THEN "Null0" ELSE "wrong"

LEMMA RouteFacts ==
  ASSUME NEW d \in Device
  PROVE  /\ \A r \in RecoverBlackhole(d) : Others(d, r.dev, "blackhole_route") /\ (r.ok => "Null0" \notin r.dev.routes)
         /\ "own" \notin d.routes =>
              \A r \in RecoverStaticRoute(d) : Others(d, r.dev, "static_route_misconfig") /\ (r.ok => "wrong" \notin r.dev.routes)
         /\ \A r \in InjectBlackhole(d) : Others(d, r.dev, "blackhole_route") /\ (r.ok => "Null0" \in r.dev.routes)
         /\ \A r \in InjectStaticRoute(d) : Others(d, r.dev, "static_route_misconfig") /\ (r.ok => "wrong" \in r.dev.routes)
<1>1. ASSUME NEW e \in Device, NEW k \in RouteKinds, NEW c \in {e, [e EXCEPT !.routes = @ \ {Statement(k)}]}
      PROVE  Others(e, c, k)
  BY <1>1 DEF Others, Device, Impairments, Neighbor, RouteKinds, Statement
<1>2. ASSUME NEW k \in RouteKinds, NEW c \in {d, [d EXCEPT !.routes = @ \cup {Statement(k)}]} PROVE Others(d, c, k)
  BY <1>2 DEF Others, Device, Impairments, Neighbor, RouteKinds, Statement
<1>3. ASSUME NEW k \in RouteKinds, NEW r \in AddRoute(d, Statement(k))
      PROVE  Others(d, r.dev, k) /\ (r.ok => Statement(k) \in r.dev.routes)
  <2>1. /\ r.dev \in {d, [d EXCEPT !.routes = @ \cup {Statement(k)}]}
        /\ r.ok => [e \in Device |-> Statement(k) \in e.routes][r.dev]
    BY <1>3, VerifiedRun DEF AddRoute
  <2>2. Others(d, r.dev, k)
    BY <1>2, <2>1
  <2>3. r.dev \in Device
    BY <2>2 DEF Others
  <2> QED  BY <2>1, <2>2, <2>3
<1>4. ASSUME NEW r \in RecoverBlackhole(d) PROVE Others(d, r.dev, "blackhole_route") /\ (r.ok => "Null0" \notin r.dev.routes)
  <2>1. r.dev \in {d, [d EXCEPT !.routes = @ \ {"Null0"}]} /\ (r.ok => [e \in Device |-> "Null0" \notin e.routes][r.dev])
    BY <1>4, VerifiedRun DEF RecoverBlackhole, RemoveRoute
  <2>2. Others(d, r.dev, "blackhole_route")
    BY <1>1, <2>1 DEF RouteKinds, Statement
  <2>3. r.dev \in Device
    BY <2>2 DEF Others
  <2> QED  BY <2>1, <2>2, <2>3
<1>5. ASSUME "own" \notin d.routes, NEW r \in RecoverStaticRoute(d)
      PROVE  Others(d, r.dev, "static_route_misconfig") /\ (r.ok => "wrong" \notin r.dev.routes)
  <2> DEFINE first == RemoveRoute(d, "wrong")
             everything(e) == Run(e, {}, [e EXCEPT !.routes = {}])
             runs == {q \in first : q.ok} \cup UNION {everything(q.dev) : q \in {s \in first : ~s.ok}}
  <2>0. r \in Verified(runs, [e \in Device |-> e.routes = {}])
    BY <1>5 DEF RecoverStaticRoute
  <2>1. (\E q \in runs : r.dev = q.dev) /\ (r.ok => [e \in Device |-> e.routes = {}][r.dev])
    <3> HIDE DEF runs
    <3> QED  BY <2>0, VerifiedFacts
  <2>2. ASSUME NEW q \in first PROVE q.dev \in {d, [d EXCEPT !.routes = @ \ {"wrong"}]}
    BY <2>2, RunFacts DEF RemoveRoute
  <2>3. ASSUME NEW q \in first PROVE Others(d, q.dev, "static_route_misconfig") /\ q.dev \in Device /\ "own" \notin q.dev.routes
    <3>1. Others(d, q.dev, "static_route_misconfig")
      BY <1>1, <2>2, <2>3 DEF RouteKinds, Statement
    <3> QED  BY <1>5, <3>1 DEF Others
  <2>4. ASSUME NEW e \in Device, "own" \notin e.routes, NEW q \in everything(e) PROVE Others(e, q.dev, "static_route_misconfig")
    <3>1. q.dev \in {e, [e EXCEPT !.routes = {}]}
      BY <2>4, RunFacts
    <3> QED  BY <2>4, <3>1 DEF Others, Device, Impairments, Neighbor
  <2> HIDE DEF first, everything
  <2>5. Others(d, r.dev, "static_route_misconfig")
    <3>1. PICK q \in runs : r.dev = q.dev
      BY <2>1
    <3>2. CASE q \in first
      BY <2>3, <3>1, <3>2
    <3>3. CASE \E s \in first : q \in everything(s.dev)
      <4>1. PICK s \in first : q \in everything(s.dev)
        BY <3>3
      <4>2. Others(d, s.dev, "static_route_misconfig") /\ Others(s.dev, q.dev, "static_route_misconfig")
        BY <2>3, <2>4, <4>1
      <4> QED  BY <3>1, <4>2, OthersTrans
    <3> QED  BY <3>1, <3>2, <3>3
  <2>6. r.dev \in Device
    BY <2>5 DEF Others
  <2> QED  BY <2>1, <2>5, <2>6
<1> QED
  BY <1>3, <1>4, <1>5 DEF InjectBlackhole, InjectStaticRoute, RouteKinds, Statement

LEMMA NeighborFacts ==
  ASSUME NEW d \in Device, NEW kind \in Neighbor
  PROVE  /\ \A original \in BOOLEAN : \A r \in RecoverNeighbor(d, kind, original) :
              Others(d, r.dev, kind) /\ (r.ok => r.dev.neighbor = {})
         /\ \A r \in Misconfigure(d, kind) : Others(d, r.dev, kind) /\ (r.ok => kind \in r.dev.neighbor)
<1>1. ASSUME NEW e \in {d, [d EXCEPT !.neighbor = @ \ {kind}], [d EXCEPT !.neighbor = @ \cup {kind}]}
      PROVE  Others(d, e, kind)
  BY <1>1 DEF Others, Device, Impairments, Neighbor
<1>2. ASSUME NEW original \in BOOLEAN, NEW r \in RecoverNeighbor(d, kind, original)
      PROVE  Others(d, r.dev, kind) /\ (r.ok => r.dev.neighbor = {})
  <2> DEFINE full == IF original THEN [d EXCEPT !.neighbor = @ \ {kind}] ELSE [d EXCEPT !.neighbor = @ \cup {kind}]
  <2>1. r \in Verified(Applied(Run(d, {}, full), full), [e \in Device |-> e.neighbor = {}])
    BY <1>2 DEF RecoverNeighbor
  <2>2. r.dev \in {d, full} /\ (r.ok => [e \in Device |-> e.neighbor = {}][r.dev])
    <3> HIDE DEF full
    <3> QED  BY <2>1, VerifiedApplied
  <2>3. Others(d, r.dev, kind)
    BY <1>1, <2>2
  <2>4. r.dev \in Device
    BY <2>3 DEF Others
  <2> QED  BY <2>2, <2>3, <2>4
<1>3. ASSUME NEW r \in Misconfigure(d, kind) PROVE Others(d, r.dev, kind) /\ (r.ok => kind \in r.dev.neighbor)
  <2>1. /\ r.dev \in {d, [d EXCEPT !.neighbor = @ \cup {kind}]}
        /\ r.ok => r.dev = [d EXCEPT !.neighbor = @ \cup {kind}]
    BY <1>3, VerifiedApplied DEF Misconfigure
  <2> QED  BY <1>1, <2>1 DEF Device
<1> QED
  BY <1>2, <1>3

LEMMA PolicyFacts ==
  ASSUME NEW d \in Device
  PROVE  /\ \A kind \in Policy : \A r \in RecoverPolicy(d, kind) :
              /\ Others(d, r.dev, kind)
              /\ r.ok => IF kind = "network_statement_missing" THEN "network" \in r.dev.policy
                         ELSE "prefix-list" \notin r.dev.policy /\ "deny" \notin r.dev.policy
         /\ \A r \in WithdrawNetwork(d) :
              Others(d, r.dev, "network_statement_missing") /\ (r.ok => "network" \notin r.dev.policy)
         /\ \A r \in DenyPrefix(d) :
              Others(d, r.dev, "route_map_deny_prefix") /\ (r.ok => {"prefix-list", "deny"} \subseteq r.dev.policy)
<1>1. ASSUME NEW e \in {d, [d EXCEPT !.policy = @ \cup {"network"}], [d EXCEPT !.policy = @ \ {"network"}]}
      PROVE  Others(d, e, "network_statement_missing")
  BY <1>1 DEF Others, Device, Impairments, Neighbor
<1>2. ASSUME NEW e \in {d, [d EXCEPT !.policy = @ \ {"deny"}], [d EXCEPT !.policy = @ \ {"deny", "prefix-list"}],
                        [d EXCEPT !.policy = @ \cup {"prefix-list"}],
                        [[d EXCEPT !.policy = @ \cup {"prefix-list"}] EXCEPT !.policy = @ \cup {"deny"}]}
      PROVE  Others(d, e, "route_map_deny_prefix")
  <2>1. PICK p \in SUBSET {"network", "prefix-list", "deny"} :
          e = [d EXCEPT !.policy = p] /\ ("network" \in d.policy => "network" \in p)
    <3>1. d.policy \in SUBSET {"network", "prefix-list", "deny"} /\ d = [d EXCEPT !.policy = d.policy]
      BY DEF Device
    <3>2. [[d EXCEPT !.policy = @ \cup {"prefix-list"}] EXCEPT !.policy = @ \cup {"deny"}]
            = [d EXCEPT !.policy = d.policy \cup {"prefix-list", "deny"}]
      BY DEF Device
    <3> QED  BY <1>2, <3>1, <3>2
  <2> QED  BY <2>1 DEF Others, Device, Impairments, Neighbor
<1>3. ASSUME NEW r \in RecoverPolicy(d, "network_statement_missing")
      PROVE  Others(d, r.dev, "network_statement_missing") /\ (r.ok => "network" \in r.dev.policy)
  <2>1. /\ r.dev \in {d, [d EXCEPT !.policy = @ \cup {"network"}]}
        /\ r.ok => [e \in Device |-> Originated(e)][r.dev]
    BY <1>3, VerifiedRun DEF RecoverPolicy
  <2>2. Others(d, r.dev, "network_statement_missing")
    BY <1>1, <2>1
  <2>3. r.dev \in Device
    BY <2>2 DEF Others
  <2> QED  BY <2>1, <2>2, <2>3 DEF Originated
<1>4. ASSUME NEW kind \in Policy, kind # "network_statement_missing", NEW r \in RecoverPolicy(d, kind)
      PROVE  /\ kind = "route_map_deny_prefix" /\ Others(d, r.dev, "route_map_deny_prefix")
             /\ r.ok => "prefix-list" \notin r.dev.policy /\ "deny" \notin r.dev.policy
  <2>1. r \in Verified(Run(d, {[d EXCEPT !.policy = @ \ {"deny"}]}, [d EXCEPT !.policy = @ \ {"deny", "prefix-list"}]),
                       [e \in Device |-> e.policy \cap {"deny", "prefix-list"} = {}])
    BY <1>4 DEF RecoverPolicy
  <2>2. /\ r.dev \in {d, [d EXCEPT !.policy = @ \ {"deny"}], [d EXCEPT !.policy = @ \ {"deny", "prefix-list"}]}
        /\ r.ok => [e \in Device |-> e.policy \cap {"deny", "prefix-list"} = {}][r.dev]
    BY <2>1, VerifiedRun
  <2>3. Others(d, r.dev, "route_map_deny_prefix")
    BY <1>2, <2>2
  <2>4. r.dev \in Device
    BY <2>3 DEF Others
  <2> QED  BY <1>4, <2>2, <2>3, <2>4 DEF Policy
<1>5. ASSUME NEW r \in WithdrawNetwork(d)
      PROVE  Others(d, r.dev, "network_statement_missing") /\ (r.ok => "network" \notin r.dev.policy)
  <2>1. /\ r.dev \in {d, [d EXCEPT !.policy = @ \ {"network"}]}
        /\ r.ok => [e \in Device |-> ~Originated(e)][r.dev]
    BY <1>5, VerifiedRun DEF WithdrawNetwork
  <2>2. Others(d, r.dev, "network_statement_missing")
    BY <1>1, <2>1
  <2>3. r.dev \in Device
    BY <2>2 DEF Others
  <2> QED  BY <2>1, <2>2, <2>3 DEF Originated
<1>6. ASSUME NEW r \in DenyPrefix(d)
      PROVE  Others(d, r.dev, "route_map_deny_prefix") /\ (r.ok => {"prefix-list", "deny"} \subseteq r.dev.policy)
  <2> DEFINE listed == [d EXCEPT !.policy = @ \cup {"prefix-list"}]
  <2>1. /\ r.dev \in {d, listed, [listed EXCEPT !.policy = @ \cup {"deny"}]}
        /\ r.ok => [e \in Device |-> {"prefix-list", "deny"} \subseteq e.policy][r.dev]
    BY <1>6, VerifiedRun DEF DenyPrefix
  <2>2. Others(d, r.dev, "route_map_deny_prefix")
    BY <1>2, <2>1
  <2>3. r.dev \in Device
    BY <2>2 DEF Others
  <2> QED  BY <2>1, <2>2, <2>3
<1> QED
  BY <1>3, <1>4, <1>5, <1>6

LEMMA AclFacts ==
  ASSUME NEW d \in Device
  PROVE  /\ \A r \in RecoverAcl(d) : Others(d, r.dev, "acl_misconfig") /\ (r.ok => AclAbsent(r.dev))
         /\ \A r \in InsertAcl(d) : Others(d, r.dev, "acl_misconfig") /\ (r.ok => AclPresent(r.dev))
<1>1. ASSUME NEW e \in Device,
             NEW g \in {e} \cup {[e EXCEPT !.acl = @ \ {"rule"}], [e EXCEPT !.acl = @ \ {"table"}], [e EXCEPT !.acl = {}],
                                 [e EXCEPT !.acl = {"table"}], [e EXCEPT !.acl = {"rule"}], [e EXCEPT !.acl = {"table", "rule"}]}
      PROVE  Others(e, g, "acl_misconfig")
  BY <1>1 DEF Others, Device, Impairments, Neighbor
<1>2. ASSUME NEW g \in {d, [d EXCEPT !.rules = @ + 1], [d EXCEPT !.rules = IF @ = 0 THEN 0 ELSE @ - 1]}
      PROVE  Others(d, g, "acl_misconfig")
  <2>1. d.rules \in Nat /\ d.rules + 1 \in Nat /\ (IF d.rules = 0 THEN 0 ELSE d.rules - 1) \in Nat
    BY DEF Device
  <2> QED  BY <1>2, <2>1 DEF Others, Device, Impairments, Neighbor
<1>3. ASSUME NEW p \in BOOLEAN, NEW c \in Confirmed(p), c PROVE p
  BY <1>3 DEF Confirmed
<1>4. ASSUME NEW r \in RecoverAcl(d) PROVE Others(d, r.dev, "acl_misconfig") /\ (r.ok => AclAbsent(r.dev))
  <2> DEFINE rule == Run(d, {}, [d EXCEPT !.rules = IF @ = 0 THEN 0 ELSE @ - 1])
             entries(e) == {q.dev : q \in Run(e, {[e EXCEPT !.acl = @ \ {"rule"}], [e EXCEPT !.acl = @ \ {"table"}]},
                                              [e EXCEPT !.acl = {}])}
  <2>a. PICK e \in UNION {entries(q.dev) : q \in rule} : r \in {[ok |-> c, dev |-> e] : c \in Confirmed(AclAbsent(e))}
    BY <1>4 DEF RecoverAcl
  <2>b. PICK q \in rule : e \in entries(q.dev)
    BY <2>a
  <2>1. PICK c \in Confirmed(AclAbsent(e)) : r = [ok |-> c, dev |-> e]
    BY <2>a
  <2>2. Others(d, q.dev, "acl_misconfig")
    BY <1>2, <2>b, RunFacts
  <2>3. q.dev \in Device
    BY <2>2 DEF Others
  <2>4. e \in {q.dev, [q.dev EXCEPT !.acl = @ \ {"rule"}], [q.dev EXCEPT !.acl = @ \ {"table"}], [q.dev EXCEPT !.acl = {}]}
    BY <2>b, RunFacts
  <2>5. Others(q.dev, e, "acl_misconfig")
    BY <1>1, <2>3, <2>4
  <2>6. c => AclAbsent(e)
    BY <1>3, <2>1 DEF AclAbsent
  <2> QED  BY <2>1, <2>2, <2>5, <2>6, OthersTrans
<1>5. ASSUME NEW r \in InsertAcl(d) PROVE Others(d, r.dev, "acl_misconfig") /\ (r.ok => AclPresent(r.dev))
  <2> DEFINE rule == Run(d, {}, [d EXCEPT !.rules = @ + 1])
             entries(e) == {q.dev : q \in Run(e, {[e EXCEPT !.acl = {"table"}], [e EXCEPT !.acl = {"rule"}]},
                                              [e EXCEPT !.acl = {"table", "rule"}])}
             written == UNION {IF q.ok THEN entries(q.dev) ELSE {q.dev} : q \in rule}
  <2>0. PICK e \in written : r \in {[ok |-> c, dev |-> e] : c \in Confirmed(AclPresent(e))}
    BY <1>5 DEF InsertAcl
  <2>1. PICK c \in Confirmed(AclPresent(e)) : r = [ok |-> c, dev |-> e]
    BY <2>0
  <2>2. PICK q \in rule : e \in IF q.ok THEN entries(q.dev) ELSE {q.dev}
    BY <2>1
  <2>3. Others(d, q.dev, "acl_misconfig")
    BY <1>2, <2>2, RunFacts
  <2>4. q.dev \in Device
    BY <2>3 DEF Others
  <2>5. e \in {q.dev, [q.dev EXCEPT !.acl = {"table"}], [q.dev EXCEPT !.acl = {"rule"}], [q.dev EXCEPT !.acl = {"table", "rule"}]}
    <3>1. CASE e = q.dev
      BY <3>1
    <3>2. CASE e \in entries(q.dev)
      BY <3>2, RunFacts
    <3> QED  BY <2>2, <3>1, <3>2
  <2>6. Others(q.dev, e, "acl_misconfig")
    BY <1>1, <2>4, <2>5
  <2>7. c => AclPresent(e)
    BY <1>3, <2>1 DEF AclPresent
  <2> QED  BY <2>1, <2>3, <2>6, <2>7, OthersTrans
<1> QED
  BY <1>4, <1>5

LEMMA NodeFacts ==
  ASSUME NEW d \in Device
  PROVE  /\ \A r \in StartNode(d) :
              Others(d, r.dev, "device_down") /\ (r.ok => r.dev.running /\ ~r.dev.parked /\ r.dev.whole)
         /\ \A r \in StopNode(d) :
              /\ Others(d, r.dev, "device_down") /\ (r.ok => Parked(r.dev))
              /\ d.whole => r.dev.whole \/ ~r.dev.running
<1>1. ASSUME NEW e \in {d} \cup [mtu : {d.mtu}, configured : {d.configured}, qdisc : {d.qdisc}, routes : {d.routes},
                                 neighbor : {d.neighbor}, policy : {d.policy}, rules : {d.rules}, acl : {d.acl},
                                 running : BOOLEAN, parked : BOOLEAN, whole : BOOLEAN]
      PROVE  Others(d, e, "device_down")
  BY <1>1 DEF Others, Device, Impairments, Neighbor
<1>2. ASSUME NEW p \in BOOLEAN, NEW c \in Confirmed(p), c PROVE p
  BY <1>2 DEF Confirmed
<1>3. ASSUME NEW r \in StartNode(d)
      PROVE  Others(d, r.dev, "device_down") /\ (r.ok => r.dev.running /\ ~r.dev.parked /\ r.dev.whole)
  <2> DEFINE started == [d EXCEPT !.running = TRUE, !.parked = FALSE]
             partial == {[started EXCEPT !.whole = FALSE], [started EXCEPT !.running = FALSE, !.whole = FALSE],
                         [started EXCEPT !.parked = TRUE]}
             runs == Run(d, partial, started)
             activated(e) == Confirmed(e.running /\ ~e.parked /\ e.whole)
  <2>1. CASE r = [ok |-> FALSE, dev |-> d]
    BY <2>1, OthersRefl
  <2>2. CASE \E q \in runs : r \in {[ok |-> c, dev |-> q.dev] : c \in activated(q.dev)}
    <3>0. PICK q \in runs : r \in {[ok |-> c, dev |-> q.dev] : c \in activated(q.dev)}
      BY <2>2
    <3>1. PICK c \in activated(q.dev) : r = [ok |-> c, dev |-> q.dev]
      BY <3>0
    <3>2. q.dev \in {d, started} \cup partial
      <4> HIDE DEF started, partial
      <4> QED  BY <3>0, RunFacts
    <3>3. Others(d, q.dev, "device_down")
      BY <1>1, <3>2 DEF Device
    <3>4. q.dev \in Device
      BY <3>3 DEF Others
    <3>5. c => q.dev.running /\ ~q.dev.parked /\ q.dev.whole
      BY <1>2, <3>1, <3>4 DEF Device
    <3> QED  BY <3>1, <3>3, <3>5
  <2> QED  BY <1>3, <2>1, <2>2 DEF StartNode
<1>4. ASSUME NEW r \in StopNode(d)
      PROVE  /\ Others(d, r.dev, "device_down") /\ (r.ok => Parked(r.dev))
             /\ d.whole => r.dev.whole \/ ~r.dev.running
  <2> DEFINE full == [d EXCEPT !.running = FALSE, !.parked = TRUE]
             partial == {[d EXCEPT !.running = FALSE, !.whole = FALSE], [d EXCEPT !.parked = TRUE]}
  <2>0. PICK q \in Run(d, partial, full) : r \in {[ok |-> c, dev |-> q.dev] : c \in Confirmed(Parked(q.dev))}
    BY <1>4 DEF StopNode
  <2>1. PICK c \in Confirmed(Parked(q.dev)) : r = [ok |-> c, dev |-> q.dev]
    BY <2>0
  <2>2. q.dev \in {d, full} \cup partial
    <3> HIDE DEF full, partial
    <3> QED  BY <2>0, RunFacts
  <2>3. Others(d, q.dev, "device_down") /\ (d.whole => q.dev.whole \/ ~q.dev.running)
    BY <1>1, <2>2 DEF Device
  <2>4. q.dev \in Device
    BY <2>3 DEF Others
  <2>5. c => Parked(q.dev)
    BY <1>2, <2>1, <2>4 DEF Parked, Device
  <2> QED  BY <2>1, <2>3, <2>5
<1> QED
  BY <1>3, <1>4

----------------------------------------------------------------------------
(* Kinds *)

LEMMA AlikeFacts ==
  /\ \A kind \in AllKinds : kind \in Alike(kind) /\ Alike(kind) \subseteq AllKinds
  /\ \A kind, k \in AllKinds : k \in Alike(kind) <=> kind \in Alike(k)
  /\ \A kind, k, l \in AllKinds : l \in Alike(k) /\ l \in Alike(kind) => k \in Alike(kind)
  /\ \A kind \in Impairments : Alike(kind) = Impairments
  /\ \A kind \in Neighbor : Alike(kind) = Neighbor
  /\ \A kind \in AllKinds \ (Impairments \cup Neighbor) : Alike(kind) = {kind}
<1>1. ASSUME NEW kind \in Impairments PROVE Alike(kind) = Impairments
  BY <1>1 DEF Alike, Group, AllKinds, Impairments, Neighbor, Policy
<1>2. ASSUME NEW kind \in Neighbor PROVE Alike(kind) = Neighbor
  BY <1>2 DEF Alike, Group, AllKinds, Impairments, Neighbor, Policy
<1>3. ASSUME NEW kind \in AllKinds \ (Impairments \cup Neighbor) PROVE Alike(kind) = {kind}
  <2>1. CASE kind \in Policy
    BY <2>1 DEF Alike
  <2>2. CASE kind \notin Policy
    <3>1. Alike(kind) = {k \in AllKinds : Group(k) = kind}
      BY <1>3, <2>2 DEF Alike, Group
    <3>2. \A k \in AllKinds : Group(k) = kind <=> k = kind
      BY <1>3, <2>2 DEF Group, AllKinds, Impairments, Neighbor, Policy
    <3> QED  BY <1>3, <3>1, <3>2
  <2> QED  BY <2>1, <2>2
<1>4. Impairments \subseteq AllKinds /\ Neighbor \subseteq AllKinds /\ Impairments \cap Neighbor = {}
  BY DEF AllKinds, Impairments, Neighbor
<1> QED
  BY <1>1, <1>2, <1>3, <1>4

LEMMA KindCases ==
  ASSUME NEW kind \in AllKinds
  PROVE  \/ kind = "mtu_mismatch" \/ kind \in Impairments \/ kind = "blackhole_route"
         \/ kind = "static_route_misconfig" \/ kind \in Neighbor \/ kind = "network_statement_missing"
         \/ kind = "route_map_deny_prefix" \/ kind = "acl_misconfig" \/ kind = "device_down"
  BY DEF AllKinds, Policy

\* What is undone is so for all kinds alike, and stays so while others are worked on.
LEMMA UndoneAlike ==
  ASSUME NEW d, NEW kind \in AllKinds, NEW k \in Alike(kind), Undone(d, kind)
  PROVE  Undone(d, k)
<1>1. CASE kind \in Impairments
  <2>1. k \in Impairments
    BY <1>1, AlikeFacts
  <2> QED  BY <1>1, <2>1 DEF Undone, Impairments, Neighbor
<1>2. CASE kind \in Neighbor
  <2>1. k \in Neighbor
    BY <1>2, AlikeFacts
  <2> QED  BY <1>2, <2>1 DEF Undone, Impairments, Neighbor
<1>3. CASE kind \notin Impairments \cup Neighbor
  BY <1>3, AlikeFacts
<1> QED
  BY <1>1, <1>2, <1>3

LEMMA UndoneOthers ==
  ASSUME NEW d, NEW e, NEW kind \in AllKinds, NEW k \in AllKinds \ Alike(kind), Others(d, e, kind), Undone(d, k)
  PROVE  Undone(e, k)
<1>1. k # kind /\ (kind \in Impairments => k \notin Impairments) /\ (kind \in Neighbor => k \notin Neighbor)
  BY AlikeFacts
<1>3. CASE k = "mtu_mismatch"
  BY <1>1, <1>3 DEF Undone, Others, Impairments, Neighbor
<1>4. CASE k \in Impairments
  BY <1>1, <1>4 DEF Undone, Others, Impairments, Neighbor
<1>5. CASE k \in {"blackhole_route", "static_route_misconfig"}
  BY <1>1, <1>5 DEF Undone, Others, Impairments, Neighbor
<1>6. CASE k \in Neighbor
  BY <1>1, <1>6 DEF Undone, Others, Impairments, Neighbor
<1>7. CASE k \in {"network_statement_missing", "route_map_deny_prefix"}
  BY <1>1, <1>7 DEF Undone, Others, Impairments, Neighbor
<1>8. CASE k \in {"acl_misconfig", "device_down"}
  BY <1>1, <1>8 DEF Undone, Others, Impairments, Neighbor
<1> QED
  BY KindCases, <1>3, <1>4, <1>5, <1>6, <1>7, <1>8

----------------------------------------------------------------------------
(* Recovery, attempt and compensation, of every kind *)

LEMMA RecoveryFacts ==
  ASSUME NEW d \in Device, NEW f \in DeviceFault, NEW r \in Recovery(d, f),
         f.kind = "static_route_misconfig" => "own" \notin d.routes,
         f.kind = "mtu_mismatch" => f.original /\ ~UnreadableMtu
  PROVE  Others(d, r.dev, f.kind) /\ (r.ok => Undone(r.dev, f.kind))
<1>1. f.kind \in AllKinds /\ f.original \in BOOLEAN
  BY DeviceKindsAssumption DEF DeviceFault
<1>2. CASE f.kind = "mtu_mismatch"
  <2>1. r \in ApplyMtu(d, "original")
    BY <1>2 DEF Recovery, Impairments, Neighbor, Policy
  <2>2. "original" \in Mtus
    BY DEF Mtus
  <2> QED  BY <1>2, <2>1, <2>2, ApplyMtuFacts DEF Undone, Impairments, Neighbor
<1>3. CASE f.kind \in Impairments
  <2>1. r \in DeleteQdisc(d)
    BY <1>3 DEF Recovery, Impairments, Neighbor, Policy
  <2>2. Others(d, r.dev, f.kind) /\ (r.ok => r.dev.qdisc = "none")
    BY <1>3, <2>1, QdiscFacts
  <2> QED  BY <1>3, <2>2 DEF Undone, Impairments, Neighbor
<1>4. CASE f.kind = "blackhole_route"
  <2>1. r \in RecoverBlackhole(d)
    BY <1>4 DEF Recovery, Impairments, Neighbor, Policy
  <2> QED  BY <1>4, <2>1, RouteFacts DEF Undone, Impairments, Neighbor
<1>5. CASE f.kind = "static_route_misconfig"
  <2>1. r \in RecoverStaticRoute(d)
    BY <1>5 DEF Recovery, Impairments, Neighbor, Policy
  <2> QED  BY <1>5, <2>1, RouteFacts DEF Undone, Impairments, Neighbor
<1>6. CASE f.kind \in Neighbor
  <2>1. r \in RecoverNeighbor(d, f.kind, f.original)
    BY <1>6 DEF Recovery, Impairments, Neighbor, Policy
  <2>2. Others(d, r.dev, f.kind) /\ (r.ok => r.dev.neighbor = {})
    BY <1>1, <1>6, <2>1, NeighborFacts
  <2> QED  BY <1>6, <2>2 DEF Undone, Impairments, Neighbor
<1>7. CASE f.kind \in Policy
  <2>1. r \in RecoverPolicy(d, f.kind)
    BY <1>7 DEF Recovery, Impairments, Neighbor, Policy
  <2>2. /\ Others(d, r.dev, f.kind)
        /\ r.ok => IF f.kind = "network_statement_missing" THEN "network" \in r.dev.policy
                   ELSE "prefix-list" \notin r.dev.policy /\ "deny" \notin r.dev.policy
    BY <1>7, <2>1, PolicyFacts
  <2> QED  BY <1>7, <2>2 DEF Undone, Impairments, Neighbor, Policy
<1>8. CASE f.kind = "acl_misconfig"
  <2>1. r \in RecoverAcl(d)
    BY <1>8 DEF Recovery, Impairments, Neighbor, Policy
  <2> QED  BY <1>8, <2>1, AclFacts DEF Undone, Impairments, Neighbor, AclAbsent
<1>9. CASE f.kind = "device_down"
  <2>1. r \in StartNode(d)
    BY <1>9 DEF Recovery, Impairments, Neighbor, Policy
  <2> QED  BY <1>9, <2>1, NodeFacts DEF Undone, Impairments, Neighbor
<1> QED
  BY <1>1, KindCases, <1>2, <1>3, <1>4, <1>5, <1>6, <1>7, <1>8, <1>9 DEF Policy

LEMMA AttemptFacts ==
  ASSUME NEW d \in Device, NEW kind \in AllKinds, NEW r \in Attempt(d, kind)
  PROVE  /\ Others(d, r.dev, kind)
         /\ (kind = "mtu_mismatch" => ~UnreadableMtu) /\ r.ok => InEffect(r.dev, kind)
         /\ kind = "device_down" /\ d.whole => r.dev.whole \/ ~r.dev.running
<1>1. CASE kind = "mtu_mismatch"
  <2>1. r \in ApplyMtu(d, "faulty")
    BY <1>1 DEF Attempt, Impairments, Neighbor, Policy
  <2>2. "faulty" \in Mtus
    BY DEF Mtus
  <2> QED  BY <1>1, <2>1, <2>2, ApplyMtuFacts DEF InEffect, Impairments, Neighbor
<1>2. CASE kind \in Impairments
  <2>1. r \in SetQdisc(d, kind)
    BY <1>2 DEF Attempt, Impairments, Neighbor, Policy
  <2>2. Others(d, r.dev, kind) /\ (r.ok => r.dev.qdisc = kind)
    BY <1>2, <2>1, QdiscFacts
  <2> QED  BY <1>2, <2>2 DEF InEffect, Impairments, Neighbor
<1>3. CASE kind = "blackhole_route"
  <2>1. r \in InjectBlackhole(d)
    BY <1>3 DEF Attempt, Impairments, Neighbor, Policy
  <2> QED  BY <1>3, <2>1, RouteFacts DEF InEffect, Impairments, Neighbor
<1>4. CASE kind = "static_route_misconfig"
  <2>1. r \in InjectStaticRoute(d)
    BY <1>4 DEF Attempt, Impairments, Neighbor, Policy
  <2> QED  BY <1>4, <2>1, RouteFacts DEF InEffect, Impairments, Neighbor
<1>5. CASE kind \in Neighbor
  <2>1. r \in Misconfigure(d, kind)
    BY <1>5 DEF Attempt, Impairments, Neighbor, Policy
  <2>2. Others(d, r.dev, kind) /\ (r.ok => kind \in r.dev.neighbor)
    BY <1>5, <2>1, NeighborFacts
  <2> QED  BY <1>5, <2>2 DEF InEffect, Impairments, Neighbor
<1>6. CASE kind = "network_statement_missing"
  <2>1. r \in WithdrawNetwork(d)
    BY <1>6 DEF Attempt, Impairments, Neighbor, Policy
  <2> QED  BY <1>6, <2>1, PolicyFacts DEF InEffect, Originated, Impairments, Neighbor
<1>7. CASE kind = "route_map_deny_prefix"
  <2>1. r \in DenyPrefix(d)
    BY <1>7 DEF Attempt, Impairments, Neighbor, Policy
  <2> QED  BY <1>7, <2>1, PolicyFacts DEF InEffect, Impairments, Neighbor
<1>8. CASE kind = "acl_misconfig"
  <2>1. r \in InsertAcl(d)
    BY <1>8 DEF Attempt, Impairments, Neighbor, Policy
  <2> QED  BY <1>8, <2>1, AclFacts DEF InEffect, Impairments, Neighbor
<1>9. CASE kind = "device_down"
  <2>1. r \in StopNode(d)
    BY <1>9 DEF Attempt, Impairments, Neighbor, Policy
  <2> QED  BY <1>9, <2>1, NodeFacts DEF InEffect, Impairments, Neighbor
<1> QED
  BY KindCases, <1>1, <1>2, <1>3, <1>4, <1>5, <1>6, <1>7, <1>8, <1>9

LEMMA CompensationFacts ==
  ASSUME NEW d \in Device, NEW f \in DeviceFault, NEW c \in Compensation(d, f),
         f.kind = "static_route_misconfig" => "own" \notin d.routes,
         f.kind = "mtu_mismatch" => f.original /\ ~UnreadableMtu,
         f.kind = "device_down" => d.whole \/ ~d.running
  PROVE  Others(d, c.dev, f.kind) /\ (c.ok => Undone(c.dev, f.kind))
<1>1. CASE f.kind = "device_down"
  <2>1. PICK p \in Confirmed(d.running /\ ~d.parked) : c = [ok |-> p, dev |-> d]
    BY <1>1 DEF Compensation
  <2>2. p => d.running /\ ~d.parked
    BY <2>1 DEF Confirmed, Device
  <2> QED  BY <1>1, <2>1, <2>2, OthersRefl DEF Undone, Impairments, Neighbor
<1>2. CASE f.kind # "device_down"
  BY <1>2, RecoveryFacts DEF Compensation
<1> QED
  BY <1>1, <1>2

LEMMA AccountedStep ==
  ASSUME NEW d, NEW e, NEW kind \in AllKinds, Others(d, e, kind),
         NEW fs, NEW gs, \A f \in fs : f.kind \in AllKinds, Accounted(d, fs),
         \A f \in fs : f \notin gs => f.kind \in Alike(kind),
         Undone(e, kind) \/ \E g \in gs : g.kind = kind
  PROVE  Accounted(e, gs)
<1> SUFFICES ASSUME NEW k \in AllKinds, ~Undone(e, k) PROVE \E g \in gs : g.kind \in Alike(k)
  BY DEF Accounted
<1>1. CASE k \in Alike(kind)
  <2>1. ~Undone(e, kind)
    BY <1>1, UndoneAlike
  <2>2. PICK g \in gs : g.kind = kind
    BY <2>1
  <2> QED  BY <1>1, <2>2, AlikeFacts
<1>2. CASE k \notin Alike(kind)
  <2>1. ~Undone(d, k)
    BY <1>2, UndoneOthers
  <2>2. PICK f \in fs : f.kind \in Alike(k)
    BY <2>1 DEF Accounted
  <2>3. f \in gs
    BY <1>2, <2>2, AlikeFacts
  <2> QED  BY <2>2, <2>3
<1> QED
  BY <1>1, <1>2

----------------------------------------------------------------------------
(* The steps *)

\* What the handlers are known not to be prepared for: a second fault that saves the first one's work as the
\* original state, a route of the device's own, and an MTU that cannot be read.
Prepared ==
  /\ UnreadableMtu => "mtu_mismatch" \notin DeviceKinds
  /\ OwnRoute => "static_route_misconfig" \notin DeviceKinds
  /\ Stacks \cap {"mtu_mismatch", "policy"} = {}

LEMMA TrackedType == DeviceTypeOK => \A f \in DeviceTracked : f \in DeviceFault /\ f.kind \in AllKinds /\ f.kind \in DeviceKinds
<1> SUFFICES ASSUME DeviceTypeOK, NEW f \in DeviceTracked PROVE f \in DeviceFault
  BY DeviceKindsAssumption DEF DeviceFault
<1> QED
  BY ElemsIn DEF DeviceTypeOK, DeviceTracked

\* What an injection does: nothing but what its fault is tracked for.
LEMMA InjectFacts ==
  ASSUME DeviceInv, Prepared, NEW kind \in DeviceKinds, InjectOnDevice(kind)
  PROVE  /\ Others(dev, dev', kind) /\ deviceFaults' \in Seq(DeviceFault)
         /\ \/ \E f \in DeviceFault :
                 /\ deviceFaults' = Append(deviceFaults, f) /\ f.kind = kind
                 /\ kind = "mtu_mismatch" => f.original
                 /\ ~f.residual => InEffect(dev', kind)
            \/ /\ Undone(dev', kind) /\ Elems(deviceFaults') \subseteq Elems(deviceFaults) /\ Len(deviceFaults') <= Len(deviceFaults)
               /\ \A f \in Elems(deviceFaults) : f \notin Elems(deviceFaults') => f.kind \in Alike(kind)
<1>1. /\ phase = "idle" /\ DeviceTracked = Elems(deviceFaults) /\ deviceFaults \in Seq(DeviceFault) /\ kind \in AllKinds /\ dev \in Device
      /\ \A f \in Elems(deviceFaults) : f.kind \in AllKinds
  BY TrackedType, DeviceKindsAssumption DEF DeviceInv, DeviceTypeOK, InjectOnDevice, MayInject, DeviceTracked
<1>2. \A f \in Elems(deviceFaults) :
        /\ Group(f.kind) = Group(kind) => Group(kind) \in Stacks
        /\ kind # "device_down"
  <2>1. Elems(deviceFaults) = ToSet(deviceFaults)
    BY DEF Elems, ToSet
  <2> QED  BY <2>1 DEF InjectOnDevice, MayInject
<1>3. PICK original \in Snapshots(kind), a \in Attempt(dev, kind) :
        LET f == [kind |-> kind, residual |-> ~a.ok, original |-> original]
        IN IF a.ok
           THEN dev' = a.dev /\ deviceFaults' = Append(deviceFaults, f)
           ELSE \E c \in Compensation(a.dev, f) :
                  /\ dev' = c.dev
                  /\ deviceFaults' = IF ~c.ok THEN Append(deviceFaults, f)
                               ELSE IF Forgets(kind) THEN Untracked(deviceFaults, kind) ELSE deviceFaults
  BY DEF InjectOnDevice
<1> DEFINE f == [kind |-> kind, residual |-> ~a.ok, original |-> original]
<1>4. /\ original \in BOOLEAN
      /\ kind = "mtu_mismatch" => original /\ ~UnreadableMtu
  <2>1. CASE kind = "mtu_mismatch"
    <3>0. Snapshots(kind) = {m = "original" : m \in ReadMtu(dev)}
      BY <2>1 DEF Snapshots, Neighbor
    <3>1. PICK m \in ReadMtu(dev) : original = (m = "original")
      BY <1>3, <3>0
    <3>2. ~UnreadableMtu
      BY <2>1 DEF Prepared
    <3>3. Undone(dev, kind)
      <4>1. \A g \in Elems(deviceFaults) : g.kind \notin Alike(kind)
        <5>1. Alike(kind) = {kind}
          BY <1>1, <2>1, AlikeFacts DEF Impairments, Neighbor
        <5>2. Group(kind) = "mtu_mismatch"
          BY <2>1 DEF Group, Impairments, Neighbor, Policy
        <5> QED  BY <1>2, <5>1, <5>2 DEF Prepared
      <4> QED  BY <1>1, <4>1 DEF DeviceInv, Accounted
    <3>4. m = dev.mtu /\ dev.mtu = "original"
      BY <2>1, <3>1, <3>2, <3>3 DEF ReadMtu, Undone
    <3> QED  BY <3>1, <3>2, <3>4
  <2>2. CASE kind # "mtu_mismatch"
    <3>1. Snapshots(kind) = IF kind \in Neighbor THEN {kind \notin dev.neighbor} ELSE {TRUE}
      BY <2>2 DEF Snapshots
    <3> QED  BY <1>3, <2>2, <3>1
  <2> QED  BY <2>1, <2>2
<1>5. f \in DeviceFault /\ f.kind = kind /\ (kind = "mtu_mismatch" => f.original) /\ f.residual = ~a.ok
  BY <1>4 DEF DeviceFault
<1>6. /\ Others(dev, a.dev, kind) /\ a.dev \in Device
      /\ a.ok => InEffect(a.dev, kind)
      /\ kind = "device_down" => a.dev.whole \/ ~a.dev.running
  <2>1. kind = "device_down" => Undone(dev, "device_down")
    BY <1>1, <1>2 DEF DeviceInv, Accounted
  <2>2. kind = "device_down" => dev.whole
    BY <2>1 DEF Undone
  <2>3. /\ Others(dev, a.dev, kind) /\ (a.ok => InEffect(a.dev, kind))
        /\ kind = "device_down" => a.dev.whole \/ ~a.dev.running
    BY <1>1, <1>3, <1>4, <2>2, AttemptFacts
  <2> QED  BY <2>3 DEF Others
<1>7. kind = "static_route_misconfig" => "own" \notin a.dev.routes
  BY <1>6 DEF Prepared, DeviceInv, Others
<1> HIDE DEF f
<1>8. CASE a.ok
  <2>1. dev' = a.dev /\ deviceFaults' = Append(deviceFaults, f)
    BY <1>3, <1>8 DEF f
  <2> QED  BY <1>1, <1>5, <1>6, <1>8, <2>1, ElemsAppend
<1>9. CASE ~a.ok
  <2>1. PICK c \in Compensation(a.dev, f) :
          /\ dev' = c.dev
          /\ deviceFaults' = IF ~c.ok THEN Append(deviceFaults, f)
                       ELSE IF Forgets(kind) THEN Untracked(deviceFaults, kind) ELSE deviceFaults
    BY <1>3, <1>9 DEF f
  <2>2. Others(a.dev, c.dev, kind) /\ (c.ok => Undone(c.dev, kind))
    BY <1>4, <1>5, <1>6, <1>7, <2>1, CompensationFacts
  <2>3. Others(dev, dev', kind)
    BY <1>6, <2>1, <2>2, OthersTrans
  <2>4. CASE ~c.ok
    BY <1>1, <1>5, <1>9, <2>1, <2>3, <2>4, ElemsAppend
  <2>5. CASE c.ok /\ ~Forgets(kind)
    BY <1>1, <2>1, <2>2, <2>3, <2>5
  <2>6. CASE c.ok /\ Forgets(kind)
    <3> DEFINE kinds == {k \in AllKinds : Group(k) = Group(kind)}
    <3>1. deviceFaults' = Without(deviceFaults, kinds)
      BY <2>1, <2>6 DEF Untracked
    <3>2. /\ deviceFaults' \in Seq(DeviceFault) /\ Len(deviceFaults') <= Len(deviceFaults)
          /\ Elems(deviceFaults') = {g \in Elems(deviceFaults) : g.kind \notin kinds}
      <4> HIDE DEF kinds
      <4> QED  BY <1>1, <3>1, WithoutFacts
    <3>3. ASSUME NEW g \in Elems(deviceFaults), g.kind \in kinds PROVE g.kind \in Alike(kind)
      <4>1. Group(g.kind) = Group(kind) /\ Group(kind) \in Stacks
        BY <1>2, <3>3
      <4>2. kind \notin Policy
        BY <4>1 DEF Prepared, Group, Policy, Impairments, Neighbor
      <4> QED  BY <3>3, <4>2 DEF Alike
    <3> QED  BY <1>1, <2>1, <2>2, <2>3, <2>6, <3>2, <3>3
  <2> QED  BY <2>4, <2>5, <2>6
<1> QED
  BY <1>8, <1>9

LEMMA InjectKeeps ==
  ASSUME DeviceInv, Prepared, NEW kind \in DeviceKinds, InjectOnDevice(kind)
  PROVE  DeviceInv'
<1>1. phase = "idle" /\ UNCHANGED <<devicePending, deviceRemaining, phase, healed>> /\ DeviceTypeOK /\ kind \in AllKinds
  BY DeviceKindsAssumption DEF InjectOnDevice, MayInject, DeviceInv
<1>2. Others(dev, dev', kind) /\ deviceFaults' \in Seq(DeviceFault)
  BY InjectFacts
<1>3. DeviceTracked = Elems(deviceFaults) /\ DeviceTracked' = Elems(deviceFaults')
  BY <1>1 DEF DeviceTracked, Elems
<1>4. DeviceTypeOK'
  BY <1>1, <1>2 DEF DeviceTypeOK, Others
<1>5. "own" \in dev'.routes <=> OwnRoute
  BY <1>2 DEF DeviceInv, Others
<1>6. /\ \A f \in DeviceTracked' : f.kind = "mtu_mismatch" => f.original
      /\ \A f \in DeviceTracked : f \notin DeviceTracked' => f.kind \in Alike(kind)
      /\ Undone(dev', kind) \/ \E f \in DeviceTracked' : f.kind = kind
  <2>1. CASE \E f \in DeviceFault : deviceFaults' = Append(deviceFaults, f) /\ f.kind = kind /\ (kind = "mtu_mismatch" => f.original)
    <3>1. PICK f \in DeviceFault : deviceFaults' = Append(deviceFaults, f) /\ f.kind = kind /\ (kind = "mtu_mismatch" => f.original)
      BY <2>1
    <3>2. DeviceTracked' = DeviceTracked \cup {f}
      BY <1>1, <1>3, <3>1, ElemsAppend DEF DeviceTypeOK
    <3> QED  BY <3>1, <3>2 DEF DeviceInv
  <2>2. CASE /\ Undone(dev', kind) /\ Elems(deviceFaults') \subseteq Elems(deviceFaults)
             /\ \A f \in Elems(deviceFaults) : f \notin Elems(deviceFaults') => f.kind \in Alike(kind)
    BY <1>3, <2>2 DEF DeviceInv
  <2> QED  BY <2>1, <2>2, InjectFacts
<1>7. Accounted(dev', DeviceTracked')
  <2>1. Accounted(dev, DeviceTracked) /\ \A f \in DeviceTracked : f.kind \in AllKinds
    BY <1>1, TrackedType DEF DeviceInv
  <2> QED  BY <1>1, <1>2, <1>6, <2>1, AccountedStep
<1> QED
  BY <1>1, <1>4, <1>5, <1>6, <1>7 DEF DeviceInv, Accounted, Undone

LEMMA RecoverNextKeeps ==
  ASSUME DeviceInv, Prepared, RecoverNextOnDevice
  PROVE  DeviceInv'
<1> DEFINE f == Head(devicePending)
<1>1. /\ devicePending # <<>> /\ devicePending' = Tail(devicePending) /\ phase = "recovering" /\ phase' = phase /\ healed' = healed
      /\ DeviceTypeOK /\ dev \in Device /\ devicePending \in Seq(DeviceFault) /\ deviceRemaining \in Seq(DeviceFault) /\ deviceFaults \in Seq(DeviceFault)
  BY DEF RecoverNextOnDevice, DeviceInv, DeviceTypeOK
<1>2. PICK r \in Recovery(dev, f) :
        /\ dev' = r.dev
        /\ deviceFaults' = IF r.ok THEN Untracked(deviceFaults, f.kind) ELSE deviceFaults
        /\ deviceRemaining' = IF r.ok THEN deviceRemaining ELSE Append(deviceRemaining, f)
  BY DEF RecoverNextOnDevice
<1>3. f \in DeviceFault /\ Tail(devicePending) \in Seq(DeviceFault) /\ Elems(devicePending) = {f} \cup Elems(Tail(devicePending))
  BY <1>1, ElemsTail
<1> HIDE DEF f
<1>4. DeviceTracked = {f} \cup Elems(Tail(devicePending)) \cup Elems(deviceRemaining)
  BY <1>1, <1>3 DEF DeviceTracked
<1>5. f.kind \in AllKinds /\ f.kind \in DeviceKinds
  BY <1>3, DeviceKindsAssumption DEF DeviceFault
<1>6. Others(dev, dev', f.kind) /\ (r.ok => Undone(dev', f.kind))
  <2>1. f.kind = "static_route_misconfig" => "own" \notin dev.routes
    BY <1>5 DEF DeviceInv, Prepared
  <2>2. f.kind = "mtu_mismatch" => f.original /\ ~UnreadableMtu
    BY <1>4, <1>5 DEF DeviceInv, Prepared
  <2> QED  BY <1>1, <1>2, <1>3, <2>1, <2>2, RecoveryFacts
<1>7. deviceRemaining' \in Seq(DeviceFault) /\ DeviceTracked' = IF r.ok THEN Elems(Tail(devicePending)) \cup Elems(deviceRemaining) ELSE DeviceTracked
  <2>1. CASE r.ok
    BY <1>1, <1>2, <2>1 DEF DeviceTracked, Elems
  <2>2. CASE ~r.ok
    <3>1. deviceRemaining' = Append(deviceRemaining, f)
      BY <1>2, <2>2
    <3>2. deviceRemaining' \in Seq(DeviceFault) /\ Elems(deviceRemaining') = Elems(deviceRemaining) \cup {f}
      BY <1>1, <1>3, <3>1, ElemsAppend
    <3>3. DeviceTracked' = Elems(Tail(devicePending)) \cup Elems(deviceRemaining')
      BY <1>1 DEF DeviceTracked, Elems
    <3> QED  BY <1>4, <2>2, <3>2, <3>3
  <2> QED  BY <2>1, <2>2
<1>8. deviceFaults' \in Seq(DeviceFault)
  BY <1>1, <1>2, WithoutFacts DEF Untracked
<1>9. DeviceTypeOK'
  BY <1>1, <1>3, <1>6, <1>7, <1>8 DEF DeviceTypeOK, Others
<1>10. "own" \in dev'.routes <=> OwnRoute
  BY <1>6 DEF DeviceInv, Others
<1>11. \A g \in DeviceTracked' : g.kind = "mtu_mismatch" => g.original
  BY <1>4, <1>7 DEF DeviceInv
<1>12. Accounted(dev', DeviceTracked')
  <2>1. Accounted(dev, DeviceTracked) /\ \A g \in DeviceTracked : g.kind \in AllKinds
    BY <1>1, TrackedType DEF DeviceInv
  <2>2. \A g \in DeviceTracked : g \notin DeviceTracked' => g.kind \in Alike(f.kind)
    BY <1>4, <1>5, <1>7, AlikeFacts
  <2>3. Undone(dev', f.kind) \/ \E g \in DeviceTracked' : g.kind = f.kind
    BY <1>4, <1>6, <1>7
  <2> QED  BY <1>5, <1>6, <2>1, <2>2, <2>3, AccountedStep
<1> QED
  BY <1>1, <1>9, <1>10, <1>11, <1>12 DEF DeviceInv, Accounted, Undone

LEMMA OtherStepsKeep ==
  ASSUME DeviceInv, StartRecovery \/ EndRecovery \/ Heal \/ UNCHANGED deviceVars
  PROVE  DeviceInv'
<1>1. DeviceTypeOK' /\ dev' = dev
  BY DEF DeviceInv, DeviceTypeOK, StartRecovery, EndRecovery, Heal, deviceVars
<1>2. devicePending' # <<>> => phase' = "recovering"
  BY DEF DeviceInv, DeviceTypeOK, StartRecovery, EndRecovery, Heal, deviceVars
<1>3. DeviceTracked' = DeviceTracked
  <2>1. CASE StartRecovery
    BY <2>1, ElemsEmpty DEF StartRecovery, DeviceTracked, Elems
  <2>2. CASE EndRecovery
    BY <2>2, ElemsEmpty DEF EndRecovery, DeviceTracked, Elems
  <2>3. CASE Heal \/ UNCHANGED deviceVars
    BY <2>3 DEF Heal, deviceVars, DeviceTracked
  <2> QED  BY <2>1, <2>2, <2>3
<1> QED
  BY <1>1, <1>2, <1>3 DEF DeviceInv, Accounted, Undone

LEMMA InitDeviceInv == DeviceInit => DeviceInv
<1> SUFFICES ASSUME DeviceInit PROVE DeviceInv
  OBVIOUS
<1>1. dev = Original /\ deviceFaults = <<>> /\ devicePending = <<>> /\ deviceRemaining = <<>> /\ phase = "idle" /\ healed = FALSE
  BY DEF DeviceInit
<1>2. Original \in Device /\ ("own" \in Original.routes <=> OwnRoute)
  BY SwitchesAssumption DEF Original, Device, Mtus
<1>3. \A kind \in AllKinds : Undone(Original, kind)
  BY DEF Original, Undone
<1>4. DeviceTracked = {}
  BY <1>1, ElemsEmpty DEF DeviceTracked
<1>5. DeviceTypeOK
  <2>1. <<>> \in Seq(DeviceFault) /\ dev \in Device
    BY <1>1, <1>2
  <2>2. phase \in {"idle", "recovering"} /\ healed \in BOOLEAN
    BY <1>1
  <2> QED  BY <1>1, <2>1, <2>2 DEF DeviceTypeOK
<1>6. Accounted(dev, DeviceTracked)
  BY <1>1, <1>3 DEF Accounted
<1> QED
  BY <1>1, <1>2, <1>4, <1>5, <1>6 DEF DeviceInv

LEMMA DeviceStep == DeviceInv /\ Prepared /\ [DeviceNext]_deviceVars => DeviceInv'
  BY InjectKeeps, RecoverNextKeeps, OtherStepsKeep DEF DeviceNext

\* Whatever a fault has changed on a device, a fault that is tracked will undo.
THEOREM DeviceInvHolds ==
  ASSUME Prepared
  PROVE  DeviceSpec => []DeviceInv
<1>1. Prepared
  OBVIOUS
<1> QED
  BY <1>1, InitDeviceInv, DeviceStep, PTL DEF DeviceSpec

\* A device no fault is tracked for is as it was before the first one, whichever commands were refused
\* or reported as done although they were not, in the injections and in the recoveries.
THEOREM UntrackedIsOriginal ==
  ASSUME Prepared
  PROVE  DeviceSpec => []UntrackedMeansOriginal
<1>1. DeviceInv => UntrackedMeansOriginal
  <2> SUFFICES ASSUME DeviceInv, phase = "idle", deviceFaults = <<>> PROVE DeviceClean(dev)
    BY DEF UntrackedMeansOriginal
  <2>1. DeviceTracked = {} /\ dev \in Device
    BY ElemsEmpty DEF DeviceTracked, DeviceInv, DeviceTypeOK
  <2>2. \A kind \in AllKinds : Undone(dev, kind)
    BY <2>1 DEF DeviceInv, Accounted
  <2>3. dev.mtu = "original" /\ dev.qdisc = "none" /\ dev.neighbor = {}
    BY <2>2 DEF Undone, AllKinds, Impairments, Neighbor
  <2>4. dev.routes = IF OwnRoute THEN {"own"} ELSE {}
    <3>1. "Null0" \notin dev.routes /\ "wrong" \notin dev.routes
      BY <2>2 DEF Undone, AllKinds
    <3> QED  BY <2>1, <3>1 DEF Device, DeviceInv
  <2>5. dev.policy = {"network"}
    <3>1. "network" \in dev.policy /\ "prefix-list" \notin dev.policy /\ "deny" \notin dev.policy
      BY <2>2 DEF Undone, AllKinds, Policy
    <3> QED  BY <2>1, <3>1 DEF Device
  <2>6. dev.rules = 0 /\ dev.acl = {} /\ dev.running /\ ~dev.parked /\ dev.whole
    BY <2>2 DEF Undone, AllKinds
  <2>7. dev.running = TRUE /\ dev.parked = FALSE /\ dev.whole = TRUE
    BY <2>1, <2>6 DEF Device
  <2>8. dev = [mtu |-> dev.mtu, configured |-> dev.configured, qdisc |-> dev.qdisc, routes |-> dev.routes,
               neighbor |-> dev.neighbor, policy |-> dev.policy, rules |-> dev.rules, acl |-> dev.acl,
               running |-> dev.running, parked |-> dev.parked, whole |-> dev.whole]
    BY <2>1 DEF Device
  <2> DEFINE e == [dev EXCEPT !.configured = "original"]
  <2>9. e = [mtu |-> dev.mtu, configured |-> "original", qdisc |-> dev.qdisc, routes |-> dev.routes,
             neighbor |-> dev.neighbor, policy |-> dev.policy, rules |-> dev.rules, acl |-> dev.acl,
             running |-> dev.running, parked |-> dev.parked, whole |-> dev.whole]
    BY <2>8
  <2> HIDE DEF e
  <2>10. e = Original
    BY <2>3, <2>4, <2>5, <2>6, <2>7, <2>9 DEF Original
  <2> QED  BY <2>10 DEF DeviceClean, e
<1> QED
  BY <1>1, DeviceInvHolds, PTL

\* What inject_fault reports as injected is in effect on the device: of what it has not seen applied,
\* the tracked fault is marked as left behind.
THEOREM InjectedIsInEffect ==
  ASSUME Prepared
  PROVE  DeviceSpec => InjectedInEffect
<1> DEFINE Claim == phase = "idle" /\ Len(deviceFaults') > Len(deviceFaults) /\ ~Last(deviceFaults').residual
                      => InEffect(dev', Last(deviceFaults').kind)
<1>1. Prepared
  OBVIOUS
<1>2. DeviceInv /\ [DeviceNext]_deviceVars => [Claim]_deviceVars
  <2> SUFFICES ASSUME DeviceInv, DeviceNext, phase = "idle", Len(deviceFaults') > Len(deviceFaults), ~Last(deviceFaults').residual
               PROVE  InEffect(dev', Last(deviceFaults').kind)
    OBVIOUS
  <2>1. deviceFaults \in Seq(DeviceFault) /\ Len(deviceFaults) \in Nat
    BY DEF DeviceInv, DeviceTypeOK
  <2>2. PICK kind \in DeviceKinds : InjectOnDevice(kind)
    <3>1. ~(StartRecovery \/ RecoverNextOnDevice \/ EndRecovery \/ Heal)
      BY <2>1 DEF StartRecovery, RecoverNextOnDevice, EndRecovery, Heal, DeviceInv
    <3> QED  BY <3>1 DEF DeviceNext
  <2>3. PICK f \in DeviceFault : deviceFaults' = Append(deviceFaults, f) /\ f.kind = kind /\ (~f.residual => InEffect(dev', kind))
    <3>1. deviceFaults' \in Seq(DeviceFault) /\ Len(deviceFaults') \in Nat
      BY <1>1, <2>2, InjectFacts
    <3> QED  BY <1>1, <2>1, <2>2, <3>1, InjectFacts
  <2>4. Last(deviceFaults') = f
    BY <2>1, <2>3 DEF Last
  <2> QED  BY <2>3, <2>4
<1>3. DeviceSpec => [][Claim]_deviceVars
  BY <1>1, <1>2, DeviceInvHolds, PTL DEF DeviceSpec
<1> QED
  BY <1>3 DEF InjectedInEffect
=============================================================================
