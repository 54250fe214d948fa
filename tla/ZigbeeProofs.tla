---------------------------- MODULE ZigbeeProofs ----------------------------
(***************************************************************************)
(* The two things the program asks of Zigbee2MQTT.                         *)
(*                                                                         *)
(* What the bridge client (mqtt.py) believes of the bridge is true, and    *)
(* the client keeps the promise the runtime is specified on, for any       *)
(* number of requests, foreign openings, faults and reloads.               *)
(*                                                                         *)
(* A probe (physical_probe.py, true_family_brt_probe.mjs) writes only      *)
(* records that load again, and whatever fails or crashes, a valve that    *)
(* was left with the challenge target is found and watched until its       *)
(* restore, for any limits on attempts, sequences and generations.         *)
(*                                                                         *)
(* Each part: what its operators do, then the inductive invariant, one     *)
(* step per action, then the theorems.                                     *)
(***************************************************************************)
EXTENDS PermitJoin, PhysicalProbe, FiniteSetTheorems, TLAPS

-----------------------------------------------------------------------------
(* PART 1: the bridge client. *)

Notes   == {"clean", "opened", "unsafe"}
ObsType == [gen : Nat, unsafe : Nat, foreign : Nat, proof : Nat,
            online : {"unknown", "online", "offline"}, invalid : BOOLEAN,
            info : InfoType \cup {None}, seen : BOOLEAN, own : OwnType \cup {None},
            aged : BOOLEAN, note : Notes]

\* What has the same observation but for the judgement.
SameNews(s, t) ==
    /\ t.gen = s.gen /\ t.unsafe = s.unsafe /\ t.proof = s.proof
    /\ t.online = s.online /\ t.info = s.info /\ t.seen = s.seen /\ t.aged = s.aged

\* The attribution still is of the same opening.
SameOpening(s, t) ==
    /\ s.own = None => t.own = None
    /\ s.own # None => t.own # None /\ t.own.tx = s.own.tx /\ t.own.gen = s.own.gen

-----------------------------------------------------------------------------
(* The judgements. *)

\* _mark_unsafe: the generation is unsafe, proof and attribution are gone.
LEMMA MarkedUnsafe ==
    ASSUME NEW s \in ObsType
    PROVE  LET t == MarkUnsafe(s)
           IN  /\ t \in ObsType
               /\ t.gen = s.gen /\ t.foreign = s.foreign /\ t.online = s.online
               /\ t.info = s.info /\ t.seen = s.seen /\ t.aged = s.aged
               /\ t.unsafe = s.gen /\ t.proof = 0 /\ t.own = None /\ t.note = "unsafe"
  BY DEF MarkUnsafe, ObsType, Notes

\* _reject_open_state: the generation is foreign, a provisional opening is given up.
LEMMA Rejected ==
    ASSUME NEW s \in ObsType, NEW g \in Nat
    PROVE  LET t == Reject(s, g)
           IN  /\ t \in ObsType /\ SameNews(s, t) /\ SameOpening(s, t)
               /\ t.foreign >= g /\ t.foreign \in {s.foreign, g} /\ t.foreign >= s.foreign
               /\ t.note = "opened"
               /\ s.own # None => /\ t.own.acked = s.own.acked /\ t.own.info = s.own.info
                                  /\ t.own.provisional = None
  <1> DEFINE f == Later(s.foreign, g)
             o == IF s.own = None THEN None ELSE [s.own EXCEPT !.provisional = None]
  <1>1. f \in Nat /\ f >= g /\ f \in {s.foreign, g} /\ f >= s.foreign
    BY DEF Later, ObsType
  <1>2. s.own = None => o = None
    OBVIOUS
  <1>3. s.own # None => /\ o \in OwnType /\ o.tx = s.own.tx /\ o.gen = s.own.gen
                        /\ o.acked = s.own.acked /\ o.info = s.own.info /\ o.provisional = None
    BY DEF ObsType, OwnType
  <1>4. Reject(s, g) = [s EXCEPT !.foreign = f, !.own = o, !.note = "opened"]
    BY DEF Reject
  <1> HIDE DEF f, o
  <1>5. o \in OwnType \cup {None} /\ (s.own # None => o # None)
    BY <1>2, <1>3, PermitConstants
  <1>6. "opened" \in Notes
    BY DEF Notes
  <1>7. /\ Reject(s, g) \in ObsType /\ SameNews(s, Reject(s, g))
        /\ Reject(s, g).foreign = f /\ Reject(s, g).own = o /\ Reject(s, g).note = "opened"
    BY <1>1, <1>4, <1>5, <1>6 DEF ObsType, SameNews
  <1>8. QED
    BY <1>1, <1>2, <1>3, <1>5, <1>7 DEF SameOpening

\* An opening whose news are younger than its request and its candidate.
Younger(s) ==
    s.own # None => /\ s.own.gen < s.info.gen
                    /\ s.own.provisional # None => s.own.provisional.gen < s.info.gen
                    /\ s.own.acked => s.own.provisional = None

\* What an open window is to the observer: somebody else's, a candidate or ours.
Explained(s) ==
    s.own # None =>
        \/ s.foreign > s.own.gen
        \/ ~s.own.acked /\ s.own.provisional = s.info
        \/ s.own.acked /\ s.info.end = s.own.tx

\* _classify_open_state attributes the window or holds it against the observer.
LEMMA ClassifiedOpen ==
    ASSUME NEW s \in ObsType, s.info # None, Younger(s), NEW late \in BOOLEAN
    PROVE  LET t == ClassifyOpen(s, late)
           IN  /\ t \in ObsType /\ SameNews(s, t) /\ SameOpening(s, t)
               /\ t.foreign \in {s.foreign, s.info.gen} /\ t.foreign >= s.foreign
               /\ \/ t.note = "opened" /\ t.foreign >= s.info.gen
                  \/ t.note = s.note /\ s.own # None
               /\ s.own # None => /\ t.own.info \in {s.own.info, s.info.gen}
                                  /\ t.own.provisional # None => ~t.own.acked /\ t.own.provisional = s.info
               /\ Explained(t)
  <1> DEFINE t == ClassifyOpen(s, late)
             g == s.info.gen
  <1>1. s.info \in InfoType /\ g \in Nat /\ s.foreign \in Nat
    BY DEF ObsType, InfoType
  <1>2. CASE s.own = None
    <2> DEFINE f == Later(s.foreign, g)
    <2>1. f \in Nat /\ f >= g /\ f \in {s.foreign, g} /\ f >= s.foreign
      BY <1>1 DEF Later
    <2>2. t = [s EXCEPT !.foreign = f, !.note = "opened"]
      BY <1>2 DEF ClassifyOpen
    <2> HIDE DEF f
    <2>3. t \in ObsType /\ SameNews(s, t) /\ t.foreign = f /\ t.own = s.own /\ t.note = "opened"
      BY <2>1, <2>2 DEF ObsType, SameNews, Notes
    <2>4. QED
      BY <1>2, <2>1, <2>3 DEF SameOpening, Explained
  <1>3. CASE s.own # None
    <2> DEFINE r == Reject(s, g)
    <2>1. s.own \in OwnType /\ s.own.gen \in Nat /\ s.own.gen < g
      BY <1>3 DEF Younger, ObsType, OwnType
    <2>2. r \in ObsType /\ SameNews(s, r) /\ SameOpening(s, r) /\ r.note = "opened"
          /\ r.foreign >= g /\ r.foreign \in {s.foreign, g} /\ r.foreign >= s.foreign
          /\ r.own # None /\ r.own.provisional = None /\ r.own.info = s.own.info
          /\ r.own.gen = s.own.gen
      BY <1>1, <1>3, Rejected DEF SameOpening
    <2>3. Explained(r)
      BY <2>1, <2>2, <1>1 DEF Explained, ObsType
    <2>4. CASE t = r
      <3> HIDE DEF r
      <3>1. QED
        BY <2>2, <2>3, <2>4, <1>3
    <2>5. CASE ~s.own.acked /\ t # r
      <3> DEFINE o == [s.own EXCEPT !.provisional = s.info]
      <3>1. t = [s EXCEPT !.own = o]
        BY <1>3, <2>5, <1>1, PermitConstants DEF ClassifyOpen, Younger, ObsType, OwnType, InfoType
      <3>2. o \in OwnType /\ o.tx = s.own.tx /\ o.gen = s.own.gen /\ o.acked = s.own.acked
            /\ o.info = s.own.info /\ o.provisional = s.info
        BY <2>1, <1>1 DEF OwnType
      <3> HIDE DEF o
      <3>3. o # None
        BY <3>2, PermitConstants
      <3>4. t \in ObsType /\ SameNews(s, t) /\ t.foreign = s.foreign /\ t.own = o /\ t.note = s.note
        BY <3>1, <3>2 DEF ObsType, SameNews
      <3>5. t.info = s.info
        BY <3>4 DEF SameNews
      <3>6. QED
        BY <1>1, <1>3, <2>5, <3>2, <3>3, <3>4, <3>5 DEF SameOpening, Explained
    <2>6. CASE s.own.acked /\ t # r
      <3> DEFINE o == [s.own EXCEPT !.info = g]
      <3>1. t = [s EXCEPT !.own = o] /\ s.info.end = s.own.tx /\ s.own.acked
        BY <1>3, <2>6 DEF ClassifyOpen, Valid
      <3>2. o \in OwnType /\ o.tx = s.own.tx /\ o.gen = s.own.gen /\ o.acked = s.own.acked
            /\ o.info = g /\ o.provisional = s.own.provisional
        BY <2>1, <1>1 DEF OwnType
      <3> HIDE DEF o
      <3>3. o # None
        BY <3>2, PermitConstants
      <3>4. t \in ObsType /\ SameNews(s, t) /\ t.foreign = s.foreign /\ t.own = o /\ t.note = s.note
        BY <3>1, <3>2 DEF ObsType, SameNews
      <3>5. t.info = s.info
        BY <3>4 DEF SameNews
      <3>6. t.own.provisional = None
        BY <1>3, <2>6, <3>2, <3>4 DEF Younger
      <3>7. SameOpening(s, t) /\ Explained(t)
        BY <1>3, <3>1, <3>2, <3>3, <3>4, <3>5 DEF SameOpening, Explained
      <3>8. t.foreign >= s.foreign
        BY <1>1, <3>4
      <3>9. QED
        BY <1>1, <1>3, <3>2, <3>4, <3>6, <3>7, <3>8
    <2>7. QED
      BY <2>4, <2>5, <2>6, <2>1 DEF OwnType
  <1>4. QED
    BY <1>2, <1>3

\* Nothing was heard later than now, and an info is from its own generation.
Ordered(s) ==
    /\ s.unsafe <= s.gen /\ s.foreign <= s.gen /\ s.proof <= s.gen
    /\ s.info # None => s.info.gen >= 1 /\ s.info.gen <= s.gen /\ s.seen

\* A proof of a closing stands on fresh closed news of an online bridge.
ProofStands(s) ==
    s.proof > 0 => /\ s.online = "online" /\ s.info # None
                   /\ ~s.info.open /\ ~s.info.retained /\ s.info.gen >= s.proof

\* While an opening is attributed the bridge has been heard without a break, nothing
\* is proved, and an open window is explained.
Attribution(s) ==
    s.own # None =>
        /\ s.own.gen <= s.gen /\ s.own.info <= s.gen
        /\ s.proof = 0 /\ s.online = "online" /\ s.info # None
        /\ s.own.provisional # None =>
              /\ ~s.own.acked
              /\ s.own.gen < s.own.provisional.gen /\ s.own.provisional.gen <= s.info.gen
        /\ s.info.open => Explained(s)

Observed(s) == s \in ObsType /\ Ordered(s) /\ ProofStands(s) /\ Attribution(s)

\* Before the judgement: an attributed opening is older than the news.
Unjudged(s) ==
    /\ s \in ObsType /\ Ordered(s) /\ ProofStands(s) /\ s.note = "clean"
    /\ s.info # None /\ s.info.open => s.proof = 0
    /\ s.own # None =>
        /\ s.own.gen < s.info.gen /\ s.own.info <= s.gen
        /\ s.proof = 0 /\ s.online = "online" /\ s.info # None
        /\ s.own.provisional # None =>
              /\ ~s.own.acked
              /\ s.own.gen < s.own.provisional.gen /\ s.own.provisional.gen < s.info.gen

\* _notify_classified_permit_state leaves an explained window or tells of an opening.
LEMMA Classified ==
    ASSUME NEW s, Unjudged(s), NEW late \in BOOLEAN
    PROVE  LET t == Classify(s, late)
           IN  /\ Observed(t) /\ SameNews(s, t) /\ SameOpening(s, t) /\ t.foreign >= s.foreign
               /\ \/ t.note = "clean"
                  \/ /\ t.note = "opened" /\ t.proof = 0
                     /\ s.own # None => t.foreign > s.own.gen
  <1> DEFINE t == Classify(s, late)
  <1>1. s \in ObsType /\ s.gen \in Nat /\ s.unsafe \in Nat /\ s.foreign \in Nat /\ s.proof \in Nat
        /\ Ordered(s) /\ ProofStands(s) /\ s.note = "clean"
    BY DEF Unjudged, ObsType
  <1>2. s.info # None => s.info \in InfoType /\ s.info.gen \in Nat /\ s.info.open \in BOOLEAN
    BY <1>1 DEF ObsType, InfoType
  <1>3. s.own # None => s.own \in OwnType /\ s.own.gen \in Nat /\ s.own.info \in Nat
                        /\ s.own.acked \in BOOLEAN
    BY <1>1 DEF ObsType, OwnType
  <1>4. s.own # None /\ s.own.provisional # None => s.own.provisional.gen \in Nat
    BY <1>3 DEF OwnType, InfoType
  <1>5. CASE s.online # "online" \/ s.info = None
    <2>1. t = [s EXCEPT !.note = "opened"]
      BY <1>1, <1>5 DEF Classify
    <2>2. s.own = None
      BY <1>5 DEF Unjudged
    <2>3. t \in ObsType /\ SameNews(s, t) /\ t.own = None /\ t.foreign = s.foreign /\ t.note = "opened"
      BY <1>1, <2>1, <2>2 DEF ObsType, SameNews, Notes
    <2>4. t.proof = 0
      BY <1>1, <1>5, <2>3 DEF ProofStands, SameNews
    <2>5. Ordered(t) /\ ProofStands(t)
      BY <1>1, <2>3 DEF Ordered, ProofStands, SameNews
    <2>6. QED
      BY <1>1, <2>2, <2>3, <2>4, <2>5 DEF Observed, Attribution, SameOpening
  <1>6. CASE s.online = "online" /\ s.info # None /\ s.info.open
    <2>1. t = ClassifyOpen(s, late)
      BY <1>6 DEF Classify
    <2>2. Younger(s)
      BY <1>3 DEF Younger, Unjudged, OwnType
    <2>3. /\ t \in ObsType /\ SameNews(s, t) /\ SameOpening(s, t)
          /\ t.foreign \in {s.foreign, s.info.gen} /\ t.foreign >= s.foreign
          /\ \/ t.note = "opened" /\ t.foreign >= s.info.gen
             \/ t.note = "clean"
          /\ s.own # None => /\ t.own.info \in {s.own.info, s.info.gen}
                             /\ t.own.provisional # None => ~t.own.acked /\ t.own.provisional = s.info
          /\ Explained(t)
      BY <1>1, <1>6, <2>1, <2>2, ClassifiedOpen
    <2> HIDE DEF t
    <2>4. t.proof = 0
      BY <1>6, <2>3 DEF SameNews, Unjudged
    <2>5. Ordered(t) /\ ProofStands(t)
      BY <1>1, <1>2, <1>6, <2>3, <2>4 DEF Ordered, ProofStands, SameNews
    <2>6. s.own # None => /\ t.own.gen <= t.gen /\ t.own.info <= t.gen
                          /\ t.own.provisional # None =>
                                t.own.gen < t.own.provisional.gen /\ t.own.provisional.gen <= t.info.gen
      BY <1>1, <1>2, <1>3, <1>6, <2>3 DEF SameNews, SameOpening, Unjudged, Ordered
    <2>7. Attribution(t)
      BY <2>3, <2>4, <2>6, <1>6 DEF Attribution, SameNews, SameOpening
    <2>8. s.own # None => (t.note = "opened" => t.foreign > s.own.gen)
      BY <1>1, <1>2, <1>3, <1>6, <2>3 DEF Unjudged, ObsType
    <2>9. QED
      BY <2>3, <2>4, <2>5, <2>7, <2>8 DEF Observed, t
  <1>7. CASE s.online = "online" /\ s.info # None /\ ~s.info.open
    <2> DEFINE g == s.info.gen
               r == Reject(s, g)
    <2>1. t = r \/ (t = s /\ (s.own # None => s.own.provisional = None))
      BY <1>7 DEF Classify, Unjudged
    <2>2. CASE t = s
      <3>1. SameNews(s, s) /\ SameOpening(s, s)
        BY DEF SameNews, SameOpening
      <3>2. Attribution(s)
        BY <1>1, <1>2, <1>3, <1>4, <1>7 DEF Attribution, Unjudged, Ordered
      <3>3. QED
        BY <1>1, <2>2, <3>1, <3>2 DEF Observed
    <2>3. CASE t = r /\ t # s
      <3>1. s.own # None
        BY <1>7, <2>3 DEF Classify
      <3>2. t \in ObsType /\ SameNews(s, t) /\ SameOpening(s, t) /\ t.note = "opened"
            /\ t.foreign \in {s.foreign, g} /\ t.foreign >= s.foreign /\ t.foreign >= g
            /\ t.own.acked = s.own.acked /\ t.own.info = s.own.info /\ t.own.provisional = None
        <4>1. g \in Nat
          BY <1>2, <1>7
        <4>2. /\ r \in ObsType /\ SameNews(s, r) /\ SameOpening(s, r) /\ r.note = "opened"
              /\ r.foreign \in {s.foreign, g} /\ r.foreign >= s.foreign /\ r.foreign >= g
              /\ r.own.acked = s.own.acked /\ r.own.info = s.own.info /\ r.own.provisional = None
          BY <1>1, <4>1, <3>1, Rejected
        <4> HIDE DEF t, r
        <4>3. QED
          BY <4>2, <2>3
      <3> HIDE DEF t, r
      <3>3. t.proof = 0
        BY <3>1, <3>2 DEF SameNews, Unjudged
      <3>4. Ordered(t) /\ ProofStands(t)
        BY <1>1, <1>2, <1>7, <3>2, <3>3 DEF Ordered, ProofStands, SameNews
      <3>5. Attribution(t)
        BY <1>1, <1>2, <1>3, <1>7, <3>1, <3>2, <3>3 DEF Attribution, SameNews, SameOpening, Unjudged, Ordered
      <3>6. t.foreign > s.own.gen
        BY <1>1, <1>2, <1>3, <1>7, <3>1, <3>2 DEF Unjudged, ObsType
      <3>7. QED
        BY <3>2, <3>3, <3>4, <3>5, <3>6 DEF Observed, t
    <2>4. QED
      BY <2>1, <2>2, <2>3
  <1>8. QED
    BY <1>2, <1>5, <1>6, <1>7

-----------------------------------------------------------------------------
(* The callbacks, from an observation c to the observation t. *)

\* What a callback may make of the observation, and what it must tell the listener.
Hears(t) ==
    /\ Observed(t)
    /\ t.gen >= c.gen /\ t.unsafe >= c.unsafe /\ t.foreign >= c.foreign
    /\ t.note = "clean"  => t.proof = c.proof /\ t.aged \in {c.aged, FALSE}
    /\ t.note = "opened" => t.proof = 0 /\ (c.own # None => t.foreign > c.own.gen)
    /\ t.note = "unsafe" => t.proof = 0 /\ t.unsafe > c.gen
    /\ SameOpening(c, t) \/ (t.own = None /\ t.unsafe > c.gen)

\* _next_generation changes nothing else.
LEMMA HeardKeeps ==
    ASSUME c \in ObsType
    PROVE  LET h == Heard(c)
           IN  /\ h \in ObsType /\ h.gen = c.gen + 1 /\ h.unsafe = c.unsafe /\ h.foreign = c.foreign
               /\ h.proof = c.proof /\ h.online = c.online /\ h.info = c.info /\ h.seen = c.seen
               /\ h.own = c.own /\ h.aged = c.aged /\ h.note = c.note
  BY DEF Heard, ObsType

\* What was judged unsafe or left as it was heard.
LEMMA UnsafeIsHeard ==
    ASSUME Observed(c), NEW s \in ObsType, Ordered(s), s.gen = c.gen + 1,
           s.unsafe = c.unsafe, s.foreign = c.foreign
    PROVE  Hears(MarkUnsafe(s)) /\ MarkUnsafe(s).info = s.info
  <1> DEFINE t == MarkUnsafe(s)
  <1>1. /\ t \in ObsType
        /\ t.gen = s.gen /\ t.foreign = s.foreign /\ t.online = s.online
        /\ t.info = s.info /\ t.seen = s.seen /\ t.aged = s.aged
        /\ t.unsafe = s.gen /\ t.proof = 0 /\ t.own = None /\ t.note = "unsafe"
    BY MarkedUnsafe
  <1>2. c \in ObsType /\ Ordered(c) /\ c.gen \in Nat /\ c.unsafe \in Nat /\ c.foreign \in Nat
    BY DEF Observed, ObsType
  <1> HIDE DEF t
  <1>3. Ordered(t) /\ ProofStands(t) /\ Attribution(t)
    BY <1>1, <1>2 DEF Ordered, ProofStands, Attribution, ObsType
  <1>4. Hears(t)
    BY <1>1, <1>2, <1>3 DEF Hears, Observed, Ordered
  <1>5. QED
    BY <1>1, <1>4 DEF t

\* What was judged by its news.
LEMMA ClassifiedIsHeard ==
    ASSUME Observed(c), NEW s, Unjudged(s), NEW late \in BOOLEAN, s.gen = c.gen + 1,
           s.unsafe = c.unsafe, s.foreign = c.foreign, s.own = c.own,
           s.aged \in {c.aged, FALSE},
           s.proof = c.proof \/ (s.proof = 0 /\ s.online = "online" /\ s.info # None /\ s.info.open)
    PROVE  Hears(Classify(s, late)) /\ Classify(s, late).info = s.info
  <1> DEFINE t == Classify(s, late)
  <1>1. /\ Observed(t) /\ SameNews(s, t) /\ SameOpening(s, t) /\ t.foreign >= s.foreign
        /\ \/ t.note = "clean"
           \/ /\ t.note = "opened" /\ t.proof = 0
              /\ s.own # None => t.foreign > s.own.gen
    BY Classified
  <1>2. c \in ObsType /\ c.gen \in Nat /\ c.unsafe \in Nat /\ c.foreign \in Nat /\ c.proof \in Nat
    BY DEF Observed, ObsType
  <1>3. t.note = "clean" => t.proof = c.proof
    <2>1. SUFFICES ASSUME t.note = "clean", s.proof # c.proof, s.proof = 0,
                          s.online = "online", s.info # None, s.info.open
                   PROVE  FALSE
      BY <1>1 DEF SameNews
    <2>2. s.own = None
      BY <1>2, <2>1 DEF Observed, Attribution
    <2>3. t = [s EXCEPT !.foreign = Later(@, s.info.gen), !.note = "opened"]
      BY <2>1, <2>2 DEF Classify, ClassifyOpen
    <2>4. s \in ObsType
      BY DEF Unjudged
    <2>5. t.note = "opened"
      BY <2>3, <2>4 DEF ObsType
    <2>6. QED
      BY <2>1, <2>5
  <1> HIDE DEF t
  <1>4. SameOpening(c, t)
    BY <1>1 DEF SameOpening
  <1>5. Hears(t)
    <2>1. t.aged \in {c.aged, FALSE}
      BY <1>1, Zenon DEF SameNews
    <2>2. t.gen >= c.gen /\ t.unsafe >= c.unsafe /\ t.foreign >= c.foreign
      BY <1>1, <1>2 DEF SameNews, Observed, ObsType
    <2>3. t.note = "opened" => t.proof = 0 /\ (c.own # None => t.foreign > c.own.gen)
      BY <1>1
    <2>4. t.note # "unsafe"
      BY <1>1
    <2>5. QED
      BY <1>1, <1>3, <1>4, <2>1, <2>2, <2>3, <2>4, Zenon DEF Hears
  <1>6. t.info = s.info
    BY <1>1 DEF SameNews
  <1>7. QED
    BY <1>5, <1>6 DEF t

\* bridge_state_received.
LEMMA StateHeard ==
    ASSUME Observed(c), c.note = "clean", NEW m, m.online \in BOOLEAN
    PROVE  Hears(StateReceived(m)) /\ StateReceived(m).info = c.info
  <1> DEFINE on == IF m.online THEN "online" ELSE "offline"
             s  == [Heard(c) EXCEPT !.online = on, !.invalid = FALSE]
  <1>1. c \in ObsType /\ c.gen \in Nat /\ c.unsafe \in Nat /\ c.foreign \in Nat /\ c.proof \in Nat
        /\ Ordered(c) /\ ProofStands(c) /\ Attribution(c)
    BY DEF Observed, ObsType
  <1>2. c.info # None => c.info \in InfoType /\ c.info.gen \in Nat
    BY <1>1 DEF ObsType, InfoType
  <1>3. on \in {"unknown", "online", "offline"}
    OBVIOUS
  <1>4. StateReceived(m) = IF m.online /\ c.online # "online" THEN Classify(s, FALSE) ELSE MarkUnsafe(s)
    BY DEF StateReceived
  <1>5. m.online => on = "online"
    OBVIOUS
  <1> HIDE DEF on
  <1>6. /\ s \in ObsType /\ s.gen = c.gen + 1 /\ s.unsafe = c.unsafe /\ s.foreign = c.foreign
        /\ s.proof = c.proof /\ s.online = on /\ s.info = c.info /\ s.seen = c.seen
        /\ s.own = c.own /\ s.aged = c.aged /\ s.note = c.note
    <2> DEFINE h == Heard(c)
    <2>1. /\ h \in ObsType /\ h.gen = c.gen + 1 /\ h.unsafe = c.unsafe /\ h.foreign = c.foreign
          /\ h.proof = c.proof /\ h.online = c.online /\ h.info = c.info /\ h.seen = c.seen
          /\ h.own = c.own /\ h.aged = c.aged /\ h.note = c.note
      BY <1>1, HeardKeeps
    <2>2. s = [h EXCEPT !.online = on, !.invalid = FALSE]
      OBVIOUS
    <2> HIDE DEF h, s
    <2>3. /\ s \in ObsType /\ s.gen = h.gen /\ s.unsafe = h.unsafe /\ s.foreign = h.foreign
          /\ s.proof = h.proof /\ s.online = on /\ s.info = h.info /\ s.seen = h.seen
          /\ s.own = h.own /\ s.aged = h.aged /\ s.note = h.note
      BY <1>3, <2>1, <2>2 DEF ObsType
    <2>4. QED
      BY <2>1, <2>3
  <1> HIDE DEF s
  <1>7. Ordered(s)
    BY <1>1, <1>2, <1>6 DEF Ordered
  <1>8. CASE m.online /\ c.online # "online"
    <2>1. c.proof = 0 /\ c.own = None
      BY <1>1, <1>8 DEF ProofStands, Attribution
    <2>2. Unjudged(s)
      BY <1>1, <1>6, <1>7, <2>1 DEF Unjudged, ProofStands
    <2>3. QED
      BY <1>4, <1>6, <1>8, <2>2, ClassifiedIsHeard
  <1>9. CASE ~(m.online /\ c.online # "online")
    BY <1>4, <1>6, <1>7, <1>9, UnsafeIsHeard
  <1>10. QED
    BY <1>8, <1>9

\* bridge_info_received.
LEMMA InfoHeard ==
    ASSUME Observed(c), c.note = "clean", NEW late \in BOOLEAN, NEW m,
           m.open \in BOOLEAN, m.end \in Tx \cup {None, Other}, m.retained \in BOOLEAN
    PROVE  /\ Hears(InfoReceived(m, late))
           /\ InfoReceived(m, late).info # None
           /\ InfoReceived(m, late).info.open = m.open /\ InfoReceived(m, late).info.end = m.end
  <1> DEFINE info == [open |-> m.open, end |-> m.end, retained |-> m.retained, gen |-> c.gen + 1]
             p    == IF m.open THEN 0 ELSE c.proof
             s    == [Heard(c) EXCEPT !.info = info, !.seen = TRUE, !.aged = FALSE, !.proof = p]
  <1>1. c \in ObsType /\ c.gen \in Nat /\ c.unsafe \in Nat /\ c.foreign \in Nat /\ c.proof \in Nat
        /\ Ordered(c) /\ ProofStands(c) /\ Attribution(c)
    BY DEF Observed, ObsType
  <1>2. c.own # None => c.own \in OwnType /\ c.own.gen \in Nat /\ c.own.info \in Nat
    BY <1>1 DEF ObsType, OwnType
  <1>3. c.own # None /\ c.own.provisional # None => c.own.provisional.gen \in Nat
    BY <1>2 DEF OwnType, InfoType
  <1>4. c.info # None => c.info \in InfoType /\ c.info.gen \in Nat
    BY <1>1 DEF ObsType, InfoType
  <1>5. /\ info \in InfoType /\ info.open = m.open /\ info.end = m.end /\ info.retained = m.retained
        /\ info.gen = c.gen + 1
    BY <1>1 DEF InfoType
  <1>6. info # None
    BY <1>5, PermitConstants
  <1>7. p \in Nat /\ (m.open => p = 0) /\ (~m.open => p = c.proof)
    BY <1>1
  <1> DEFINE h == Heard(c)
  <1>8. /\ h \in ObsType /\ h.gen = c.gen + 1 /\ h.unsafe = c.unsafe /\ h.foreign = c.foreign
        /\ h.proof = c.proof /\ h.online = c.online /\ h.info = c.info /\ h.seen = c.seen
        /\ h.own = c.own /\ h.aged = c.aged /\ h.note = c.note
    BY <1>1, HeardKeeps
  <1>9. InfoReceived(m, late) =
            IF m.retained /\ (c.seen \/ ClosingInFlight) THEN MarkUnsafe(s) ELSE Classify(s, late)
    <2>1. s = [Heard(c) EXCEPT !.info = info, !.seen = TRUE, !.aged = FALSE,
                               !.proof = IF m.open THEN 0 ELSE @]
      BY <1>1 DEF Heard, ObsType
    <2>2. QED
      BY <2>1 DEF InfoReceived
  <1> HIDE DEF info, p
  <1>10. /\ s \in ObsType /\ s.gen = c.gen + 1 /\ s.unsafe = c.unsafe /\ s.foreign = c.foreign
         /\ s.proof = p /\ s.online = c.online /\ s.info = info /\ s.seen
         /\ s.own = c.own /\ s.aged = FALSE /\ s.note = c.note
    <2>1. s = [h EXCEPT !.info = info, !.seen = TRUE, !.aged = FALSE, !.proof = p]
      OBVIOUS
    <2> HIDE DEF h, s
    <2>2. /\ s \in ObsType /\ s.gen = h.gen /\ s.unsafe = h.unsafe /\ s.foreign = h.foreign
          /\ s.proof = p /\ s.online = h.online /\ s.info = info /\ s.seen = TRUE
          /\ s.own = h.own /\ s.aged = FALSE /\ s.note = h.note
      BY <1>5, <1>7, <1>8, <2>1 DEF ObsType
    <2>3. QED
      BY <1>8, <2>2
  <1> HIDE DEF h, s
  <1>11. Ordered(s)
    BY <1>1, <1>5, <1>7, <1>10 DEF Ordered
  <1>12. CASE m.retained /\ (c.seen \/ ClosingInFlight)
    <2>1. InfoReceived(m, late) = MarkUnsafe(s)
      BY <1>9, <1>12
    <2>2. QED
      BY <1>5, <1>6, <1>10, <1>11, <2>1, UnsafeIsHeard
  <1>13. CASE ~(m.retained /\ (c.seen \/ ClosingInFlight))
    <2>1. InfoReceived(m, late) = Classify(s, late)
      BY <1>9, <1>13
    <2>2. p > 0 => ~m.retained
      BY <1>1, <1>7, <1>13 DEF ProofStands, Ordered
    <2>3. ProofStands(s)
      BY <1>1, <1>5, <1>6, <1>7, <1>10, <2>2 DEF ProofStands, Ordered
    <2>4. c.own # None /\ c.own.provisional # None => c.own.provisional.gen < c.gen + 1
      BY <1>1, <1>2, <1>3, <1>4 DEF Attribution, Ordered
    <2>5. c.own # None => c.own.gen < c.gen + 1 /\ c.own.info <= c.gen + 1
      BY <1>1, <1>2 DEF Attribution
    <2>6. c.own # None => p = 0 /\ c.online = "online"
      BY <1>1, <1>7 DEF Attribution
    <2>7. Unjudged(s)
      BY <1>1, <1>5, <1>6, <1>7, <1>10, <1>11, <2>3, <2>4, <2>5, <2>6 DEF Unjudged, Attribution
    <2>8. p = c.proof \/ (p = 0 /\ c.online = "online" /\ m.open)
      BY <1>1, <1>7 DEF ProofStands
    <2>9. QED
      BY <1>5, <1>6, <1>10, <2>1, <2>7, <2>8, ClassifiedIsHeard
  <1>14. QED
    BY <1>12, <1>13

\* A malformed state or info.
LEMMA BadHeard ==
    ASSUME Observed(c), NEW m
    PROVE  Hears(BadReceived(m)) /\ BadReceived(m).info \in {c.info, None}
  <1> DEFINE s == IF m.of = "state"
                  THEN [Heard(c) EXCEPT !.online = "unknown", !.invalid = TRUE]
                  ELSE [Heard(c) EXCEPT !.info = None, !.seen = TRUE]
  <1>1. c \in ObsType /\ c.gen \in Nat /\ c.unsafe \in Nat /\ c.foreign \in Nat /\ c.proof \in Nat
        /\ Ordered(c)
    BY DEF Observed, ObsType
  <1>2. c.info # None => c.info \in InfoType /\ c.info.gen \in Nat
    BY <1>1 DEF ObsType, InfoType
  <1>3. /\ s \in ObsType /\ s.gen = c.gen + 1 /\ s.unsafe = c.unsafe /\ s.foreign = c.foreign
        /\ s.proof = c.proof /\ s.info \in {c.info, None} /\ (s.info # None => s.seen = c.seen)
    <2> DEFINE h == Heard(c)
    <2>1. /\ h \in ObsType /\ h.gen = c.gen + 1 /\ h.unsafe = c.unsafe /\ h.foreign = c.foreign
          /\ h.proof = c.proof /\ h.info = c.info /\ h.seen = c.seen
      BY <1>1, HeardKeeps
    <2>2. CASE m.of = "state"
      <3>1. s = [h EXCEPT !.online = "unknown", !.invalid = TRUE]
        BY <2>2
      <3> HIDE DEF h, s
      <3>2. s \in ObsType /\ s.gen = h.gen /\ s.unsafe = h.unsafe /\ s.foreign = h.foreign
            /\ s.proof = h.proof /\ s.info = h.info /\ s.seen = h.seen
        BY <2>1, <3>1 DEF ObsType
      <3>3. QED
        BY <2>1, <3>2
    <2>3. CASE m.of # "state"
      <3>1. s = [h EXCEPT !.info = None, !.seen = TRUE]
        BY <2>3
      <3> HIDE DEF h, s
      <3>2. s \in ObsType /\ s.gen = h.gen /\ s.unsafe = h.unsafe /\ s.foreign = h.foreign
            /\ s.proof = h.proof /\ s.info = None
        BY <2>1, <3>1 DEF ObsType
      <3>3. QED
        BY <2>1, <3>2
    <2>4. QED
      BY <2>2, <2>3
  <1>4. BadReceived(m) = MarkUnsafe(s)
    BY DEF BadReceived
  <1> HIDE DEF s
  <1>5. Ordered(s)
    BY <1>1, <1>2, <1>3 DEF Ordered
  <1>6. QED
    BY <1>3, <1>4, <1>5, UnsafeIsHeard

\* _reject_provisional_open.
LEMMA ProvisionalRejected ==
    ASSUME Observed(c), c.note = "clean"
    PROVE  Hears(RejectProvisional) /\ RejectProvisional.info = c.info
  <1>1. c \in ObsType /\ c.gen \in Nat /\ c.unsafe \in Nat /\ c.foreign \in Nat /\ c.proof \in Nat
        /\ Ordered(c) /\ ProofStands(c) /\ Attribution(c)
    BY DEF Observed, ObsType
  <1>2. CASE ~ProvisionalOpen
    <2>1. RejectProvisional = c
      BY <1>2 DEF RejectProvisional
    <2>2. SameOpening(c, c)
      BY DEF SameOpening
    <2>3. QED
      BY <1>1, <2>1, <2>2 DEF Hears
  <1>3. CASE ProvisionalOpen
    <2> DEFINE g == c.own.provisional.gen
               t == Reject(c, g)
    <2>1. RejectProvisional = t
      BY <1>3 DEF RejectProvisional
    <2>2. c.own # None /\ c.own \in OwnType /\ c.own.gen \in Nat /\ c.own.info \in Nat /\ g \in Nat
          /\ c.info # None /\ c.info \in InfoType /\ c.info.gen \in Nat
      BY <1>1, <1>3 DEF ProvisionalOpen, ObsType, OwnType, InfoType, Attribution
    <2>3. c.own.gen < g /\ g <= c.info.gen /\ c.info.gen <= c.gen
          /\ c.proof = 0 /\ c.online = "online" /\ c.own.gen <= c.gen /\ c.own.info <= c.gen
      BY <1>1, <1>3, <2>2 DEF ProvisionalOpen, Attribution, Ordered
    <2>4. /\ t \in ObsType /\ SameNews(c, t) /\ SameOpening(c, t)
          /\ t.foreign >= g /\ t.foreign \in {c.foreign, g} /\ t.foreign >= c.foreign
          /\ t.note = "opened"
          /\ t.own.acked = c.own.acked /\ t.own.info = c.own.info /\ t.own.provisional = None
      BY <1>1, <2>2, Rejected
    <2> HIDE DEF t, g
    <2>5. Ordered(t) /\ ProofStands(t)
      BY <1>1, <2>2, <2>3, <2>4 DEF Ordered, ProofStands, SameNews
    <2>6. t.foreign > c.own.gen
      BY <1>1, <2>2, <2>3, <2>4
    <2>7. Attribution(t)
      BY <2>2, <2>3, <2>4, <2>6 DEF Attribution, SameNews, SameOpening, Explained
    <2>8. t.gen >= c.gen /\ t.unsafe >= c.unsafe /\ t.proof = 0 /\ t.info = c.info
      BY <1>1, <2>3, <2>4 DEF SameNews
    <2>9. QED
      BY <2>1, <2>4, <2>5, <2>6, <2>7, <2>8 DEF Hears, Observed
  <1>4. QED
    BY <1>2, <1>3

\* _commit_provisional_open after the acknowledgement of the opening: the candidate is ours
\* by its end, or it is refused.
LEMMA ProvisionalCommitted ==
    ASSUME Observed(c), c.note = "clean", c.own # None
    PROVE  LET t == CommitProvisional([c EXCEPT !.own.acked = TRUE])
           IN  Hears(t) /\ t.info = c.info
  <1> DEFINE a == [c.own EXCEPT !.acked = TRUE]
             s == [c EXCEPT !.own = a]
             t == CommitProvisional(s)
             p == a.provisional
  <1>1. c \in ObsType /\ c.gen \in Nat /\ c.unsafe \in Nat /\ c.foreign \in Nat /\ c.proof = 0
        /\ Ordered(c) /\ ProofStands(c) /\ Attribution(c) /\ c.online = "online" /\ c.info # None
    BY DEF Observed, ObsType, Attribution
  <1>2. c.own \in OwnType /\ c.own.gen \in Nat /\ c.own.info \in Nat
        /\ c.info \in InfoType /\ c.info.gen \in Nat /\ c.info.gen <= c.gen
        /\ c.own.gen <= c.gen /\ c.own.info <= c.gen
    BY <1>1 DEF ObsType, OwnType, InfoType, Attribution, Ordered
  <1>3. [c EXCEPT !.own.acked = TRUE] = s
    OBVIOUS
  <1>4. a \in OwnType /\ a.tx = c.own.tx /\ a.gen = c.own.gen /\ a.acked /\ a.info = c.own.info
        /\ p = c.own.provisional
    BY <1>2 DEF OwnType
  <1>5. a # None
    BY <1>4, PermitConstants
  <1> HIDE DEF a
  <1>6. s \in ObsType /\ SameNews(c, s) /\ s.foreign = c.foreign /\ s.note = "clean" /\ s.own = a
    BY <1>1, <1>4 DEF ObsType, SameNews
  <1>7. SameOpening(c, s)
    BY <1>4, <1>5, <1>6 DEF SameOpening
  <1>8. p # None => /\ p \in InfoType /\ p.gen \in Nat /\ c.own.gen < p.gen /\ p.gen <= c.info.gen
                    /\ ~c.own.acked
    BY <1>1, <1>2, <1>4 DEF Attribution, OwnType, InfoType
  <1>9. Hears(t) /\ t.info = c.info
    <2>1. CASE p = None
      <3>1. t = s
        BY <1>6, <2>1 DEF CommitProvisional
      <3> HIDE DEF s, t, p
      <3>2. c.info.open => Explained(s)
        BY <1>1, <1>2, <1>4, <1>6, <2>1 DEF Attribution, Explained, SameNews
      <3>3. Ordered(s) /\ ProofStands(s)
        BY <1>1, <1>6 DEF Ordered, ProofStands, SameNews
      <3>4. Attribution(s)
        BY <1>1, <1>2, <1>4, <1>6, <2>1, <3>2 DEF Attribution, SameNews, p
      <3>5. s.gen >= c.gen /\ s.unsafe >= c.unsafe /\ s.foreign >= c.foreign
            /\ s.proof = c.proof /\ s.aged = c.aged /\ s.info = c.info
        BY <1>1, <1>6 DEF SameNews
      <3>6. QED
        BY <1>6, <1>7, <3>1, <3>3, <3>4, <3>5 DEF Hears, Observed
    <2>2. CASE p # None /\ p.end = a.tx
      <3> DEFINE o == [a EXCEPT !.provisional = None, !.info = p.gen]
      <3>1. t = [s EXCEPT !.own = o]
        BY <1>4, <1>6, <2>2 DEF CommitProvisional, ObsType, OwnType
      <3>2. /\ o \in OwnType /\ o.tx = a.tx /\ o.gen = a.gen /\ o.acked /\ o.info = p.gen
            /\ o.provisional = None
        BY <1>4, <1>8, <2>2 DEF OwnType
      <3>3. o # None
        BY <3>2, PermitConstants
      <3> HIDE DEF o, s
      <3>4. t \in ObsType /\ SameNews(s, t) /\ t.foreign = s.foreign /\ t.note = s.note /\ t.own = o
        BY <1>6, <3>1, <3>2 DEF ObsType, SameNews
      <3> HIDE DEF t
      <3>5. SameOpening(c, t)
        BY <1>4, <3>2, <3>3, <3>4 DEF SameOpening
      <3>6. SameNews(c, t) /\ t.foreign = c.foreign /\ t.note = "clean"
        BY <1>6, <3>4 DEF SameNews
      <3>7. c.info.open => Explained(t)
        BY <1>1, <1>2, <1>4, <2>2, <3>2, <3>4, <3>6 DEF Attribution, Explained, SameNews
      <3>8. Ordered(t) /\ ProofStands(t)
        BY <1>1, <3>6 DEF Ordered, ProofStands, SameNews
      <3>9. Attribution(t)
        BY <1>1, <1>2, <1>4, <1>8, <2>2, <3>2, <3>4, <3>6, <3>7 DEF Attribution, SameNews
      <3>10. t.gen >= c.gen /\ t.unsafe >= c.unsafe /\ t.foreign >= c.foreign
            /\ t.proof = c.proof /\ t.aged = c.aged /\ t.info = c.info
        BY <1>1, <3>6 DEF SameNews
      <3>11. QED
        BY <3>4, <3>5, <3>6, <3>8, <3>9, <3>10 DEF Hears, Observed
    <2>3. CASE p # None /\ p.end # a.tx
      <3>1. t = Reject(s, p.gen)
        BY <1>6, <2>3 DEF CommitProvisional
      <3>2. /\ t \in ObsType /\ SameNews(s, t) /\ SameOpening(s, t)
            /\ t.foreign >= p.gen /\ t.foreign \in {s.foreign, p.gen} /\ t.foreign >= s.foreign
            /\ t.note = "opened"
            /\ t.own.acked = a.acked /\ t.own.info = a.info /\ t.own.provisional = None
        <4> DEFINE g == p.gen
                   r == Reject(s, g)
        <4>1. g \in Nat /\ s \in ObsType /\ s.own # None
          BY <1>5, <1>6, <1>8, <2>3
        <4> HIDE DEF g, s
        <4>2. /\ r \in ObsType /\ SameNews(s, r) /\ SameOpening(s, r)
              /\ r.foreign >= g /\ r.foreign \in {s.foreign, g} /\ r.foreign >= s.foreign
              /\ r.note = "opened"
              /\ r.own.acked = s.own.acked /\ r.own.info = s.own.info /\ r.own.provisional = None
          BY <4>1, Rejected
        <4>3. t = r
          BY <3>1 DEF g
        <4> HIDE DEF r, t
        <4>4. QED
          BY <1>6, <4>2, <4>3 DEF g
      <3> HIDE DEF s, t, p
      <3>3. SameOpening(c, t) /\ SameNews(c, t)
        BY <1>6, <1>7, <3>2 DEF SameNews, SameOpening
      <3>4. t.foreign > c.own.gen
        BY <1>1, <1>2, <1>6, <1>8, <2>3, <3>2
      <3>5. t.foreign <= c.gen
        BY <1>1, <1>2, <1>6, <1>8, <2>3, <3>2 DEF Ordered
      <3>6. Ordered(t) /\ ProofStands(t)
        BY <1>1, <3>3, <3>5 DEF Ordered, ProofStands, SameNews
      <3>7. Attribution(t)
        BY <1>1, <1>2, <1>4, <3>2, <3>3, <3>4 DEF Attribution, Explained, SameNews, SameOpening
      <3>8. t.gen >= c.gen /\ t.unsafe >= c.unsafe /\ t.foreign >= c.foreign
            /\ t.proof = 0 /\ t.info = c.info
        BY <1>1, <1>6, <3>2, <3>3 DEF SameNews
      <3>9. QED
        BY <3>2, <3>3, <3>4, <3>6, <3>7, <3>8 DEF Hears, Observed
    <2>4. QED
      BY <2>1, <2>2, <2>3
  <1>10. QED
    BY <1>3, <1>9

\* join_response_received.
LEMMA ResponseHeard ==
    ASSUME Observed(c), c.note = "clean", NEW m
    PROVE  Hears(ResponseReceived(m)) /\ ResponseReceived(m).info = c.info
  <1> DEFINE k == CommitProvisional([c EXCEPT !.own.acked = TRUE])
             t == ResponseReceived(m)
  <1>1. t \in {c, RejectProvisional} \/ (t = k /\ c.own # None)
    <2>1. CASE ~Answers(m)
      BY <2>1 DEF ResponseReceived
    <2>2. CASE Answers(m) /\ req.stage # "ack"
      BY <2>2 DEF ResponseReceived
    <2>3. CASE Answers(m) /\ req.stage = "ack"
      BY <2>3 DEF ResponseReceived, OwnershipKept
    <2>4. QED
      BY <2>1, <2>2, <2>3
  <1>2. Hears(c)
    BY DEF Hears, Observed, SameOpening, ObsType
  <1>3. Hears(RejectProvisional) /\ RejectProvisional.info = c.info
    BY ProvisionalRejected
  <1>4. c.own # None => Hears(k) /\ k.info = c.info
    BY ProvisionalCommitted
  <1> HIDE DEF t, k
  <1>5. Hears(t) /\ t.info = c.info
    BY <1>1, <1>2, <1>3, <1>4
  <1>6. QED
    BY <1>5 DEF t

-----------------------------------------------------------------------------
(* The messages on their way. *)

MsgType == [type : {"info"}, open : BOOLEAN, end : Tx \cup {None, Other}, retained : BOOLEAN]
           \cup [type : {"state"}, online : BOOLEAN]
           \cup [type : {"ack"}, tx : Tx \cup {Other}, ok : BOOLEAN]
           \cup [type : {"bad"}, of : {"state", "info"}]

\* The last news of joining on the way are of the open window j, or there are none.
Opening(m, j)  == m.type = "info" /\ m.open /\ m.end = j
LastInfo(q, j) == \E i \in 1 .. Len(q) :
                     Opening(q[i], j) /\ \A k \in i + 1 .. Len(q) : q[k].type # "info"
NoInfo(q)      == \A k \in 1 .. Len(q) : q[k].type # "info"

\* A confirming response is to a request the bridge has executed, or to somebody else's.
AcksTrue(q, S) == \A i \in 1 .. Len(q) : q[i].type = "ack" /\ q[i].ok => q[i].tx \in S \cup {Other}

\* Publishing appends.
LEMMA Appended ==
    ASSUME NEW q \in Seq(MsgType), NEW ms \in Seq(MsgType)
    PROVE  /\ q \o ms \in Seq(MsgType) /\ Len(q \o ms) = Len(q) + Len(ms)
           /\ \A i \in 1 .. Len(q) : (q \o ms)[i] = q[i]
           /\ \A k \in 1 .. Len(ms) : (q \o ms)[Len(q) + k] = ms[k]
  OBVIOUS

\* Whatever is published last decides what the last news are.
LEMMA AppendedNews ==
    ASSUME NEW q \in Seq(MsgType), NEW ms \in Seq(MsgType), NEW j
    PROVE  /\ LastInfo(ms, j) => LastInfo(q \o ms, j)
           /\ NoInfo(ms) /\ LastInfo(q, j) => LastInfo(q \o ms, j)
           /\ NoInfo(ms) /\ NoInfo(q) => NoInfo(q \o ms)
  <1> DEFINE r == q \o ms
             a == Len(q)
  <1>1. /\ Len(r) = a + Len(ms) /\ a \in Nat /\ Len(ms) \in Nat
        /\ \A i \in 1 .. a : r[i] = q[i]
        /\ \A k \in 1 .. Len(ms) : r[a + k] = ms[k]
    BY Appended
  <1> HIDE DEF r, a
  <1>2. \A k \in 1 .. Len(r) : k > a => k - a \in 1 .. Len(ms) /\ r[k] = ms[k - a]
    <2> SUFFICES ASSUME NEW k \in 1 .. Len(r), k > a
                 PROVE  k - a \in 1 .. Len(ms) /\ r[k] = ms[k - a]
      OBVIOUS
    <2>1. k - a \in 1 .. Len(ms) /\ a + (k - a) = k
      BY <1>1
    <2>2. QED
      BY <1>1, <2>1
  <1>3. ASSUME LastInfo(ms, j) PROVE LastInfo(r, j)
    <2>1. PICK i \in 1 .. Len(ms) :
              Opening(ms[i], j) /\ \A k \in i + 1 .. Len(ms) : ms[k].type # "info"
      BY <1>3 DEF LastInfo
    <2>2. a + i \in 1 .. Len(r) /\ r[a + i] = ms[i]
      BY <1>1, <2>1
    <2>3. \A k \in a + i + 1 .. Len(r) : r[k].type # "info"
      <3> SUFFICES ASSUME NEW k \in a + i + 1 .. Len(r) PROVE r[k].type # "info"
        OBVIOUS
      <3>1. k \in 1 .. Len(r) /\ k > a /\ k - a \in i + 1 .. Len(ms)
        BY <1>1, <2>1
      <3>2. QED
        BY <1>2, <2>1, <3>1
    <2>4. QED
      BY <2>1, <2>2, <2>3 DEF LastInfo
  <1>4. ASSUME NoInfo(ms), LastInfo(q, j) PROVE LastInfo(r, j)
    <2>1. PICK i \in 1 .. a :
              Opening(q[i], j) /\ \A k \in i + 1 .. a : q[k].type # "info"
      BY <1>4 DEF LastInfo, a
    <2>2. i \in 1 .. Len(r) /\ r[i] = q[i]
      BY <1>1, <2>1
    <2>3. \A k \in i + 1 .. Len(r) : r[k].type # "info"
      <3> SUFFICES ASSUME NEW k \in i + 1 .. Len(r) PROVE r[k].type # "info"
        OBVIOUS
      <3>1. k \in 1 .. Len(r) /\ (k <= a => k \in i + 1 .. a /\ k \in 1 .. a)
        BY <1>1, <2>1
      <3>2. QED
        BY <1>1, <1>2, <1>4, <2>1, <3>1 DEF NoInfo
    <2>4. QED
      BY <2>1, <2>2, <2>3 DEF LastInfo
  <1>5. ASSUME NoInfo(ms), NoInfo(q) PROVE NoInfo(r)
    <2> SUFFICES ASSUME NEW k \in 1 .. Len(r) PROVE r[k].type # "info"
      BY DEF NoInfo
    <2>1. k <= a => k \in 1 .. a
      BY <1>1
    <2>2. \A i \in 1 .. a : q[i].type # "info"
      BY <1>5 DEF NoInfo, a
    <2>3. CASE k <= a
      BY <1>1, <2>1, <2>2, <2>3
    <2>4. CASE k > a
      BY <1>2, <1>5, <2>4 DEF NoInfo
    <2>5. QED
      BY <1>1, <2>3, <2>4
  <1>6. QED
    BY <1>3, <1>4, <1>5 DEF r

\* Appended responses are true if both parts are.
LEMMA AppendedAcks ==
    ASSUME NEW q \in Seq(MsgType), NEW ms \in Seq(MsgType), NEW S, NEW T, S \subseteq T,
           AcksTrue(q, S), AcksTrue(ms, T)
    PROVE  AcksTrue(q \o ms, T)
  <1> DEFINE r == q \o ms
             a == Len(q)
  <1>1. /\ Len(r) = a + Len(ms) /\ a \in Nat /\ Len(ms) \in Nat
        /\ \A i \in 1 .. a : r[i] = q[i]
        /\ \A k \in 1 .. Len(ms) : r[a + k] = ms[k]
    BY Appended
  <1>2. SUFFICES ASSUME NEW i \in 1 .. Len(r), r[i].type = "ack", r[i].ok
                 PROVE  r[i].tx \in T \cup {Other}
    BY DEF AcksTrue
  <1> HIDE DEF r
  <1>3. CASE i <= a
    <2>1. i \in 1 .. Len(q) /\ r[i] = q[i]
      BY <1>1, <1>3
    <2>2. QED
      BY <1>2, <2>1 DEF AcksTrue
  <1>4. CASE i > a
    <2>1. i - a \in 1 .. Len(ms) /\ a + (i - a) = i
      BY <1>1, <1>4
    <2> HIDE DEF a
    <2>2. r[i] = ms[i - a]
      BY <1>1, <2>1
    <2>3. QED
      BY <1>2, <2>1, <2>2 DEF AcksTrue
  <1>5. QED
    BY <1>1, <1>3, <1>4

\* What is left after a message was taken.
LEMMA TakenNews ==
    ASSUME NEW q \in Seq(MsgType), q # <<>>
    PROVE  /\ Head(q) \in MsgType /\ Tail(q) \in Seq(MsgType)
           /\ NoInfo(q) => NoInfo(Tail(q))
           /\ \A j : LastInfo(q, j) => LastInfo(Tail(q), j) \/ (Opening(Head(q), j) /\ NoInfo(Tail(q)))
           /\ \A S : AcksTrue(q, S) =>
                 /\ AcksTrue(Tail(q), S)
                 /\ Head(q).type = "ack" /\ Head(q).ok => Head(q).tx \in S \cup {Other}
  <1> DEFINE t == Tail(q)
  <1>1. Head(q) \in MsgType /\ t \in Seq(MsgType) /\ Head(q) = q[1] /\ 1 \in 1 .. Len(q)
        /\ Len(t) = Len(q) - 1 /\ Len(t) \in Nat /\ \A k \in 1 .. Len(t) : t[k] = q[k + 1]
    OBVIOUS
  <1> HIDE DEF t
  <1>2. \A k \in 1 .. Len(t) : k + 1 \in 1 .. Len(q) /\ t[k] = q[k + 1]
    BY <1>1
  <1>3. NoInfo(q) => NoInfo(t)
    BY <1>2 DEF NoInfo
  <1>4. ASSUME NEW j, LastInfo(q, j) PROVE LastInfo(t, j) \/ (Opening(Head(q), j) /\ NoInfo(t))
    <2>1. PICK i \in 1 .. Len(q) :
              Opening(q[i], j) /\ \A k \in i + 1 .. Len(q) : q[k].type # "info"
      BY <1>4 DEF LastInfo
    <2>2. CASE i = 1
      <3>1. \A k \in 1 .. Len(t) : k + 1 \in i + 1 .. Len(q)
        BY <1>1, <2>2
      <3>2. QED
        BY <1>1, <2>1, <2>2, <3>1 DEF NoInfo
    <2>3. CASE i # 1
      <3>1. i - 1 \in 1 .. Len(t) /\ t[i - 1] = q[i]
        BY <1>1, <2>1, <2>3
      <3>2. \A k \in (i - 1) + 1 .. Len(t) : t[k].type # "info"
        <4> SUFFICES ASSUME NEW k \in (i - 1) + 1 .. Len(t) PROVE t[k].type # "info"
          OBVIOUS
        <4>1. k \in 1 .. Len(t) /\ k + 1 \in i + 1 .. Len(q)
          BY <1>1, <2>1
        <4>2. QED
          BY <1>2, <2>1, <4>1
      <3>3. LastInfo(t, j)
        BY <2>1, <3>1, <3>2 DEF LastInfo
      <3>4. QED
        BY <3>3
    <2>4. QED
      BY <2>2, <2>3
  <1>5. ASSUME NEW S, AcksTrue(q, S)
        PROVE  /\ AcksTrue(t, S)
               /\ Head(q).type = "ack" /\ Head(q).ok => Head(q).tx \in S \cup {Other}
    BY <1>1, <1>2, <1>5 DEF AcksTrue
  <1>6. QED
    BY <1>1, <1>3, <1>4, <1>5 DEF t

\* The news of joining, alone or with the response to whoever asked.
LEMMA NewsPublished ==
    ASSUME NEW j \in Tx \cup {Other}, NEW tx \in Tx \cup {Other}, NEW retained \in BOOLEAN
    PROVE  LET one == <<Info(TRUE, j, retained)>>
               ack == <<Ack(tx, TRUE), InfoOf(j)>>
               end == <<InfoOf(j), Ack(tx, TRUE)>>
               new == <<State(up), Info(TRUE, j, retained)>>
           IN  LastInfo(one, j) /\ LastInfo(ack, j) /\ LastInfo(end, j) /\ LastInfo(new, j)
  <1> DEFINE one == <<Info(TRUE, j, retained)>>
             ack == <<Ack(tx, TRUE), InfoOf(j)>>
             end == <<InfoOf(j), Ack(tx, TRUE)>>
             new == <<State(up), Info(TRUE, j, retained)>>
  <1>1. j # None
    BY PermitConstants
  <1>2. Opening(InfoOf(j), j) /\ Opening(Info(TRUE, j, retained), j) /\ Ack(tx, TRUE).type # "info"
    BY <1>1 DEF Opening, InfoOf, Info, Ack
  <1>3. LastInfo(one, j)
    <2>1. Len(one) = 1 /\ one[1] = Info(TRUE, j, retained) /\ 1 \in 1 .. 1
      OBVIOUS
    <2> HIDE DEF one
    <2>2. Opening(one[1], j)
      BY <1>2, <2>1, Zenon
    <2>3. \A k \in 1 + 1 .. 1 : FALSE
      OBVIOUS
    <2>4. QED
      BY <2>1, <2>2, <2>3 DEF LastInfo
  <1>4. LastInfo(ack, j)
    <2>1. Len(ack) = 2 /\ ack[2] = InfoOf(j) /\ 2 \in 1 .. 2
      OBVIOUS
    <2> HIDE DEF ack
    <2>2. QED
      BY <1>2, <2>1 DEF LastInfo
  <1>5. LastInfo(end, j)
    <2>1. Len(end) = 2 /\ end[1] = InfoOf(j) /\ end[2] = Ack(tx, TRUE) /\ 1 \in 1 .. 2
      OBVIOUS
    <2> HIDE DEF end
    <2>2. \A k \in 1 + 1 .. 2 : end[k].type # "info"
      <3>1. \A k \in 1 + 1 .. 2 : k = 2
        OBVIOUS
      <3>2. QED
        BY <1>2, <2>1, <3>1
    <2>3. QED
      BY <1>2, <2>1, <2>2 DEF LastInfo
  <1>6. LastInfo(new, j)
    <2>1. Len(new) = 2 /\ new[2] = Info(TRUE, j, retained) /\ 2 \in 1 .. 2
      OBVIOUS
    <2> HIDE DEF new
    <2>2. Opening(new[2], j)
      BY <1>2, <2>1, Zenon
    <2>3. \A k \in 2 + 1 .. 2 : FALSE
      OBVIOUS
    <2>4. QED
      BY <2>1, <2>2, <2>3 DEF LastInfo
  <1>7. QED
    BY <1>3, <1>4, <1>5, <1>6

\* The messages have their types.
LEMMA Messages ==
    /\ \A j \in Tx \cup {None, Other}, r \in BOOLEAN :
          Info(j # None, j, r) \in MsgType /\ InfoOf(j) \in MsgType /\ Info(j # None, j, r).type = "info"
    /\ \A b \in BOOLEAN : State(b) \in MsgType /\ State(b).type = "state"
    /\ \A tx \in Tx \cup {Other}, ok \in BOOLEAN :
          Ack(tx, ok) \in MsgType /\ Ack(tx, ok).type = "ack" /\ Ack(tx, ok).tx = tx /\ Ack(tx, ok).ok = ok
    /\ \A of \in {"state", "info"} : Bad(of) \in MsgType /\ Bad(of).type = "bad"
    /\ \A j : InfoOf(j).type = "info"
  BY DEF Info, InfoOf, State, Ack, Bad, MsgType

-----------------------------------------------------------------------------
(* The inductive invariant. *)

CountType == [requests : Nat, foreign : Nat, faults : Nat, setups : Nat]
AskType   == [tx : Tx, kind : {"open", "close"}]

ReqTypes ==
    /\ subscribed \in BOOLEAN /\ up \in BOOLEAN
    /\ req \in ReqType \cup {None}
    /\ join \in Tx \cup {None, Other}
    /\ toBridge \in Seq(AskType)
    /\ toClient \in Seq(MsgType)
    /\ taint \in Notes
    /\ count \in CountType

\* Without subscriptions there is nothing observed, asked or heard.
IdleInv == ~subscribed => c = Fresh /\ req = None /\ toClient = <<>>

\* A request is known to the attribution while nothing unsafe happened since, and its
\* acknowledgement was the bridge's.
RequestInv ==
    req # None =>
        /\ subscribed /\ req.gen <= c.gen
        /\ req.kind = "open" => req.stage # "online"
        /\ (req.kind = "open" /\ c.unsafe <= req.gen) =>
              c.own # None /\ c.own.tx = req.tx /\ c.own.gen = req.gen
        /\ req.stage = "acked" => req.tx \in served

\* What was heard since the request was published is in the observation.
TaintInv ==
    /\ ~Published => taint = "clean"
    /\ taint = "unsafe" => c.unsafe > req.gen
    /\ taint = "opened" /\ req.kind = "open" => c.unsafe > req.gen \/ c.foreign > req.gen

\* The last news on their way, or the last ones heard, are of the window that is open.
NewsInv ==
    subscribed /\ join # None =>
        \/ LastInfo(toClient, join)
        \/ NoInfo(toClient) /\ (c.info = None \/ (c.info.open /\ c.info.end = join))

PermitInv ==
    /\ ReqTypes /\ Observed(c) /\ c.note = "clean"
    /\ IdleInv /\ RequestInv /\ TaintInv /\ AcksTrue(toClient, served) /\ NewsInv

\* What the client and its listener see, and how it may change: nothing, or by a callback.
ClientInv == Observed(c) /\ c.note = "clean" /\ RequestInv /\ TaintInv

\* Actions of the bridge and the broker leave the client alone.
LEMMA FramedClient ==
    ASSUME ClientInv, Frame, served \subseteq served'
    PROVE  ClientInv'
  BY DEF ClientInv, Frame, RequestInv, TaintInv, Published

\* They publish to whoever is subscribed.
LEMMA PublishedMessages ==
    ASSUME PermitInv, NEW ms \in Seq(MsgType), Publish(ms), Frame, served \subseteq served',
           AcksTrue(ms, served'),
           join' = None \/ LastInfo(ms, join') \/ (join' = join /\ NoInfo(ms))
    PROVE  /\ toClient' \in Seq(MsgType) /\ AcksTrue(toClient, served)'
           /\ IdleInv' /\ NewsInv' /\ ClientInv'
  <1>1. toClient \in Seq(MsgType) /\ AcksTrue(toClient, served) /\ NewsInv /\ IdleInv
    BY DEF PermitInv, ReqTypes
  <1>2. subscribed' = subscribed /\ c' = c /\ req' = req
    BY DEF Frame
  <1>3. ClientInv'
    BY FramedClient DEF PermitInv, ClientInv
  <1>4. CASE ~subscribed
    <2>1. toClient' = <<>>
      BY <1>4 DEF Publish
    <2>2. QED
      BY <1>1, <1>2, <1>3, <1>4, <2>1 DEF IdleInv, NewsInv, AcksTrue
  <1>5. CASE subscribed
    <2>1. toClient' = toClient \o ms
      BY <1>5 DEF Publish
    <2>2. toClient' \in Seq(MsgType)
      BY <1>1, <2>1, Appended
    <2>3. AcksTrue(toClient', served')
      BY <1>1, <2>1, AppendedAcks
    <2>4. NewsInv'
      <3>1. SUFFICES ASSUME join' # None
                     PROVE  LastInfo(toClient', join') \/ (/\ NoInfo(toClient')
                                /\ (c.info = None \/ (c.info.open /\ c.info.end = join')))
        BY <1>2, <1>5 DEF NewsInv
      <3>2. CASE LastInfo(ms, join')
        BY <1>1, <2>1, <3>2, AppendedNews
      <3>3. CASE join' = join /\ NoInfo(ms)
        <4>1. LastInfo(toClient, join) => LastInfo(toClient', join')
          BY <1>1, <2>1, <3>3, AppendedNews
        <4>2. NoInfo(toClient) => NoInfo(toClient')
          BY <1>1, <2>1, <3>3, AppendedNews
        <4>3. QED
          BY <1>1, <1>5, <3>1, <3>3, <4>1, <4>2 DEF NewsInv
      <3>4. QED
        BY <3>1, <3>2, <3>3
    <2>5. QED
      BY <1>2, <1>3, <1>5, <2>2, <2>3, <2>4 DEF IdleInv
  <1>6. QED
    BY <1>4, <1>5 DEF PermitInv, ReqTypes

\* One or two messages are published at a time.
LEMMA OneOrTwo ==
    ASSUME NEW a \in MsgType, NEW b \in MsgType, NEW S,
           a.type = "ack" /\ a.ok => a.tx \in S \cup {Other},
           b.type = "ack" /\ b.ok => b.tx \in S \cup {Other}
    PROVE  /\ <<a>> \in Seq(MsgType) /\ <<a, b>> \in Seq(MsgType)
           /\ AcksTrue(<<a>>, S) /\ AcksTrue(<<a, b>>, S)
           /\ a.type # "info" => NoInfo(<<a>>)
  <1> DEFINE one == <<a>>
             two == <<a, b>>
  <1>1. one \in Seq(MsgType) /\ Len(one) = 1 /\ one[1] = a
    OBVIOUS
  <1>2. two \in Seq(MsgType) /\ Len(two) = 2 /\ two[1] = a /\ two[2] = b
    OBVIOUS
  <1> HIDE DEF one, two
  <1>3. \A i \in 1 .. 1 : i = 1
    OBVIOUS
  <1>4. \A i \in 1 .. 2 : i = 1 \/ i = 2
    OBVIOUS
  <1>5. AcksTrue(one, S)
    <2>1. \A i \in 1 .. Len(one) : one[i] = a
      BY <1>1, <1>3
    <2>2. QED
      BY <2>1 DEF AcksTrue
  <1>6. AcksTrue(two, S)
    <2>1. \A i \in 1 .. Len(two) : two[i] = a \/ two[i] = b
      BY <1>2, <1>4
    <2>2. QED
      BY <2>1 DEF AcksTrue
  <1>7. a.type # "info" => NoInfo(one)
    <2>1. \A i \in 1 .. Len(one) : one[i] = a
      BY <1>1, <1>3
    <2>2. QED
      BY <2>1 DEF NoInfo
  <1>8. QED
    BY <1>1, <1>2, <1>5, <1>6, <1>7 DEF one, two

\* From the parts to the whole.
LEMMA PermitParts ==
    ASSUME ReqTypes', ClientInv', IdleInv', AcksTrue(toClient, served)', NewsInv'
    PROVE  PermitInv'
  BY DEF PermitInv, ClientInv

\* Counting an input.
LEMMA Counted ==
    ASSUME count \in CountType
    PROVE  /\ [count EXCEPT !.foreign = @ + 1] \in CountType
           /\ [count EXCEPT !.faults = @ + 1] \in CountType
           /\ [count EXCEPT !.setups = @ + 1] \in CountType
           /\ [count EXCEPT !.requests = @ + 1] \in CountType
  BY DEF CountType

\* The bridge answers a request, publishes, or loses it.
LEMMA ServeStep ==
    ASSUME PermitInv, Serve
    PROVE  PermitInv'
  <1> DEFINE r == Head(toBridge)
             j == IF r.kind = "open" THEN r.tx ELSE None
  <1>1. ReqTypes
    BY DEF PermitInv
  <1>2. r \in AskType /\ Tail(toBridge) \in Seq(AskType)
    <2>1. toBridge \in Seq(AskType) /\ toBridge # <<>>
      BY <1>1 DEF ReqTypes, Serve
    <2>2. QED
      BY <2>1
  <1>3. r.tx \in Tx /\ j \in Tx \cup {None} /\ r.tx # Other
    BY <1>2, PermitConstants DEF AskType
  <1>4. Frame /\ up' = up /\ count' = count /\ toBridge' = Tail(toBridge)
    BY DEF Serve
  <1>5. \/ /\ join' = j /\ served' = served \cup {r.tx}
           /\ Publish(<<InfoOf(j), Ack(r.tx, TRUE)>>) \/ Publish(<<Ack(r.tx, TRUE), InfoOf(j)>>)
        \/ Publish(<<Ack(r.tx, FALSE)>>) /\ join' = join /\ served' = served
        \/ join' = join /\ served' = served /\ toClient' = toClient
    BY DEF Serve
  <1> HIDE DEF r, j
  <1>6. InfoOf(j) \in MsgType /\ InfoOf(j).type = "info"
    BY <1>3, Messages
  <1>7. \A ok \in BOOLEAN : Ack(r.tx, ok) \in MsgType /\ Ack(r.tx, ok).type = "ack"
                            /\ Ack(r.tx, ok).tx = r.tx /\ Ack(r.tx, ok).ok = ok
    BY <1>3, Messages
  <1>8. /\ toClient' \in Seq(MsgType) /\ AcksTrue(toClient, served)'
        /\ IdleInv' /\ NewsInv' /\ ClientInv' /\ join' \in Tx \cup {None, Other}
    <2>1. CASE /\ join' = j /\ served' = served \cup {r.tx}
               /\ Publish(<<InfoOf(j), Ack(r.tx, TRUE)>>) \/ Publish(<<Ack(r.tx, TRUE), InfoOf(j)>>)
      <3> DEFINE a == <<InfoOf(j), Ack(r.tx, TRUE)>>
                 b == <<Ack(r.tx, TRUE), InfoOf(j)>>
      <3>1. r.tx \in served' /\ served \subseteq served'
        BY <2>1
      <3>2. a \in Seq(MsgType) /\ AcksTrue(a, served')
        BY <1>6, <1>7, <3>1, OneOrTwo
      <3>3. b \in Seq(MsgType) /\ AcksTrue(b, served')
        BY <1>6, <1>7, <3>1, OneOrTwo
      <3>4. j # None => LastInfo(a, j) /\ LastInfo(b, j)
        BY <1>3, NewsPublished
      <3>5. Publish(a) \/ Publish(b)
        BY <2>1
      <3> HIDE DEF a, b
      <3>6. PICK ms \in {a, b} : Publish(ms)
        BY <3>5
      <3>7. ms \in Seq(MsgType) /\ AcksTrue(ms, served') /\ (join' = None \/ LastInfo(ms, join'))
        BY <2>1, <3>2, <3>3, <3>4, <3>6
      <3>8. QED
        BY <1>3, <1>4, <2>1, <3>1, <3>6, <3>7, PublishedMessages
    <2>2. CASE Publish(<<Ack(r.tx, FALSE)>>) /\ join' = join /\ served' = served
      <3> DEFINE a == Ack(r.tx, FALSE)
                 ms == <<a>>
      <3>1. a \in MsgType /\ a.type = "ack" /\ ~a.ok
        BY <1>7
      <3> HIDE DEF a
      <3>2. ms \in Seq(MsgType) /\ AcksTrue(ms, served') /\ NoInfo(ms)
        BY <3>1, OneOrTwo
      <3>3. Publish(ms)
        BY <2>2 DEF a
      <3> HIDE DEF ms
      <3>4. QED
        BY <1>1, <1>4, <2>2, <3>2, <3>3, PublishedMessages DEF ReqTypes
    <2>3. CASE join' = join /\ served' = served /\ toClient' = toClient
      <3>1. ClientInv'
        BY <1>4, <2>3, FramedClient DEF PermitInv, ClientInv
      <3>2. QED
        BY <1>1, <1>4, <2>3, <3>1 DEF PermitInv, ReqTypes, IdleInv, NewsInv, Frame
    <2>4. QED
      BY <1>5, <2>1, <2>2, <2>3
  <1>9. ReqTypes'
    BY <1>1, <1>2, <1>4, <1>8 DEF ReqTypes, Frame
  <1>10. QED
    BY <1>8, <1>9, PermitParts

\* A window ends, or somebody else opens or closes joining.
LEMMA WindowStep ==
    ASSUME PermitInv, WindowEnds \/ Foreign
    PROVE  PermitInv'
  <1>1. ReqTypes
    BY DEF PermitInv
  <1>2. PICK j \in {None, Other} :
            /\ join' = j
            /\ Publish(<<InfoOf(j)>>) \/ Publish(<<Ack(Other, TRUE), InfoOf(j)>>)
    BY DEF WindowEnds, Foreign
  <1>3. Frame /\ up' = up /\ toBridge' = toBridge /\ served' = served
        /\ count' \in CountType
    <2>1. count \in CountType
      BY <1>1 DEF ReqTypes
    <2>2. QED
      BY <2>1, Counted DEF WindowEnds, Foreign
  <1> DEFINE i == InfoOf(j)
             k == Ack(Other, TRUE)
             a == <<i>>
             b == <<k, i>>
  <1>4. i \in MsgType /\ i.type = "info"
    BY Messages
  <1>5. k \in MsgType /\ k.type = "ack" /\ k.tx = Other
    BY Messages
  <1>6. j # None => i = Info(TRUE, j, FALSE)
    BY DEF InfoOf
  <1>7. j # None => LastInfo(a, j) /\ LastInfo(b, j)
    <2>1. CASE j # None
      <3>1. j \in Tx \cup {Other}
        BY <2>1
      <3>2. LastInfo(<<Info(TRUE, j, FALSE)>>, j) /\ LastInfo(<<Ack(Other, TRUE), InfoOf(j)>>, j)
        BY <3>1, NewsPublished
      <3>3. a = <<Info(TRUE, j, FALSE)>> /\ b = <<Ack(Other, TRUE), InfoOf(j)>>
        BY <1>6, <2>1
      <3>4. QED
        BY <3>2, <3>3
    <2>2. QED
      BY <2>1
  <1> HIDE DEF i, k
  <1>8. a \in Seq(MsgType) /\ AcksTrue(a, served')
    BY <1>4, OneOrTwo
  <1>9. b \in Seq(MsgType) /\ AcksTrue(b, served')
    BY <1>4, <1>5, OneOrTwo
  <1>10. Publish(a) \/ Publish(b)
    BY <1>2 DEF i, k
  <1> HIDE DEF a, b
  <1>11. PICK ms \in {a, b} : Publish(ms)
    BY <1>10
  <1>12. ms \in Seq(MsgType) /\ AcksTrue(ms, served') /\ (join' = None \/ LastInfo(ms, join'))
         /\ served \subseteq served'
    BY <1>2, <1>3, <1>7, <1>8, <1>9, <1>11
  <1>13. /\ toClient' \in Seq(MsgType) /\ AcksTrue(toClient, served)'
         /\ IdleInv' /\ NewsInv' /\ ClientInv'
    BY <1>3, <1>11, <1>12, PublishedMessages
  <1>14. ReqTypes'
    BY <1>1, <1>2, <1>3, <1>13 DEF ReqTypes, Frame
  <1>15. QED
    BY <1>13, <1>14, PermitParts

\* The bridge goes down or comes up, or publishes what cannot be read.
LEMMA FaultStep ==
    ASSUME PermitInv, Restart \/ Malformed
    PROVE  PermitInv'
  <1>1. ReqTypes
    BY DEF PermitInv
  <1>2. /\ Frame /\ served' = served /\ up' \in BOOLEAN
        /\ toBridge' \in Seq(AskType)
        /\ count' \in CountType
    <2>1. count \in CountType /\ up \in BOOLEAN /\ toBridge \in Seq(AskType)
      BY <1>1 DEF ReqTypes
    <2>2. CASE Restart
      <3>1. Frame /\ served' = served /\ up' = ~up /\ toBridge' = <<>>
            /\ count' \in {count, [count EXCEPT !.faults = @ + 1]}
        BY <2>2 DEF Restart
      <3>2. <<>> \in Seq(AskType)
        OBVIOUS
      <3>3. QED
        BY <2>1, <3>1, <3>2, Counted
    <2>3. CASE Malformed
      BY <2>1, <2>3, Counted DEF Malformed
    <2>4. QED
      BY <2>2, <2>3
  <1>3. /\ State(TRUE) \in MsgType /\ State(TRUE).type = "state"
        /\ State(FALSE) \in MsgType /\ State(FALSE).type = "state"
        /\ InfoOf(None) \in MsgType /\ InfoOf(None).type = "info"
        /\ \A of \in {"state", "info"} : Bad(of) \in MsgType /\ Bad(of).type = "bad"
    BY Messages
  <1>4. \E ms \in Seq(MsgType) : Publish(ms) /\ AcksTrue(ms, served')
            /\ (join' = None \/ (join' = join /\ NoInfo(ms)))
    <2>1. CASE Restart
      <3>1. join' = None /\ (Publish(<<State(FALSE)>>) \/ Publish(<<State(TRUE), InfoOf(None)>>))
        BY <2>1 DEF Restart
      <3>2. <<State(FALSE)>> \in Seq(MsgType) /\ AcksTrue(<<State(FALSE)>>, served')
        BY <1>3, OneOrTwo
      <3>3. <<State(TRUE), InfoOf(None)>> \in Seq(MsgType)
            /\ AcksTrue(<<State(TRUE), InfoOf(None)>>, served')
        BY <1>3, OneOrTwo
      <3>4. QED
        BY <3>1, <3>2, <3>3
    <2>2. CASE Malformed
      <3>1. PICK of \in {"state", "info"} : Publish(<<Bad(of)>>)
        BY <2>2 DEF Malformed
      <3>2. <<Bad(of)>> \in Seq(MsgType) /\ AcksTrue(<<Bad(of)>>, served') /\ NoInfo(<<Bad(of)>>)
        BY <1>3, OneOrTwo
      <3>3. QED
        BY <2>2, <3>1, <3>2 DEF Malformed
    <2>3. QED
      BY <2>1, <2>2
  <1>5. /\ toClient' \in Seq(MsgType) /\ AcksTrue(toClient, served)'
        /\ IdleInv' /\ NewsInv' /\ ClientInv'
    BY <1>2, <1>4, PublishedMessages
  <1>6. join' \in Tx \cup {None, Other}
    BY <1>1 DEF Restart, Malformed, ReqTypes
  <1>7. ReqTypes'
    BY <1>1, <1>2, <1>5, <1>6 DEF ReqTypes, Frame
  <1>8. QED
    BY <1>5, <1>7, PermitParts

\* What the broker retained, after a subscription.
LEMMA RetainedNews ==
    ASSUME ReqTypes, toClient' = <<State(up), Info(join # None, join, TRUE)>>, NEW S
    PROVE  /\ toClient' \in Seq(MsgType) /\ AcksTrue(toClient', S)
           /\ join # None => LastInfo(toClient', join)
  <1> DEFINE a == State(up)
             b == Info(join # None, join, TRUE)
  <1>1. up \in BOOLEAN /\ join \in Tx \cup {None, Other}
    BY DEF ReqTypes
  <1>2. a \in MsgType /\ a.type = "state" /\ b \in MsgType /\ b.type = "info"
    BY <1>1, Messages
  <1>3. join # None => LastInfo(<<a, b>>, join)
    <2>1. CASE join # None
      <3>1. LastInfo(<<State(up), Info(TRUE, join, TRUE)>>, join)
        BY <1>1, <2>1, NewsPublished
      <3>2. b = Info(TRUE, join, TRUE)
        BY <2>1
      <3>3. QED
        BY <3>1, <3>2
    <2>2. QED
      BY <2>1
  <1> HIDE DEF a, b
  <1>4. <<a, b>> \in Seq(MsgType) /\ AcksTrue(<<a, b>>, S)
    BY <1>2, OneOrTwo
  <1>5. QED
    BY <1>3, <1>4 DEF a, b

\* Home Assistant subscribes again.
LEMMA ReconnectStep ==
    ASSUME PermitInv, Reconnect
    PROVE  PermitInv'
  <1>1. ReqTypes
    BY DEF PermitInv
  <1>2. /\ Frame /\ served' = served /\ join' = join /\ up' = up /\ toBridge' = toBridge /\ subscribed
        /\ toClient' = <<State(up), Info(join # None, join, TRUE)>>
        /\ count' \in CountType
    <2>1. count \in CountType
      BY <1>1 DEF ReqTypes
    <2>2. QED
      BY <2>1, Counted DEF Reconnect
  <1>3. ClientInv'
    BY <1>2, FramedClient DEF PermitInv, ClientInv
  <1>4. /\ toClient' \in Seq(MsgType) /\ AcksTrue(toClient', served')
        /\ join # None => LastInfo(toClient', join)
    BY <1>1, <1>2, RetainedNews
  <1>5. IdleInv' /\ NewsInv'
    BY <1>2, <1>4 DEF IdleInv, NewsInv, Frame
  <1>6. ReqTypes'
    BY <1>1, <1>2, <1>4 DEF ReqTypes, Frame
  <1>7. QED
    BY <1>3, <1>4, <1>5, <1>6, PermitParts

\* A fresh client has observed nothing.
LEMMA FreshIsObserved == Observed(Fresh) /\ Fresh.note = "clean" /\ Fresh.proof = 0 /\ Fresh.info = None
  <1>1. Fresh \in ObsType
    BY DEF Fresh, ObsType, Notes
  <1>2. QED
    BY <1>1 DEF Fresh, Observed, Ordered, ProofStands, Attribution

\* async_setup and async_shutdown.
LEMMA SetupStep ==
    ASSUME PermitInv, Setup \/ Shutdown
    PROVE  PermitInv'
  <1>1. ReqTypes
    BY DEF PermitInv
  <1>2. Observed(c') /\ c'.note = "clean"
    BY FreshIsObserved DEF Setup, Shutdown
  <1>3. up' = up /\ join' = join /\ toBridge' = toBridge /\ served' = served
    BY DEF Setup, Shutdown, external
  <1>4. CASE Setup
    <2>1. /\ ~subscribed /\ subscribed' = TRUE /\ c' = Fresh /\ req' = req /\ req = None /\ taint' = taint
          /\ toClient' = <<State(up), Info(join # None, join, TRUE)>>
      BY <1>4 DEF Setup, PermitInv, IdleInv
    <2>2. /\ toClient' \in Seq(MsgType) /\ AcksTrue(toClient', served')
          /\ join # None => LastInfo(toClient', join)
      BY <1>1, <2>1, RetainedNews
    <2>3. count' \in CountType
      BY <1>1, <1>4, Counted DEF Setup, ReqTypes
    <2>4. ReqTypes'
      BY <1>1, <1>3, <2>1, <2>2, <2>3 DEF ReqTypes
    <2>5. IdleInv' /\ NewsInv' /\ RequestInv'
      BY <1>3, <2>1, <2>2 DEF IdleInv, NewsInv, RequestInv
    <2>6. taint = "clean"
      BY <2>1 DEF PermitInv, TaintInv, Published
    <2>7. TaintInv'
      BY <2>1, <2>6 DEF TaintInv
    <2>8. QED
      BY <1>2, <2>2, <2>4, <2>5, <2>7 DEF PermitInv
  <1>5. CASE Shutdown
    <2>1. /\ subscribed' = FALSE /\ c' = Fresh /\ req' = None /\ taint' = "clean" /\ toClient' = <<>>
          /\ count' = count
      BY <1>5 DEF Shutdown
    <2>2. toClient' \in Seq(MsgType) /\ AcksTrue(toClient', served')
      BY <2>1 DEF AcksTrue
    <2>3. ReqTypes'
      BY <1>1, <1>3, <2>1, <2>2 DEF ReqTypes, Notes
    <2>4. IdleInv' /\ NewsInv' /\ RequestInv' /\ TaintInv'
      BY <2>1 DEF IdleInv, NewsInv, RequestInv, TaintInv
    <2>5. QED
      BY <1>2, <2>2, <2>3, <2>4 DEF PermitInv
  <1>6. QED
    BY <1>4, <1>5

\* What the client does on its own leaves the messages alone.
LEMMA OwnSteps ==
    ASSUME PermitInv, subscribed,
           subscribed' = subscribed, join' = join, up' = up, toClient' = toClient, served' = served,
           c'.info = c.info, ClientInv',
           req' \in ReqType \cup {None}, toBridge' \in Seq(AskType), taint' \in Notes, count' \in CountType
    PROVE  PermitInv'
  <1>1. ReqTypes'
    BY DEF PermitInv, ReqTypes
  <1>2. AcksTrue(toClient, served)'
    BY DEF PermitInv, AcksTrue
  <1>3. IdleInv' /\ NewsInv'
    BY DEF PermitInv, IdleInv, NewsInv
  <1>4. QED
    BY <1>1, <1>2, <1>3, PermitParts

\* A request ends, whatever its outcome.
LEMMA RequestEnds ==
    ASSUME req' = None, taint' = "clean"
    PROVE  RequestInv' /\ TaintInv'
  BY DEF RequestInv, TaintInv, Published

\* The client offers a closed baseline exactly when it holds a proof.
LEMMA BaselineIsProof == PermitInv => (ClosedBaseline <=> c.proof > 0)
  <1> SUFFICES ASSUME PermitInv PROVE ClosedBaseline <=> c.proof > 0
    OBVIOUS
  <1>1. ProofStands(c) /\ IdleInv
    BY DEF PermitInv, Observed
  <1>2. c.proof > 0 => subscribed
    BY <1>1, FreshIsObserved DEF IdleInv
  <1>3. QED
    BY <1>1, <1>2 DEF ClosedBaseline, ProofStands

\* async_open_join sends its request.
LEMMA OpenJoinStep ==
    ASSUME PermitInv, OpenJoin
    PROVE  PermitInv'
  <1> DEFINE tx == count.requests + 1
             o  == OwnOpening(tx)
             r  == [kind |-> "open", tx |-> tx, gen |-> c.gen, stage |-> "ack"]
  <1>1. /\ c \in ObsType /\ Ordered(c) /\ c.gen \in Nat /\ c.unsafe \in Nat /\ c.foreign \in Nat
        /\ c.proof \in Nat /\ c.note = "clean" /\ count \in CountType /\ toBridge \in Seq(AskType)
    BY DEF PermitInv, Observed, ObsType, ReqTypes
  <1>2. /\ subscribed /\ c.online = "online" /\ c.info # None /\ ~c.info.open
    BY DEF OpenJoin, ClosedBaseline
  <1>3. tx \in Tx /\ count' = [count EXCEPT !.requests = tx]
    <2>1. count.requests \in Nat /\ count.requests < MaxRequests /\ MaxRequests \in Nat
      BY <1>1, PermitConstants DEF OpenJoin, CountType
    <2>2. QED
      BY <2>1 DEF OpenJoin, Tx
  <1>4. /\ c' = [c EXCEPT !.proof = 0, !.own = o] /\ req' = r /\ Send(tx, "open") /\ taint' = "clean"
        /\ UNCHANGED <<subscribed, join, up, toClient, served>>
    BY DEF OpenJoin
  <1> HIDE DEF tx
  <1>5. /\ o \in OwnType /\ o.tx = tx /\ o.gen = c.gen /\ ~o.acked /\ o.info = 0
        /\ o.provisional = None
    BY <1>1, <1>3 DEF OwnOpening, OwnType
  <1>6. o # None
    BY <1>5, PermitConstants
  <1>7. r \in ReqType /\ r.kind = "open" /\ r.tx = tx /\ r.gen = c.gen /\ r.stage = "ack"
    BY <1>1, <1>3 DEF ReqType
  <1>8. r # None
    BY <1>7, PermitConstants
  <1> HIDE DEF o, r
  <1>9. /\ c' \in ObsType /\ c'.gen = c.gen /\ c'.unsafe = c.unsafe /\ c'.foreign = c.foreign
        /\ c'.proof = 0 /\ c'.online = c.online /\ c'.info = c.info /\ c'.seen = c.seen
        /\ c'.own = o /\ c'.note = c.note
    <2>1. c' = [c EXCEPT !.proof = 0, !.own = o]
      BY <1>4
    <2>2. QED
      BY <1>1, <1>5, <2>1 DEF ObsType
  <1>10. Ordered(c') /\ ProofStands(c')
    BY <1>1, <1>9 DEF Ordered, ProofStands
  <1>11. Attribution(c')
    BY <1>1, <1>2, <1>5, <1>9 DEF Attribution
  <1>12. RequestInv'
    BY <1>1, <1>2, <1>4, <1>5, <1>6, <1>7, <1>9 DEF RequestInv
  <1>13. TaintInv'
    BY <1>4 DEF TaintInv
  <1>14. ClientInv'
    BY <1>1, <1>9, <1>10, <1>11, <1>12, <1>13 DEF ClientInv, Observed
  <1>15. toBridge' \in Seq(AskType)
    <2>1. [tx |-> tx, kind |-> "open"] \in AskType
      BY <1>3 DEF AskType
    <2>2. QED
      BY <1>1, <1>4, <2>1 DEF Send
  <1>16. count' \in CountType
    BY <1>1, <1>3 DEF CountType, Tx
  <1>17. QED
    BY <1>2, <1>4, <1>7, <1>9, <1>14, <1>15, <1>16, OwnSteps DEF Notes

\* async_reconcile_join_closed waits and sends its request.
LEMMA CloseJoinStep ==
    ASSUME PermitInv, CloseJoin \/ PublishCloseJoin
    PROVE  PermitInv'
  <1>1. /\ Observed(c) /\ c.gen \in Nat /\ c.note = "clean" /\ count \in CountType
        /\ toBridge \in Seq(AskType) /\ req \in ReqType \cup {None} /\ taint \in Notes
    BY DEF PermitInv, Observed, ObsType, ReqTypes
  <1>2. CASE CloseJoin
    <2> DEFINE r == [kind |-> "close", tx |-> count.requests + 1, gen |-> 0, stage |-> "online"]
    <2>1. count.requests + 1 \in Tx
      BY <1>1, <1>2, PermitConstants DEF CloseJoin, CountType, Tx
    <2>2. r \in ReqType /\ r.kind = "close" /\ r.gen = 0 /\ r.stage = "online"
      BY <2>1 DEF ReqType
    <2>3. req' = r /\ req = None /\ subscribed /\ UNCHANGED <<subscribed, c, external, toClient, taint>>
          /\ count' = [count EXCEPT !.requests = @ + 1]
      BY <1>2 DEF CloseJoin
    <2> HIDE DEF r
    <2>4. taint = "clean"
      BY <2>3 DEF PermitInv, TaintInv, Published
    <2>5. RequestInv' /\ TaintInv'
      BY <1>1, <2>2, <2>3, <2>4 DEF RequestInv, TaintInv
    <2>6. ClientInv'
      BY <1>1, <2>3, <2>5 DEF ClientInv
    <2>7. count' \in CountType
      BY <1>1, <2>3, Counted
    <2>8. QED
      BY <1>1, <2>2, <2>3, <2>6, <2>7, OwnSteps DEF external
  <1>3. CASE PublishCloseJoin
    <2> DEFINE r == [req EXCEPT !.stage = "ack", !.gen = c.gen]
    <2>1. req # None /\ req.stage = "online" /\ req \in ReqType
      BY <1>1, <1>3 DEF PublishCloseJoin
    <2>2. subscribed /\ req.kind = "close"
      BY <2>1 DEF PermitInv, RequestInv, ReqType
    <2>3. r \in ReqType /\ r.kind = "close" /\ r.gen = c.gen /\ r.stage = "ack"
      BY <1>1, <2>1, <2>2 DEF ReqType
    <2>4. req' = r /\ taint' = "clean" /\ Send(req.tx, "close")
          /\ UNCHANGED <<subscribed, c, join, up, toClient, served, count>>
      BY <1>3 DEF PublishCloseJoin
    <2> HIDE DEF r
    <2>5. RequestInv' /\ TaintInv'
      BY <1>1, <2>2, <2>3, <2>4 DEF RequestInv, TaintInv
    <2>6. ClientInv'
      BY <1>1, <2>4, <2>5 DEF ClientInv
    <2>7. toBridge' \in Seq(AskType)
      <3>1. [tx |-> req.tx, kind |-> "close"] \in AskType
        BY <2>1 DEF AskType, ReqType
      <3>2. QED
        BY <1>1, <2>4, <3>1 DEF Send
    <2>8. QED
      BY <1>1, <2>2, <2>3, <2>4, <2>6, <2>7, OwnSteps DEF Notes
  <1>4. QED
    BY <1>2, <1>3

\* A request finds its proof, fails or times out, or the baseline ages.
LEMMA RequestEndsStep ==
    ASSUME PermitInv, OpenJoinProved \/ CloseJoinProved \/ JoinRequestFails \/ BaselineAges
    PROVE  PermitInv'
  <1>1. /\ Observed(c) /\ c \in ObsType /\ c.gen \in Nat /\ c.unsafe \in Nat /\ c.foreign \in Nat
        /\ c.proof \in Nat /\ Ordered(c) /\ c.note = "clean" /\ count \in CountType
        /\ toBridge \in Seq(AskType) /\ req \in ReqType \cup {None} /\ taint \in Notes
    BY DEF PermitInv, Observed, ObsType, ReqTypes
  <1>2. CASE OpenJoinProved \/ JoinRequestFails
    <2>1. /\ req # None /\ req' = None /\ taint' = "clean"
          /\ UNCHANGED <<subscribed, c, external, toClient, count>>
      BY <1>2 DEF OpenJoinProved, JoinRequestFails
    <2>2. subscribed
      BY <2>1 DEF PermitInv, RequestInv
    <2>3. ClientInv'
      BY <1>1, <2>1, RequestEnds DEF ClientInv
    <2>4. QED
      BY <1>1, <2>1, <2>2, <2>3, OwnSteps DEF external, Notes
  <1>3. CASE CloseJoinProved
    <2> DEFINE g == c.info.gen
    <2>1. /\ req # None /\ req' = None /\ taint' = "clean"
          /\ UNCHANGED <<subscribed, external, toClient, count>>
          /\ c' = [c EXCEPT !.proof = g, !.own = None, !.aged = FALSE]
          /\ c.online = "online" /\ c.info # None /\ ~c.info.open /\ ~c.info.retained
      BY <1>3 DEF CloseJoinProved
    <2>2. subscribed
      BY <2>1 DEF PermitInv, RequestInv
    <2>3. g \in Nat /\ g >= 1 /\ g <= c.gen
      BY <1>1, <2>1 DEF Ordered, ObsType, InfoType
    <2> HIDE DEF g
    <2>4. /\ c' \in ObsType /\ c'.gen = c.gen /\ c'.unsafe = c.unsafe /\ c'.foreign = c.foreign
          /\ c'.proof = g /\ c'.online = c.online /\ c'.info = c.info /\ c'.seen = c.seen
          /\ c'.own = None /\ c'.note = c.note
      <3>1. c' = [c EXCEPT !.proof = g, !.own = None, !.aged = FALSE]
        BY <2>1
      <3>2. QED
        BY <1>1, <2>3, <3>1 DEF ObsType
    <2>5. Ordered(c') /\ ProofStands(c') /\ Attribution(c')
      BY <1>1, <2>1, <2>3, <2>4 DEF Ordered, ProofStands, Attribution, g
    <2>6. ClientInv'
      BY <1>1, <2>1, <2>4, <2>5, RequestEnds DEF ClientInv, Observed
    <2>7. QED
      BY <1>1, <2>1, <2>2, <2>4, <2>6, OwnSteps DEF external, Notes
  <1>4. CASE BaselineAges
    <2>1. /\ c.proof > 0 /\ c' = [c EXCEPT !.aged = TRUE]
          /\ UNCHANGED <<subscribed, req, external, toClient, taint, count>>
      BY <1>4 DEF BaselineAges
    <2>2. subscribed
      BY <2>1, FreshIsObserved DEF PermitInv, IdleInv
    <2>3. /\ c' \in ObsType /\ c'.gen = c.gen /\ c'.unsafe = c.unsafe /\ c'.foreign = c.foreign
          /\ c'.proof = c.proof /\ c'.online = c.online /\ c'.info = c.info /\ c'.seen = c.seen
          /\ c'.own = c.own /\ c'.note = c.note
      BY <1>1, <2>1 DEF ObsType
    <2>4. Ordered(c') /\ ProofStands(c') /\ Attribution(c')
      BY <1>1, <2>3 DEF Observed, Ordered, ProofStands, Attribution, Explained
    <2>5. RequestInv' /\ TaintInv'
      BY <2>1, <2>3 DEF PermitInv, RequestInv, TaintInv, Published, external
    <2>6. ClientInv'
      BY <1>1, <2>3, <2>4, <2>5 DEF ClientInv, Observed
    <2>7. QED
      BY <1>1, <2>1, <2>2, <2>3, <2>6, OwnSteps DEF external
  <1>5. QED
    BY <1>2, <1>3, <1>4

\* What a message makes of the observation, whatever its type.
HeardOf(m, late) ==
    CASE m.type = "state" -> StateReceived(m)
      [] m.type = "info"  -> InfoReceived(m, late)
      [] m.type = "ack"   -> ResponseReceived(m)
      [] m.type = "bad"   -> BadReceived(m)

\* Every message is heard by one of the callbacks.
LEMMA MessageHeard ==
    ASSUME Observed(c), c.note = "clean", NEW m \in MsgType, NEW late \in BOOLEAN
    PROVE  LET s == HeardOf(m, late)
           IN  /\ Hears(s)
               /\ m.type = "info" => s.info # None /\ s.info.open = m.open /\ s.info.end = m.end
               /\ m.type # "info" => s.info \in {c.info, None}
  <1> DEFINE s == HeardOf(m, late)
  <1>1. CASE m.type = "info"
    <2>1. m.open \in BOOLEAN /\ m.end \in Tx \cup {None, Other} /\ m.retained \in BOOLEAN
      BY <1>1 DEF MsgType
    <2>2. s = InfoReceived(m, late)
      BY <1>1 DEF HeardOf
    <2>3. QED
      BY <1>1, <2>1, <2>2, InfoHeard
  <1>2. CASE m.type = "state"
    <2>1. m.online \in BOOLEAN
      BY <1>2 DEF MsgType
    <2>2. s = StateReceived(m)
      BY <1>2 DEF HeardOf
    <2>3. QED
      BY <1>2, <2>1, <2>2, StateHeard
  <1>3. CASE m.type = "ack"
    <2>1. s = ResponseReceived(m)
      BY <1>3 DEF HeardOf
    <2>2. QED
      BY <1>3, <2>1, ResponseHeard
  <1>4. CASE m.type = "bad"
    <2>1. s = BadReceived(m)
      BY <1>4 DEF HeardOf
    <2>2. QED
      BY <1>4, <2>1, BadHeard
  <1>5. QED
    BY <1>1, <1>2, <1>3, <1>4 DEF MsgType

\* A response only settles the request that was published with its transaction.
LEMMA AnsweredKeeps ==
    ASSUME req \in ReqType \cup {None}, NEW m
    PROVE  LET r == Answered(m)
           IN  /\ req = None => r = None
               /\ req # None =>
                     /\ r \in ReqType /\ r.kind = req.kind /\ r.tx = req.tx /\ r.gen = req.gen
                     /\ r.stage = "online" <=> req.stage = "online"
                     /\ r.stage = "acked" => req.stage = "acked" \/ (m.ok /\ m.tx = req.tx)
  <1> DEFINE r == Answered(m)
  <1>1. CASE Answers(m) /\ req.stage = "ack"
    <2> DEFINE st == IF m.ok /\ OwnershipKept THEN "acked" ELSE "refused"
    <2>1. r = [req EXCEPT !.stage = st] /\ req # None /\ req \in ReqType /\ m.tx = req.tx
      BY <1>1 DEF Answered, Answers, Published
    <2>2. st \in {"acked", "refused"} /\ (st = "acked" => m.ok)
      OBVIOUS
    <2> HIDE DEF st
    <2>3. r \in ReqType /\ r.kind = req.kind /\ r.tx = req.tx /\ r.gen = req.gen /\ r.stage = st
      BY <2>1, <2>2 DEF ReqType
    <2>4. QED
      BY <1>1, <2>1, <2>2, <2>3
  <1>2. CASE ~Answers(m) /\ Published /\ req.stage = "ack" /\ req.kind = "open" /\ ProvisionalOpen
    <2>1. r = [req EXCEPT !.stage = "refused"] /\ req # None /\ req \in ReqType
      BY <1>2 DEF Answered, Published
    <2>2. r \in ReqType /\ r.kind = req.kind /\ r.tx = req.tx /\ r.gen = req.gen /\ r.stage = "refused"
      BY <2>1 DEF ReqType
    <2>3. QED
      BY <1>2, <2>1, <2>2
  <1>3. CASE /\ ~(Answers(m) /\ req.stage = "ack")
             /\ ~(~Answers(m) /\ Published /\ req.stage = "ack" /\ req.kind = "open" /\ ProvisionalOpen)
    <2>1. r = req
      BY <1>3 DEF Answered
    <2>2. QED
      BY <2>1
  <1>4. QED
    BY <1>1, <1>2, <1>3

\* The request stays what it was, but for an acknowledgement that the bridge gave.
SameRequest ==
    /\ req = None => req' = None
    /\ req # None =>
          /\ req' \in ReqType /\ req' # None
          /\ req'.kind = req.kind /\ req'.tx = req.tx /\ req'.gen = req.gen
          /\ req'.stage = "online" <=> req.stage = "online"
          /\ req'.stage = "acked" => req.stage = "acked" \/ req.tx \in served

\* What a callback leaves, in one step.
Receives(s, m) ==
    /\ Hears(s) /\ s.note \in Notes
    /\ c' \in ObsType /\ SameNews(s, c') /\ c'.foreign = s.foreign /\ c'.own = s.own
    /\ c'.note = "clean"
    /\ taint' = IF Published THEN Promise!Worse(taint, s.note) ELSE "clean"
    /\ m.type = "info" => s.info # None /\ s.info.open = m.open /\ s.info.end = m.end
    /\ m.type # "info" => s.info \in {c.info, None}

\* A reception is one callback: it takes the first message and leaves what it heard.
LEMMA ReceiveIs ==
    ASSUME PermitInv, NEW late \in BOOLEAN, Receive(late)
    PROVE  /\ subscribed /\ toClient # <<>> /\ toClient' = Tail(toClient)
           /\ UNCHANGED <<subscribed, external, count>>
           /\ SameRequest
           /\ \E s : Receives(s, Head(toClient))
  <1> DEFINE m == Head(toClient)
             s == HeardOf(m, late)
  <1>1. /\ subscribed /\ toClient # <<>> /\ toClient' = Tail(toClient)
        /\ UNCHANGED <<subscribed, external, count>>
    BY DEF Receive
  <1>2. /\ Observed(c) /\ c.note = "clean" /\ toClient \in Seq(MsgType)
        /\ req \in ReqType \cup {None} /\ AcksTrue(toClient, served)
    BY DEF PermitInv, ReqTypes
  <1>3. m \in MsgType /\ (m.type = "ack" /\ m.ok => m.tx \in served \cup {Other})
    BY <1>1, <1>2, TakenNews
  <1>4. /\ c' = [s EXCEPT !.note = "clean"]
        /\ taint' = IF Published THEN Promise!Worse(taint, s.note) ELSE "clean"
        /\ req' = IF m.type = "ack" THEN Answered(m) ELSE req
    BY DEF Receive, HeardOf
  <1> HIDE DEF m
  <1>5. /\ Hears(s)
        /\ m.type = "info" => s.info # None /\ s.info.open = m.open /\ s.info.end = m.end
        /\ m.type # "info" => s.info \in {c.info, None}
    BY <1>2, <1>3, MessageHeard
  <1>6. SameRequest
    <2>1. CASE req = None
      <3>1. req' = None
        BY <1>2, <1>4, <2>1, AnsweredKeeps
      <3>2. QED
        BY <2>1, <3>1 DEF SameRequest
    <2>2. CASE req # None
      <3>1. req \in ReqType /\ req.tx # Other
        BY <1>2, <2>2, PermitConstants DEF ReqType
      <3>2. CASE m.type = "ack"
        <4>1. /\ req' \in ReqType /\ req'.kind = req.kind /\ req'.tx = req.tx /\ req'.gen = req.gen
              /\ req'.stage = "online" <=> req.stage = "online"
              /\ req'.stage = "acked" => req.stage = "acked" \/ (m.ok /\ m.tx = req.tx)
          BY <1>2, <1>4, <2>2, <3>2, AnsweredKeeps
        <4>2. QED
          BY <1>3, <2>2, <3>1, <3>2, <4>1, PermitConstants DEF SameRequest
      <3>3. CASE m.type # "ack"
        BY <1>4, <2>2, <3>1, <3>3 DEF SameRequest
      <3>4. QED
        BY <3>2, <3>3
    <2>3. QED
      BY <2>1, <2>2
  <1> HIDE DEF s
  <1>7. s \in ObsType /\ s.note \in Notes
    BY <1>5 DEF Hears, Observed, ObsType
  <1>8. c' \in ObsType /\ SameNews(s, c') /\ c'.foreign = s.foreign /\ c'.own = s.own /\ c'.note = "clean"
    BY <1>4, <1>7 DEF ObsType, SameNews, Notes
  <1>9. Receives(s, m)
    BY <1>4, <1>5, <1>7, <1>8 DEF Receives
  <1>10. QED
    BY <1>1, <1>6, <1>9 DEF m

\* A message arrives.
LEMMA ReceiveStep ==
    ASSUME PermitInv, NEW late \in BOOLEAN, Receive(late)
    PROVE  PermitInv'
  <1> DEFINE m == Head(toClient)
  <1>1. /\ subscribed /\ toClient # <<>> /\ toClient' = Tail(toClient)
        /\ UNCHANGED <<subscribed, external, count>>
        /\ SameRequest
    BY ReceiveIs
  <1>2. PICK s : Receives(s, m)
    BY ReceiveIs
  <1>3. /\ Observed(c) /\ c.gen \in Nat /\ c.unsafe \in Nat /\ c.foreign \in Nat
        /\ c \in ObsType /\ ReqTypes /\ RequestInv /\ TaintInv /\ NewsInv
        /\ AcksTrue(toClient, served) /\ toClient \in Seq(MsgType)
    BY DEF PermitInv, Observed, ObsType, ReqTypes
  <1>4. /\ Observed(s) /\ s \in ObsType /\ s.gen \in Nat /\ s.unsafe \in Nat /\ s.foreign \in Nat
        /\ s.gen >= c.gen /\ s.unsafe >= c.unsafe /\ s.foreign >= c.foreign
        /\ s.note = "opened" => s.proof = 0 /\ (c.own # None => s.foreign > c.own.gen)
        /\ s.note = "unsafe" => s.proof = 0 /\ s.unsafe > c.gen
        /\ SameOpening(c, s) \/ (s.own = None /\ s.unsafe > c.gen)
    BY <1>2 DEF Receives, Hears, Observed, ObsType
  <1>5. /\ c' \in ObsType /\ c'.gen = s.gen /\ c'.unsafe = s.unsafe /\ c'.foreign = s.foreign
        /\ c'.proof = s.proof /\ c'.online = s.online /\ c'.info = s.info /\ c'.seen = s.seen
        /\ c'.own = s.own /\ c'.note = "clean"
    BY <1>2 DEF Receives, SameNews
  <1>6. Observed(c')
    BY <1>4, <1>5 DEF Observed, Ordered, ProofStands, Attribution, Explained
  <1>7. req # None => /\ req \in ReqType /\ req.gen \in Nat /\ req.gen <= c.gen
    BY <1>3 DEF ReqTypes, RequestInv, ReqType
  <1>8. RequestInv'
    <2>1. SUFFICES ASSUME req' # None PROVE RequestInv'
      BY DEF RequestInv
    <2>2. /\ req # None /\ req'.kind = req.kind /\ req'.tx = req.tx /\ req'.gen = req.gen
          /\ req'.stage = "online" <=> req.stage = "online"
          /\ req'.stage = "acked" => req.stage = "acked" \/ req.tx \in served
      BY <1>1, <2>1 DEF SameRequest
    <2>3. /\ subscribed' /\ served' = served
      BY <1>1 DEF external
    <2>4. req.kind = "open" /\ s.unsafe <= req.gen =>
              s.own # None /\ s.own.tx = req.tx /\ s.own.gen = req.gen
      BY <1>3, <1>4, <1>7, <2>2 DEF RequestInv, SameOpening
    <2>5. req'.gen <= c'.gen
      BY <1>3, <1>4, <1>5, <1>7, <2>2
    <2>6. QED
      BY <1>3, <1>5, <2>2, <2>3, <2>4, <2>5 DEF RequestInv
  <1>9. Published' <=> Published
    BY <1>1 DEF SameRequest, Published
  <1>10. TaintInv'
    <2>1. taint' = IF Published THEN Promise!Worse(taint, s.note) ELSE "clean"
      BY <1>2 DEF Receives
    <2>2. CASE ~Published
      BY <1>9, <2>1, <2>2 DEF TaintInv
    <2>3. CASE Published
      <3>1. req # None /\ req'.kind = req.kind /\ req'.gen = req.gen
        BY <1>1, <2>3 DEF SameRequest, Published
      <3>2. taint \in Notes /\ s.note \in Notes
        BY <1>2, <1>3 DEF Receives, ReqTypes
      <3>3. taint' = "unsafe" => taint = "unsafe" \/ s.note = "unsafe"
        BY <2>1, <2>3, <3>2 DEF Promise!Worse, Notes
      <3>4. taint' = "opened" => taint = "opened" \/ s.note = "opened"
        BY <2>1, <2>3, <3>2 DEF Promise!Worse, Notes
      <3>5. taint' = "unsafe" => s.unsafe > req.gen
        BY <1>3, <1>4, <1>7, <3>1, <3>3 DEF TaintInv
      <3>6. taint' = "opened" /\ req.kind = "open" => s.unsafe > req.gen \/ s.foreign > req.gen
        <4>1. SUFFICES ASSUME taint' = "opened", req.kind = "open", ~(s.unsafe > req.gen)
                       PROVE  s.foreign > req.gen
          OBVIOUS
        <4>2. c.unsafe <= req.gen
          BY <1>3, <1>4, <1>7, <3>1, <4>1
        <4>3. c.own # None /\ c.own.gen = req.gen
          BY <1>3, <3>1, <4>1, <4>2 DEF RequestInv
        <4>4. CASE taint = "opened"
          BY <1>3, <1>4, <1>7, <3>1, <4>1, <4>2, <4>4 DEF TaintInv
        <4>5. CASE s.note = "opened"
          BY <1>4, <4>3, <4>5
        <4>6. QED
          BY <3>4, <4>1, <4>4, <4>5
      <3>7. QED
        BY <1>5, <1>9, <2>3, <3>1, <3>5, <3>6 DEF TaintInv
    <2>4. QED
      BY <2>2, <2>3
  <1>11. /\ toClient' \in Seq(MsgType) /\ AcksTrue(toClient', served)
         /\ NoInfo(toClient) => NoInfo(toClient')
         /\ \A j : LastInfo(toClient, j) =>
               LastInfo(toClient', j) \/ (Opening(m, j) /\ NoInfo(toClient'))
    BY <1>1, <1>3, TakenNews
  <1>12. NewsInv'
    <2>1. SUFFICES ASSUME join # None
                   PROVE  LastInfo(toClient', join) \/ (/\ NoInfo(toClient')
                                /\ (s.info = None \/ (s.info.open /\ s.info.end = join)))
      BY <1>1, <1>5 DEF NewsInv, external
    <2>2. CASE LastInfo(toClient, join)
      <3>1. LastInfo(toClient', join) \/ (Opening(m, join) /\ NoInfo(toClient'))
        BY <1>11, <2>2
      <3>2. Opening(m, join) => s.info.open /\ s.info.end = join
        BY <1>2 DEF Receives, Opening
      <3>3. QED
        BY <3>1, <3>2
    <2>3. CASE ~LastInfo(toClient, join)
      <3>1. NoInfo(toClient) /\ (c.info = None \/ (c.info.open /\ c.info.end = join))
        BY <1>1, <1>3, <2>1, <2>3 DEF NewsInv
      <3>2. m.type # "info"
        <4>1. 1 \in 1 .. Len(toClient) /\ m = toClient[1]
          BY <1>1, <1>3
        <4>2. QED
          BY <3>1, <4>1 DEF NoInfo
      <3>3. s.info \in {c.info, None}
        BY <1>2, <3>2 DEF Receives
      <3>4. QED
        BY <1>11, <3>1, <3>3
    <2>4. QED
      BY <2>2, <2>3
  <1>13. taint' \in Notes
    BY <1>2, <1>3 DEF Receives, Promise!Worse, ReqTypes, Notes
  <1>14. ReqTypes'
    BY <1>1, <1>3, <1>11, <1>13 DEF ReqTypes, external, SameRequest
  <1>15. IdleInv'
    BY <1>1 DEF IdleInv
  <1>16. AcksTrue(toClient, served)'
    BY <1>1, <1>11 DEF external
  <1>17. QED
    BY <1>5, <1>6, <1>8, <1>10, <1>12, <1>14, <1>15, <1>16 DEF PermitInv

-----------------------------------------------------------------------------
(* The invariant and what follows from it. *)

\* Before the first setup there is nothing to be wrong about.
LEMMA PermitStarts == Init => PermitInv
  <1> SUFFICES ASSUME Init PROVE PermitInv
    OBVIOUS
  <1>1. Observed(c) /\ c.note = "clean"
    BY FreshIsObserved DEF Init
  <1>2. count \in CountType
    BY DEF Init, CountType
  <1>3. join \in {None, Other}
    BY DEF Init
  <1>4. ReqTypes
    <2>1. <<>> \in Seq(AskType) /\ <<>> \in Seq(MsgType)
      OBVIOUS
    <2>2. join \in Tx \cup {None, Other}
      BY <1>3
    <2>3. QED
      BY <1>2, <2>1, <2>2 DEF Init, ReqTypes, Notes
  <1>5. AcksTrue(toClient, served) /\ IdleInv /\ RequestInv /\ TaintInv /\ NewsInv
    BY DEF Init, AcksTrue, IdleInv, RequestInv, TaintInv, NewsInv
  <1>6. QED
    BY <1>1, <1>4, <1>5 DEF PermitInv

\* Every action keeps the invariant.
LEMMA PermitStep == PermitInv /\ [Next]_vars => PermitInv'
  <1> SUFFICES ASSUME PermitInv, [Next]_vars PROVE PermitInv'
    OBVIOUS
  <1>1. CASE Setup \/ Shutdown
    BY <1>1, SetupStep
  <1>2. ASSUME NEW late \in BOOLEAN, Receive(late) PROVE PermitInv'
    BY <1>2, ReceiveStep
  <1>3. CASE OpenJoin
    BY <1>3, OpenJoinStep
  <1>4. CASE CloseJoin \/ PublishCloseJoin
    BY <1>4, CloseJoinStep
  <1>5. CASE OpenJoinProved \/ CloseJoinProved \/ JoinRequestFails \/ BaselineAges
    BY <1>5, RequestEndsStep
  <1>6. CASE Serve
    BY <1>6, ServeStep
  <1>7. CASE WindowEnds \/ Foreign
    BY <1>7, WindowStep
  <1>8. CASE Restart \/ Malformed
    BY <1>8, FaultStep
  <1>9. CASE Reconnect
    BY <1>9, ReconnectStep
  <1>10. CASE UNCHANGED vars
    BY <1>10 DEF vars, PermitInv, ReqTypes, IdleInv, RequestInv, TaintInv, NewsInv, Published
  <1>11. QED
    BY <1>1, <1>2, <1>3, <1>4, <1>5, <1>6, <1>7, <1>8, <1>9, <1>10 DEF Next

\* The inductive invariant of the bridge client: what it observed, what its request
\* knows of it, and the news that are still on their way to it.
THEOREM PermitInvariant == Spec => []PermitInv
  BY PermitStarts, PermitStep, PTL DEF Spec

\* The news on their way are what the properties look for.
LEMMA NewsAreHeardSoon == ASSUME NEW j, LastInfo(toClient, j) PROVE OpeningHeardSoon
  BY DEF LastInfo, Opening, OpeningHeardSoon

\* A closed baseline is what the bridge is, or its end is on its way, through lost
\* messages, restarts, malformed messages and foreign openings; and what is taken for
\* acknowledged was executed (current_closed_baseline, join_response_received).
THEOREM BeliefsHold == Spec => []BeliefsAreTrue
  <1>1. PermitInv => BeliefsAreTrue
    <2> SUFFICES ASSUME PermitInv PROVE BeliefsAreTrue
      OBVIOUS
    <2>1. /\ ReqTypes /\ c \in ObsType /\ Ordered(c) /\ ProofStands(c) /\ Attribution(c)
          /\ RequestInv /\ NewsInv
      BY DEF PermitInv, Observed
    <2>2. c.gen \in Nat /\ c.unsafe \in Nat /\ c.foreign \in Nat /\ c.proof \in Nat
      BY <2>1 DEF ObsType
    <2>3. c.info # None => c.info.gen \in 1 .. c.gen
      BY <2>1, <2>2 DEF ObsType, InfoType, Ordered
    <2>4. c.own # None => c.own.info \in 0 .. c.gen /\ (c.own.provisional # None => ~c.own.acked)
      BY <2>1, <2>2 DEF ObsType, OwnType, Attribution
    <2>5. req # None => req.tx \in Tx /\ req.gen <= c.gen
      BY <2>1 DEF ReqTypes, ReqType, RequestInv
    <2>6. PermitTypeOK
      BY <2>1, <2>2, <2>3, <2>4, <2>5 DEF PermitTypeOK, ReqTypes, Ordered
    <2>7. BaselineIsTrue
      BY <2>1, NewsAreHeardSoon DEF BaselineIsTrue, ClosedBaseline, NewsInv
    <2>8. AcknowledgedIsServed
      BY <2>1 DEF AcknowledgedIsServed, RequestInv, Published
    <2>9. QED
      BY <2>6, <2>7, <2>8 DEF BeliefsAreTrue
  <1>2. QED
    BY <1>1, PermitInvariant, PTL

\* An accepted opening that nothing contradicted is the window the bridge has open, or the
\* window has ended, or news of another are on their way (_is_valid_open_candidate).
THEOREM AcceptedWindowHolds == Spec => []AcceptedWindowIsOurs
  <1>1. PermitInv => AcceptedWindowIsOurs
    <2> SUFFICES ASSUME PermitInv, c.own # None, c.own.acked, c.foreign <= c.own.gen,
                        join # None, ~OpeningHeardSoon
                 PROVE  join = c.own.tx
      BY DEF AcceptedWindowIsOurs
    <2>1. c \in ObsType /\ Attribution(c) /\ NewsInv /\ IdleInv
      BY DEF PermitInv, Observed
    <2>2. subscribed
      BY <2>1 DEF IdleInv, Fresh
    <2>3. c.info # None /\ (c.info.open => Explained(c))
      BY <2>1 DEF Attribution
    <2>4. c.info.open /\ c.info.end = join
      BY <2>1, <2>2, <2>3, NewsAreHeardSoon DEF NewsInv
    <2>5. c.foreign \in Nat /\ c.own.gen \in Nat
      BY <2>1 DEF ObsType, OwnType
    <2>6. QED
      BY <2>3, <2>4, <2>5 DEF Explained
  <1>2. QED
    BY <1>1, PermitInvariant, PTL

-----------------------------------------------------------------------------
(* The client implements the barriers that the runtime is specified on. *)

\* The request, and the baseline, as the abstract module sees them.
Asked    == IF Published THEN req.kind ELSE "none"
Baseline == IF ~ClosedBaseline THEN "no" ELSE IF c.aged THEN "aged" ELSE "yes"

\* The baseline by the proof.
ProvedBy == Baseline = IF c.proof > 0 THEN IF c.aged THEN "aged" ELSE "yes" ELSE "no"

\* The invariant makes the proof all there is to the baseline.
LEMMA ProvedIs == PermitInv => ProvedBy
  BY BaselineIsProof DEF Baseline, ProvedBy

\* A message is heard, renews the baseline or changes nothing.
LEMMA ReceiveKeepsThePromise ==
    ASSUME PermitInv, PermitInv', NEW late \in BOOLEAN, Receive(late)
    PROVE  [Promise!BarrierNext]_(Promise!barrierVars)
  <1>1. /\ subscribed /\ UNCHANGED <<subscribed, external, count>> /\ SameRequest
    BY ReceiveIs
  <1>2. PICK s : Receives(s, Head(toClient))
    BY ReceiveIs
  <1>3. Asked' = Asked /\ (Asked = "none" <=> ~Published)
    <2>1. req # None => req.kind \in {"open", "close"}
      BY DEF PermitInv, ReqTypes, ReqType
    <2>2. QED
      BY <1>1, <2>1 DEF SameRequest, Asked, Published
  <1>4. taint \in Notes /\ (~Published => taint = "clean")
    BY DEF PermitInv, ReqTypes, TaintInv
  <1>5. taint' = IF Published THEN Promise!Worse(taint, s.note) ELSE "clean"
    BY <1>2 DEF Receives
  <1>6. c \in ObsType /\ c' \in ObsType /\ c.aged \in BOOLEAN /\ c'.aged \in BOOLEAN
    BY <1>2 DEF PermitInv, Observed, Receives, ObsType
  <1>7. CASE s.note \in {"opened", "unsafe"}
    <2>1. s.proof = 0
      BY <1>2, <1>7 DEF Receives, Hears
    <2>2. c'.proof = 0
      BY <1>2, <2>1 DEF Receives, SameNews
    <2>3. Baseline' = "no"
      BY <2>2, BaselineIsProof DEF Baseline, ClosedBaseline
    <2>4. taint' = IF Asked = "none" THEN "clean" ELSE Promise!Worse(taint, s.note)
      BY <1>3, <1>5
    <2>5. Promise!Hear
      BY <1>3, <1>7, <2>3, <2>4 DEF Promise!Hear, Asked, Baseline
    <2>6. QED
      BY <2>5 DEF Promise!BarrierNext
  <1>8. CASE s.note = "clean"
    <2>1. taint' = taint
      BY <1>4, <1>5, <1>8 DEF Promise!Worse, Notes
    <2>2. s.proof = c.proof /\ s.aged \in {c.aged, FALSE}
      BY <1>2, <1>8 DEF Receives, Hears
    <2>3. c'.proof = c.proof /\ c'.aged \in {c.aged, FALSE}
      <3>1. c'.proof = s.proof /\ c'.aged = s.aged
        BY <1>2 DEF Receives, SameNews
      <3>2. QED
        BY <2>2, <3>1, Zenon
    <2>4. Baseline = IF c.proof > 0 THEN IF c.aged THEN "aged" ELSE "yes" ELSE "no"
      BY ProvedIs DEF ProvedBy
    <2>5. Baseline' = IF c'.proof > 0 THEN IF c'.aged THEN "aged" ELSE "yes" ELSE "no"
      <3>1. ProvedBy'
        BY ProvedIs, PTL
      <3>2. QED
        BY <3>1 DEF ProvedBy
    <2>6. Baseline' = Baseline \/ (Baseline = "aged" /\ Baseline' = "yes")
      <3>1. CASE c'.aged = c.aged
        BY <2>3, <2>4, <2>5, <3>1
      <3>2. CASE ~c'.aged /\ c.aged
        BY <2>3, <2>4, <2>5, <3>2
      <3>3. QED
        BY <1>6, <2>3, <3>1, <3>2
    <2>7. CASE Baseline' = Baseline
      BY <1>3, <2>1, <2>7 DEF Promise!barrierVars, Asked, Baseline
    <2>8. CASE Baseline = "aged" /\ Baseline' = "yes"
      <3>1. Promise!Lapse
        BY <1>3, <2>1, <2>8 DEF Promise!Lapse, Asked, Baseline
      <3>2. QED
        BY <3>1 DEF Promise!BarrierNext
    <2>9. QED
      BY <2>6, <2>7, <2>8
  <1>9. QED
    BY <1>2, <1>7, <1>8 DEF Receives, Notes

\* What the actions that send or settle a request are to the abstract module.
LEMMA RequestsKeepThePromise ==
    ASSUME PermitInv, PermitInv',
           OpenJoin \/ OpenJoinProved \/ CloseJoin \/ PublishCloseJoin \/ CloseJoinProved
           \/ JoinRequestFails \/ BaselineAges
    PROVE  [Promise!BarrierNext]_(Promise!barrierVars)
  <1>1. /\ c \in ObsType /\ c.proof \in Nat /\ c.aged \in BOOLEAN /\ req \in ReqType \cup {None}
        /\ taint \in Notes /\ RequestInv /\ TaintInv
    BY DEF PermitInv, Observed, ObsType, ReqTypes
  <1>2. c.unsafe \in Nat /\ c.foreign \in Nat /\ (req # None => req \in ReqType /\ req.gen \in Nat)
    BY <1>1 DEF ObsType, ReqType
  <1>3. ProvedBy /\ ProvedBy'
    BY ProvedIs, PTL
  <1>4. CASE OpenJoin
    <2>1. req = None /\ ClosedBaseline /\ ~c.aged /\ c'.proof = 0 /\ taint' = "clean"
      BY <1>1, <1>4 DEF OpenJoin, ObsType
    <2>2. req' = [kind |-> "open", tx |-> count.requests + 1, gen |-> c.gen, stage |-> "ack"]
      BY <1>4 DEF OpenJoin
    <2>3. req' \in ReqType \cup {None}
      BY DEF PermitInv, ReqTypes
    <2>4. req' # None /\ req'.kind = "open" /\ req'.stage = "ack"
      <3>1. req'.kind = "open" /\ req'.stage = "ack"
        BY <2>2
      <3>2. count.requests + 1 \in Tx /\ c.gen \in Nat
        <4>1. count \in CountType /\ c.gen \in Nat
          BY <1>1 DEF PermitInv, ReqTypes, ObsType
        <4>2. count.requests \in Nat /\ count.requests < MaxRequests /\ MaxRequests \in Nat
          BY <1>4, <4>1, PermitConstants DEF OpenJoin, CountType
        <4>3. QED
          BY <4>1, <4>2 DEF Tx
      <3>3. req' \in ReqType
        BY <2>2, <3>2 DEF ReqType
      <3>4. QED
        BY <3>1, <3>3, PermitConstants
    <2>5. Asked = "none" /\ Asked' = "open"
      BY <2>1, <2>4 DEF Asked, Published
    <2>6. Baseline = "yes" /\ Baseline' = "no"
      BY <1>3, <2>1 DEF Baseline, ProvedBy
    <2>7. Promise!PublishOpen
      BY <2>1, <2>5, <2>6 DEF Promise!PublishOpen, Asked, Baseline
    <2>8. QED
      BY <2>7 DEF Promise!BarrierNext
  <1>5. CASE OpenJoinProved
    <2>1. /\ req # None /\ req.kind = "open" /\ req.stage = "acked"
          /\ c.unsafe <= req.gen /\ c.foreign <= req.gen
          /\ req' = None /\ taint' = "clean" /\ c' = c
      BY <1>5 DEF OpenJoinProved
    <2>2. taint = "clean"
      BY <1>1, <1>2, <2>1 DEF TaintInv, Notes
    <2>3. Asked = "open" /\ Asked' = "none"
      BY <2>1 DEF Asked, Published
    <2>4. Baseline' = Baseline
      BY <1>3, <2>1 DEF ProvedBy
    <2>5. Promise!OpenProves
      BY <2>1, <2>2, <2>3, <2>4 DEF Promise!OpenProves, Asked, Baseline
    <2>6. QED
      BY <2>5 DEF Promise!BarrierNext
  <1>6. CASE CloseJoin
    <2>1. /\ req = None /\ req'.stage = "online" /\ taint' = taint /\ c' = c
      BY <1>6 DEF CloseJoin
    <2>2. Asked' = Asked
      BY <2>1 DEF Asked, Published
    <2>3. Baseline' = Baseline
      BY <1>3, <2>1 DEF ProvedBy
    <2>4. QED
      BY <2>1, <2>2, <2>3 DEF Promise!barrierVars, Asked, Baseline
  <1>7. CASE PublishCloseJoin
    <2> DEFINE r == [req EXCEPT !.stage = "ack", !.gen = c.gen]
    <2>1. /\ req # None /\ req \in ReqType /\ req.stage = "online" /\ taint' = "clean" /\ c' = c
          /\ req' = r
      BY <1>1, <1>7 DEF PublishCloseJoin
    <2>2. req.kind = "close" /\ c.gen \in Nat
      BY <1>1, <2>1 DEF RequestInv, ReqType, ObsType
    <2>3. r \in ReqType /\ r.kind = "close" /\ r.stage = "ack"
      BY <2>1, <2>2 DEF ReqType
    <2>4. r # None
      BY <2>3, PermitConstants
    <2> HIDE DEF r
    <2>5. Asked = "none" /\ Asked' = "close"
      BY <2>1, <2>3, <2>4 DEF Asked, Published
    <2>6. Baseline' = Baseline
      BY <1>3, <2>1 DEF ProvedBy
    <2>7. Promise!PublishClose
      BY <2>1, <2>5, <2>6 DEF Promise!PublishClose, Asked, Baseline
    <2>8. QED
      BY <2>7 DEF Promise!BarrierNext
  <1>8. CASE CloseJoinProved
    <2>1. /\ req # None /\ req.kind = "close" /\ req.stage = "acked" /\ c.unsafe <= req.gen
          /\ c.info # None /\ req' = None /\ taint' = "clean"
      BY <1>8 DEF CloseJoinProved
    <2>2. taint # "unsafe"
      BY <1>1, <1>2, <2>1 DEF TaintInv
    <2>3. Asked = "close" /\ Asked' = "none"
      BY <2>1 DEF Asked, Published
    <2>4. c'.proof > 0 /\ ~c'.aged
      <3> DEFINE g == c.info.gen
      <3>1. g \in Nat /\ g >= 1
        BY <1>1, <2>1 DEF PermitInv, Observed, Ordered, ObsType, InfoType
      <3>2. c' = [c EXCEPT !.proof = g, !.own = None, !.aged = FALSE]
        BY <1>8 DEF CloseJoinProved
      <3> HIDE DEF g
      <3>3. c'.proof = g /\ c'.aged = FALSE
        BY <1>1, <3>2 DEF ObsType
      <3>4. QED
        BY <3>1, <3>3
    <2>5. Baseline' = "yes"
      BY <1>3, <2>4 DEF ProvedBy
    <2>6. Promise!CloseProves
      BY <2>1, <2>2, <2>3, <2>5 DEF Promise!CloseProves, Asked, Baseline
    <2>7. QED
      BY <2>6 DEF Promise!BarrierNext
  <1>9. CASE JoinRequestFails
    <2>1. req # None /\ req \in ReqType /\ req' = None /\ taint' = "clean" /\ c' = c
      BY <1>1, <1>9 DEF JoinRequestFails
    <2>2. Asked' = "none"
      BY <2>1 DEF Asked, Published
    <2>3. Baseline' = Baseline
      BY <1>3, <2>1 DEF ProvedBy
    <2>4. CASE Published
      <3>1. Asked # "none"
        BY <2>1, <2>4 DEF Asked, ReqType
      <3>2. Promise!RequestFails
        BY <2>1, <2>2, <2>3, <3>1 DEF Promise!RequestFails, Asked, Baseline
      <3>3. QED
        BY <3>2 DEF Promise!BarrierNext
    <2>5. CASE ~Published
      <3>1. Asked = "none" /\ taint = "clean"
        BY <1>1, <2>5 DEF Asked, TaintInv
      <3>2. QED
        BY <2>1, <2>2, <2>3, <3>1 DEF Promise!barrierVars, Asked, Baseline
    <2>6. QED
      BY <2>4, <2>5
  <1>10. CASE BaselineAges
    <2>1. /\ c.proof > 0 /\ ~c.aged /\ req' = req /\ taint' = taint
          /\ c' = [c EXCEPT !.aged = TRUE]
      BY <1>10 DEF BaselineAges
    <2>2. c'.proof = c.proof /\ c'.aged
      BY <1>1, <2>1 DEF ObsType
    <2>3. Baseline = "yes" /\ Baseline' = "aged"
      BY <1>3, <2>1, <2>2 DEF ProvedBy
    <2>4. Asked' = Asked
      BY <2>1 DEF Asked, Published
    <2>5. Promise!Lapse
      BY <2>1, <2>3, <2>4 DEF Promise!Lapse, Asked, Baseline
    <2>6. QED
      BY <2>5 DEF Promise!BarrierNext
  <1>11. QED
    BY <1>4, <1>5, <1>6, <1>7, <1>8, <1>9, <1>10

\* Setting up, shutting down, and what the bridge does unseen.
LEMMA UnseenKeepsThePromise ==
    ASSUME PermitInv, PermitInv',
           Setup \/ Shutdown \/ Serve \/ WindowEnds \/ Foreign \/ Restart \/ Malformed \/ Reconnect
           \/ UNCHANGED vars
    PROVE  [Promise!BarrierNext]_(Promise!barrierVars)
  <1>1. ProvedBy /\ ProvedBy'
    BY ProvedIs, PTL
  <1>2. CASE Setup
    <2>1. c = Fresh /\ c' = Fresh /\ req' = req /\ taint' = taint
      BY <1>2 DEF Setup, PermitInv, IdleInv
    <2>2. Baseline' = Baseline
      BY <1>1, <2>1 DEF ProvedBy
    <2>3. Asked' = Asked
      BY <2>1 DEF Asked, Published
    <2>4. QED
      BY <2>1, <2>2, <2>3 DEF Promise!barrierVars, Asked, Baseline
  <1>3. CASE Shutdown
    <2>1. c' = Fresh /\ req' = None /\ taint' = "clean"
      BY <1>3 DEF Shutdown
    <2>2. Baseline' = "no"
      BY <1>1, <2>1, FreshIsObserved DEF ProvedBy
    <2>3. Asked' = "none"
      BY <2>1 DEF Asked, Published
    <2>4. Promise!Forget
      BY <2>1, <2>2, <2>3 DEF Promise!Forget, Asked, Baseline
    <2>5. QED
      BY <2>4 DEF Promise!BarrierNext
  <1>4. CASE Serve \/ WindowEnds \/ Foreign \/ Restart \/ Malformed \/ Reconnect \/ UNCHANGED vars
    <2>1. c' = c /\ req' = req /\ taint' = taint
      BY <1>4 DEF Serve, WindowEnds, Foreign, Restart, Malformed, Reconnect, Frame, vars
    <2>2. Baseline' = Baseline
      BY <1>1, <2>1 DEF ProvedBy
    <2>3. Asked' = Asked
      BY <2>1 DEF Asked, Published
    <2>4. QED
      BY <2>1, <2>2, <2>3 DEF Promise!barrierVars, Asked, Baseline
  <1>5. QED
    BY <1>2, <1>3, <1>4

\* The client keeps its word to the runtime: each of its steps is one of the barriers'
\* or none (async_open_join, async_reconcile_join_closed, current_closed_baseline).
THEOREM ClientImplementsBarriers == Spec => ImplementsJoinBarrier
  <1>1. Init => Promise!BarrierInit
    <2> SUFFICES ASSUME Init PROVE Promise!BarrierInit
      OBVIOUS
    <2>1. Asked = "none" /\ taint = "clean"
      BY DEF Init, Asked, Published
    <2>2. Baseline = "no"
      BY PermitStarts, ProvedIs, FreshIsObserved DEF Init, ProvedBy
    <2>3. QED
      BY <2>1, <2>2 DEF Promise!BarrierInit, Asked, Baseline
  <1>2. PermitInv /\ PermitInv' /\ [Next]_vars => [Promise!BarrierNext]_(Promise!barrierVars)
    <2> SUFFICES ASSUME PermitInv, PermitInv', [Next]_vars
                 PROVE  [Promise!BarrierNext]_(Promise!barrierVars)
      OBVIOUS
    <2>1. ASSUME NEW late \in BOOLEAN, Receive(late)
          PROVE  [Promise!BarrierNext]_(Promise!barrierVars)
      BY <2>1, ReceiveKeepsThePromise
    <2>2. CASE OpenJoin \/ OpenJoinProved \/ CloseJoin \/ PublishCloseJoin \/ CloseJoinProved
               \/ JoinRequestFails \/ BaselineAges
      BY <2>2, RequestsKeepThePromise
    <2>3. CASE Setup \/ Shutdown \/ Serve \/ WindowEnds \/ Foreign \/ Restart \/ Malformed
               \/ Reconnect \/ UNCHANGED vars
      BY <2>3, UnseenKeepsThePromise
    <2>4. QED
      BY <2>1, <2>2, <2>3 DEF Next
  <1>3. QED
    BY <1>1, <1>2, PermitInvariant, PTL DEF Spec, ImplementsJoinBarrier, Promise!BarrierSpec

-----------------------------------------------------------------------------
(* PART 2: the physical probe. *)

(* The inductive invariant. *)

Codes  == {"drift", "other"}
Stages == {"idle", "load", "down", "resolve", "commit", "dispatch", "safety", "persist", "stop"}

\* A sequence that may be waited for is one of those that are used.
Sound(r) == RecordValid(r) /\ r.seq <= r.used

\* What is stored, remembered, or left by a doubtful write.
StoreInv ==
    /\ \A r \in {disk, record, other.rec} \ {NoRecord} : Sound(r)
    /\ other.kind \in {"none", "late", "behind", "temp", "torn"}
    /\ other = [kind |-> other.kind, rec |-> other.rec]
    /\ other.kind = "none" => other.rec = NoRecord
    /\ other.kind \in {"late", "temp"} => other.rec # NoRecord
    /\ device \in {"intended", "challenge"} /\ attempted \in BOOLEAN
    /\ air \in Nat \X Nat /\ due \in BOOLEAN /\ left \in 0 .. 3 /\ starts \in 0 .. MaxStarts

\* What the latches say of the rest: without remediation the file is what is remembered.
Latches ==
    /\ core \in [rem : BOOLEAN, safe : BOOLEAN, blocked : BOOLEAN, over : {"no", "queued", "done"},
                 stopping : BOOLEAN, issued : BOOLEAN]
    /\ core.over # "no" => core.rem
    /\ core.issued => core.stopping /\ (device = "challenge" => attempted)
Known == ~core.rem => record = disk /\ other = NoOther
Scheduling ==
    /\ timer \in BOOLEAN
    /\ timer => /\ ~core.rem /\ ~core.stopping
                /\ record # NoRecord /\ record.phase \in Active \cup {"result"}

\* What a task knows at its await.
LoadFits == record = NoRecord /\ core.over # "done" /\ (core.rem => core.over = "queued")

ResolveFits ==
    /\ task.for \in {"arm", "resume", "ack", "proof"}
    /\ task.for = "arm"    => record = NoRecord \/ record.phase = "quiescent"
    /\ task.for = "resume" => record # NoRecord /\ record.phase \in Before
    /\ task.for = "ack"    => record # NoRecord /\ record.phase = "result"
    /\ task.for = "proof"  => record # NoRecord /\ record.phase \in {"physical1", "physical2"}

\* The phase that a write brings, by what follows it.
Brings(then) ==
    CASE then = "arm"                            -> {"physical1"}
      [] then = "resume"                         -> {"physical1", "physical2"}
      [] then = "frame"                          -> {"physical2"}
      [] then = "dispatch"                       -> {"noop", "challenge"}
      [] then \in {"restore", "recover", "stop"} -> {"restore"}
      [] then \in {"safe", "result"}             -> {"result"}
      [] then = "ack"                            -> {"quiescent"}
Follows == {"arm", "resume", "frame", "dispatch", "restore", "recover", "stop", "safe", "result", "ack"}

CommitFits ==
    /\ task.then \in Follows /\ task.code \in Codes
    /\ Sound(task.next) /\ task.next.phase \in Brings(task.then)
    /\ task.then = "stop" => core.stopping
    /\ core.rem /\ ~core.stopping => core.over = "queued"

DispatchFits ==
    /\ record # NoRecord /\ record.phase \in {"noop", "challenge", "restore"}
    /\ ~core.stopping => timer \/ core.over = "queued"

SafetyFits ==
    /\ record # NoRecord /\ core.rem /\ task.code \in Codes
    /\ task.persist \in BOOLEAN /\ task.allow \in BOOLEAN /\ (task.allow => core.stopping)

PersistFits == record # NoRecord /\ core.rem /\ task.code \in Codes /\ task.owed \in BOOLEAN

TaskInv ==
    /\ task.at \in Stages
    /\ task.at = "load"     => LoadFits
    /\ task.at = "resolve"  => ResolveFits
    /\ task.at = "commit"   => CommitFits
    /\ task.at = "dispatch" => DispatchFits
    /\ task.at = "safety"   => SafetyFits
    /\ task.at = "persist"  => PersistFits
    /\ task.at \in {"stop", "down"} => core.stopping

\* A command that may still be invoked is that of the dispatch that waits for it.
CommandRecords == [op : Nat, gen : Nat, phase : Active \cup Ended, seq : Nat, valid : BOOLEAN]
SentInv ==
    /\ sent \subseteq CommandRecords
    /\ sent = {} \/ \E o : sent = {o}
    /\ \A o \in sent : o.valid => task.at = "dispatch" /\ o = Command(record)

\* A record that leads to the restore of the challenged valve, and waits for no response
\* but that of a restore that has not been executed.
Owes(r) ==
    /\ r.owed /\ r.op = disk.op
    /\ air[2] <= r.used
    /\ r.phase = "restore" => air # <<r.op, r.seq>>

\* While the valve has the challenge target, everything owes its restore.
StoreOwes ==
    device = "challenge" =>
        /\ disk # NoRecord
        /\ other.kind \notin {"none", "torn"} => other.rec # NoRecord
        /\ \A r \in {disk, record, other.rec} \ {NoRecord} : Owes(r)
TaskOwes ==
    device = "challenge" =>
        /\ task.at = "commit" => Owes(task.next) /\ task.then # "dispatch"
        /\ task.at = "persist" => task.owed

\* Until a restore was tried somebody will try one.
WatchInv ==
    device = "challenge" /\ ~attempted =>
        /\ task.at = "idle" /\ record # NoRecord /\ ~core.stopping => timer \/ core.over = "queued"
        /\ task.at = "persist" => core.stopping
        /\ task.at = "down" => record = NoRecord

\* What the task and the latches are, and what they promise.
Led ==
    /\ Latches /\ Scheduling /\ (task.at # "load" => Known)
    /\ TaskInv /\ TaskOwes /\ WatchInv

ProbeInv == StoreInv /\ StoreOwes /\ SentInv /\ Led

-----------------------------------------------------------------------------
(* The recovery record. *)

\* A sound record is a record, and owes a restore in the phases of one.
LEMMA SoundRecord ==
    ASSUME NEW r, Sound(r)
    PROVE  /\ r \in RecordType /\ r # NoRecord /\ r.op \in Nat \ {0} /\ r.used \in Nat /\ r.seq \in Nat
           /\ r.phase \in Active \cup Ended
           /\ r.phase \in {"challenge", "restore"} => r.owed
           /\ r.phase \in Before \cup {"result", "quiescent"} => ~r.owed
           /\ r.owed \in BOOLEAN /\ r.used <= MaxSequences /\ r.tries <= MaxRestores
  <1>1. r \in RecordType
    BY DEF Sound, RecordValid
  <1>2. r # NoRecord
    BY <1>1, NoRecordApart
  <1>3. /\ r.op \in Nat \ {0} /\ r.used \in Nat /\ r.seq \in Nat /\ r.owed \in BOOLEAN
        /\ r.phase \in Active \cup Ended /\ r.used <= MaxSequences /\ r.tries <= MaxRestores
    BY <1>1, ProbeBounds DEF RecordType
  <1>4. r.phase \in {"challenge", "restore"} => r.owed
    BY DEF Sound, RecordValid, ActiveValid, Active
  <1>5. r.phase \in Before \cup {"result", "quiescent"} => ~r.owed
    BY DEF Sound, RecordValid, ActiveValid, ResultValid, Active, Before
  <1>6. QED
    BY <1>1, <1>2, <1>3, <1>4, <1>5

\* Remediation can be entered from any record, at any limit.
LEMMA RemediationSound ==
    ASSUME NEW r, Sound(r), NEW code \in Codes, NEW owed \in BOOLEAN
    PROVE  LET n == RemediationRecord(r, code, owed)
           IN  /\ Sound(n) /\ n.op = r.op /\ n.used = r.used /\ n.phase = "remediation" /\ n.owed = owed
  <1> DEFINE n == RemediationRecord(r, code, owed)
  <1>1. r \in RecordType
    BY DEF Sound, RecordValid
  <1>2. n \in RecordType
    <2>1. PICK g : g = IF r.gen < MaxGeneration THEN r.gen + 1 ELSE r.gen
      OBVIOUS
    <2>2. g \in 1 .. MaxGeneration
      BY <1>1, <2>1, ProbeBounds DEF RecordType
    <2>3. 0 \in 0 .. MaxSequences /\ "remediation" \in Active \cup Ended
          /\ code \in {"none", "drift", "other"} /\ "none" \in {"none", "verified", "restored", "safe"}
      BY ProbeBounds DEF Ended, Codes
    <2>4. n = [r EXCEPT !.phase = "remediation", !.gen = g, !.owed = owed, !.after = FALSE,
                        !.seq = 0, !.outcome = "none", !.code = code]
      BY <2>1 DEF RemediationRecord
    <2>5. QED
      BY <1>1, <2>2, <2>3, <2>4 DEF RecordType
  <1>3. /\ n.op = r.op /\ n.used = r.used /\ n.phase = "remediation" /\ n.owed = owed
        /\ n.seq = 0 /\ n.outcome = "none" /\ n.code = code /\ ~n.after
    BY <1>1 DEF RecordType, RemediationRecord
  <1>4. r.used + MaxUnclaimed <= MaxSequences
    BY <1>1, ProbeBounds DEF Sound, RecordValid, Reserve, PostNoop, PostChallenge, RecordType,
                             Active, Ended, Before
  <1>5. Reserve(n) = MaxUnclaimed
    BY <1>3 DEF Reserve, Ended
  <1>6. RecordValid(n)
    BY <1>2, <1>3, <1>4, <1>5 DEF RecordValid, Active, Before, Codes
  <1>7. n.seq <= n.used
    BY <1>1, <1>3 DEF RecordType
  <1>8. QED
    BY <1>3, <1>6, <1>7 DEF Sound

\* Another boot finds the same record, bound to no boot.
LEMMA ElsewhereSound ==
    ASSUME NEW r, Sound(r)
    PROVE  LET n == Elsewhere(r)
           IN  Sound(n) /\ n.op = r.op /\ n.used = r.used /\ n.seq = r.seq /\ n.phase = r.phase
               /\ n.owed = r.owed
  <1> DEFINE n == Elsewhere(r)
  <1>1. r \in RecordType /\ n = [r EXCEPT !.here = FALSE]
    BY NoRecordApart DEF Sound, RecordValid, Elsewhere
  <1>2. n \in RecordType
    BY <1>1 DEF RecordType
  <1>3. /\ n.op = r.op /\ n.used = r.used /\ n.seq = r.seq /\ n.phase = r.phase /\ n.owed = r.owed
        /\ n.outcome = r.outcome /\ n.code = r.code /\ n.after = r.after /\ n.tries = r.tries
        /\ n.proofs = r.proofs
    BY <1>1 DEF RecordType
  <1>4. Reserve(n) = Reserve(r)
    BY <1>3 DEF Reserve
  <1>5. ActiveValid(r) => ActiveValid(n)
    BY <1>3 DEF ActiveValid, Proved
  <1>6. ResultValid(r) => ResultValid(n)
    BY <1>3 DEF ResultValid, Proved
  <1>7. RecordValid(n)
    BY <1>2, <1>3, <1>4, <1>5, <1>6 DEF RecordValid, Sound
  <1>8. QED
    BY <1>3, <1>7 DEF Sound

\* A transition that the validation accepts waits for a sequence that is used.
LEMMA TransitionSound ==
    ASSUME NEW r, Sound(r)
    PROVE  /\ RecordValid(ResumeRecord(r)) /\ r.phase \in Before =>
                  Sound(ResumeRecord(r)) /\ ResumeRecord(r).phase = r.phase
           /\ RecordValid(QuiescentRecord(r)) =>
                  Sound(QuiescentRecord(r)) /\ QuiescentRecord(r).phase = "quiescent"
           /\ \A outcome, code : RecordValid(ResultRecord(r, outcome, code)) =>
                  Sound(ResultRecord(r, outcome, code)) /\ ResultRecord(r, outcome, code).phase = "result"
  <1>1. r \in RecordType /\ r.used \in Nat /\ r.seq \in Nat /\ r.seq <= r.used
    BY SoundRecord DEF Sound
  <1>2. /\ ResumeRecord(r).seq <= ResumeRecord(r).used
        /\ r.phase \in Before => ResumeRecord(r).phase = r.phase
    BY <1>1 DEF ResumeRecord, RecordType
  <1>3. QuiescentRecord(r).seq <= QuiescentRecord(r).used /\ QuiescentRecord(r).phase = "quiescent"
    BY <1>1 DEF QuiescentRecord, RecordType
  <1>4. ASSUME NEW outcome, NEW code
        PROVE  /\ ResultRecord(r, outcome, code).seq <= ResultRecord(r, outcome, code).used
               /\ ResultRecord(r, outcome, code).phase = "result"
    BY <1>1 DEF ResultRecord, RecordType
  <1>5. QED
    BY <1>2, <1>3, <1>4 DEF Sound

\* A proof that the validation accepts moves the record to the phase it proves the way to.
LEMMA ProofSound ==
    ASSUME NEW r, Sound(r), r.phase \in Before, RecordValid(AfterProof(r))
    PROVE  /\ Sound(AfterProof(r))
           /\ r.phase = "physical1" => AfterProof(r).phase = "physical2"
           /\ r.phase = "physical2" => AfterProof(r).phase = "noop"
           /\ r.phase = "noop" => AfterProof(r).phase = "challenge"
  <1>1. r \in RecordType /\ r.used \in Nat /\ r.seq \in Nat /\ r.seq <= r.used
    BY SoundRecord DEF Sound
  <1>2. AfterProof(r).seq <= AfterProof(r).used
    BY <1>1 DEF AfterProof, RecordType, Before
  <1>3. /\ r.phase = "physical1" => AfterProof(r).phase = "physical2"
        /\ r.phase = "physical2" => AfterProof(r).phase = "noop"
        /\ r.phase = "noop" => AfterProof(r).phase = "challenge"
    BY <1>1 DEF AfterProof, RecordType
  <1>4. QED
    BY <1>2, <1>3 DEF Sound

\* An armed record starts with the first turn of the knob.
LEMMA ArmSound ==
    ASSUME NEW op, RecordValid(ArmRecord(op))
    PROVE  Sound(ArmRecord(op)) /\ ArmRecord(op).phase = "physical1"
  BY DEF Sound, ArmRecord

\* A claimed restore waits for the response with a sequence that was not used before.
LEMMA RestoreSound ==
    ASSUME NEW r \in RecordType, NEW code, NEW after, NEW n,
           \/ n = RestoreRecord(r, code, after)
           \/ n = [RestoreRecord(r, code, after) EXCEPT !.here = TRUE]
    PROVE  /\ n.phase = "restore" /\ n.owed = TRUE /\ n.op = r.op
           /\ n.used = r.used + 1 /\ n.seq = r.used + 1
  BY DEF RestoreRecord, RecordType

\* A persisted restore that another boot takes over owes and waits for the same.
LEMMA ReuseSound ==
    ASSUME NEW r \in RecordType, r.phase = "restore"
    PROVE  LET n == ReuseRecord(r)
           IN  /\ n.phase = "restore" /\ n.owed = r.owed /\ n.op = r.op /\ n.used = r.used /\ n.seq = r.seq
  BY DEF ReuseRecord, RecordType

-----------------------------------------------------------------------------
(* Where a task goes. *)

\* What a step has settled before it decides where its task goes.
Ground ==
    /\ StoreInv' /\ StoreOwes' /\ Latches
    /\ core.issued /\ device' = "challenge" => attempted'
    /\ ~core.rem => record' = disk' /\ other' = NoOther

\* While the valve is challenged, a remembered record owes its restore.
LEMMA IntendedUnlessOwed ==
    ASSUME StoreInv, StoreOwes, record # NoRecord, ~record.owed
    PROVE  device = "intended"
  BY DEF StoreInv, StoreOwes, Owes

\* Entering remediation asks for the restore that is owed, or owes none.
LEMMA EnterRemediationLed ==
    ASSUME Ground, NEW r, (r = NoRecord) <=> (record' = NoRecord), NEW code \in Codes,
           NEW owed \in BOOLEAN, device' = "challenge" /\ r # NoRecord => owed,
           EnterRemediation(r, code, owed)
    PROVE  Led'
  <1>1. /\ core' = [core EXCEPT !.rem = TRUE, !.safe = TRUE] /\ timer' = FALSE
        /\ task' = IF r = NoRecord THEN Rest ELSE IF owed THEN Safety(code, TRUE, FALSE)
                                                  ELSE Persist(code, FALSE)
    BY DEF EnterRemediation, Latched
  <1>2. Latches' /\ core'.rem
    BY <1>1 DEF Ground, Latches
  <1>3. Scheduling' /\ Known'
    BY <1>1, <1>2 DEF Scheduling, Known
  <1>4. CASE r = NoRecord
    BY <1>1, <1>2, <1>3, <1>4 DEF Led, TaskInv, TaskOwes, WatchInv, Rest, Stages
  <1>5. CASE r # NoRecord /\ owed
    <2>1. task' = Safety(code, TRUE, FALSE) /\ record' # NoRecord
      BY <1>1, <1>5
    <2>2. TaskInv' /\ TaskOwes' /\ WatchInv'
      BY <1>2, <2>1 DEF TaskInv, TaskOwes, WatchInv, Safety, SafetyFits, Stages
    <2>3. QED
      BY <1>2, <1>3, <2>2 DEF Led
  <1>6. CASE r # NoRecord /\ ~owed
    <2>1. task' = Persist(code, FALSE) /\ record' # NoRecord /\ device' # "challenge"
      BY <1>1, <1>6
    <2>2. TaskInv' /\ TaskOwes' /\ WatchInv'
      BY <1>2, <2>1 DEF TaskInv, TaskOwes, WatchInv, Persist, PersistFits, Stages
    <2>3. QED
      BY <1>2, <1>3, <2>2 DEF Led
  <1>7. QED
    BY <1>4, <1>5, <1>6

\* What a task commits, whoever begins it.
CommitReady(t) ==
    /\ t.at = "commit"
    /\ t.then \in Follows /\ t.code \in Codes
    /\ Sound(t.next) /\ t.next.phase \in Brings(t.then)
    /\ t.then = "stop" => core.stopping
    /\ core.rem /\ ~core.stopping => core.over = "queued"

\* A claimed restore is begun.
LEMMA ClaimLed ==
    ASSUME Ground, NEW n, NEW then \in {"restore", "recover", "stop"}, NEW code \in Codes,
           Sound(n), n.phase = "restore", device' = "challenge" => Owes(n)',
           then = "stop" => core.stopping,
           core.rem /\ ~core.stopping => core.over = "queued",
           task' = Commit(n, then, code),
           \/ core' = core /\ ~timer'
           \/ core' = [core EXCEPT !.safe = TRUE] /\ timer' = FALSE,
           timer' \in BOOLEAN
    PROVE  Led'
  <1>1. Latches' /\ Scheduling' /\ core'.rem = core.rem /\ core'.stopping = core.stopping
        /\ core'.over = core.over
    BY DEF Ground, Latches, Scheduling
  <1>2. Known'
    BY <1>1 DEF Known, Ground
  <1>3. n.phase \in Brings(then) /\ then \in Follows
    BY DEF Brings, Follows
  <1>4. TaskInv'
    BY <1>1, <1>3 DEF TaskInv, Commit, CommitFits, Stages
  <1>5. TaskOwes' /\ WatchInv'
    BY DEF TaskOwes, WatchInv, Commit
  <1>6. QED
    BY <1>1, <1>2, <1>4, <1>5 DEF Led

\* StartRestore, for the remembered record or for one that differs from it by a proof.
LEMMA StartRestoreLed ==
    ASSUME Ground, NEW r \in RecordType, NEW code \in Codes \cup {"none"}, ~core.rem,
           record' # NoRecord, record'.op = r.op, record'.used = r.used, StartRestore(r, code)
    PROVE  Led'
  <1>1. r # NoRecord /\ Named(code) \in Codes
    BY NoRecordApart DEF Named, Codes
  <1>2. PICK n : /\ n = RestoreRecord(r, code, r.after \/ code = "drift")
                 /\ IF r.tries < MaxRestores /\ left = 3 /\ RecordValid(n)
                    THEN Latched(Commit(n, "restore", Named(code)), [core EXCEPT !.safe = TRUE])
                    ELSE EnterRemediation(r, Named(code), TRUE)
    BY Zenon DEF StartRestore
  <1> PICK after : after = (r.after \/ code = "drift")
    OBVIOUS
  <1>a. n = RestoreRecord(r, code, after)
    BY <1>2
  <1>3. CASE r.tries < MaxRestores /\ left = 3 /\ RecordValid(n)
    <2>1. task' = Commit(n, "restore", Named(code)) /\ core' = [core EXCEPT !.safe = TRUE] /\ timer' = FALSE
      BY <1>2, <1>3 DEF Latched
    <2>2. n.phase = "restore" /\ n.owed = TRUE /\ n.op = r.op /\ n.used = r.used + 1 /\ n.seq = r.used + 1
      BY <1>a DEF RestoreRecord, RecordType
    <2>3. Sound(n)
      BY <1>3, <2>2 DEF Sound, RecordType
    <2>4. ASSUME device' = "challenge"
          PROVE  Owes(n)'
      <3>1. record'.op = disk'.op /\ air'[2] <= record'.used
        BY <2>4 DEF Ground, StoreOwes, Owes
      <3>2. air' \in Nat \X Nat
        BY DEF Ground, StoreInv
      <3>3. r.used \in Nat
        BY DEF RecordType
      <3>4. QED
        BY <2>2, <3>1, <3>2, <3>3 DEF Owes
    <2>5. QED
      BY <1>1, <2>1, <2>2, <2>3, <2>4, ClaimLed
  <1>4. CASE ~(r.tries < MaxRestores /\ left = 3 /\ RecordValid(n))
    <2>1. EnterRemediation(r, Named(code), TRUE)
      BY <1>2, <1>4
    <2>2. QED
      BY <1>1, <2>1, EnterRemediationLed
  <1>5. QED
    BY <1>3, <1>4

\* A write that owes nothing is begun: the valve has the intended target.
LEMMA CommitLed ==
    ASSUME Ground, NEW t, CommitReady(t), task' = t,
           device' = "challenge" => Owes(t.next)' /\ t.then # "dispatch",
           core' = core, timer' = timer, Scheduling'
    PROVE  Led'
  <1>1. Latches'
    BY DEF Ground, Latches
  <1>2. Known'
    BY DEF Known, Ground
  <1>3. TaskInv'
    BY DEF TaskInv, CommitReady, CommitFits, Stages
  <1>4. TaskOwes' /\ WatchInv'
    BY DEF TaskOwes, WatchInv, CommitReady
  <1>5. QED
    BY <1>1, <1>2, <1>3, <1>4 DEF Led

\* FailSafe, for the record that is remembered after the step.
LEMMA FailSafeLed ==
    ASSUME Ground, NEW r, r = record', r # NoRecord, r.phase \in Before, NEW code \in Codes,
           core.rem /\ ~core.stopping => core.over = "queued",
           timer' = timer /\ core' = core => Scheduling', FailSafe(r, code)
    PROVE  Led'
  <1>1. Sound(r)
    BY DEF Ground, StoreInv
  <1>2. device' # "challenge"
    BY <1>1, SoundRecord DEF Ground, StoreOwes, Owes
  <1>3. PICK n : n = ResultRecord(r, "safe", code)
    OBVIOUS
  <1>4. CASE r.here /\ left >= 2 /\ RecordValid(n) /\ ~core.stopping
    <2>1. task' = Commit(n, "safe", code) /\ core' = core /\ timer' = timer
      BY <1>3, <1>4 DEF FailSafe, Goes
    <2>2. Sound(n) /\ n.phase = "result"
      BY <1>1, <1>3, <1>4, TransitionSound
    <2>3. CommitReady(Commit(n, "safe", code))
      BY <2>2 DEF CommitReady, Commit, Follows, Brings
    <2>4. QED
      BY <1>2, <2>1, <2>3, CommitLed
  <1>5. CASE ~(r.here /\ left >= 2 /\ RecordValid(n) /\ ~core.stopping)
    <2>1. EnterRemediation(r, code, FALSE)
      BY <1>3, <1>5 DEF FailSafe
    <2>2. QED
      BY <1>2, <2>1, EnterRemediationLed
  <1>6. QED
    BY <1>4, <1>5

\* A task may end if nothing is owed, or a timer or a full queue goes on.
LEMMA RestLed ==
    ASSUME Ground, task' = Rest, core' = core, Scheduling',
           device' = "challenge" /\ ~attempted' /\ record' # NoRecord /\ ~core.stopping =>
               timer' \/ core.over = "queued"
    PROVE  Led'
  <1>1. Latches' /\ Known'
    BY DEF Ground, Latches, Known
  <1>2. TaskInv' /\ TaskOwes' /\ WatchInv'
    BY DEF TaskInv, TaskOwes, WatchInv, Rest, Stages
  <1>3. QED
    BY <1>1, <1>2 DEF Led

\* The commands of a stop are the last of the work.
LEMMA StopLed ==
    ASSUME Ground, task' = [at |-> "stop"], core' = core, Scheduling', core.stopping
    PROVE  Led'
  <1>1. Latches' /\ Known'
    BY DEF Ground, Latches, Known
  <1>2. TaskInv' /\ TaskOwes' /\ WatchInv'
    BY DEF TaskInv, TaskOwes, WatchInv, Stages
  <1>3. QED
    BY <1>1, <1>2 DEF Led

\* What the remembered record owes is asked for, whatever else is decided.
LEMMA NeedsRestoreLed ==
    ASSUME Ground, record' = record, NEW code \in Codes,
           EnterRemediation(record, code, NeedsRestore(record))
    PROVE  Led'
  <1>1. PICK owed : owed = NeedsRestore(record) /\ owed \in BOOLEAN
    BY DEF NeedsRestore
  <1>2. device' = "challenge" /\ record # NoRecord => owed
    BY <1>1 DEF NeedsRestore, Ground, StoreOwes, Owes
  <1>3. PICK r : r = record
    OBVIOUS
  <1>4. EnterRemediation(r, code, owed)
    BY <1>1, <1>3
  <1>5. QED
    BY <1>1, <1>2, <1>3, <1>4, EnterRemediationLed

\* Whatever competes with a probe ends it, or claims its restore.
LEMMA HandleCompetingLed ==
    ASSUME Ground, record' = record, record # NoRecord, record.phase \in Active \cup {"result"},
           NEW code \in Codes, timer' = timer /\ core' = core => Scheduling',
           record.phase \in Before \/ (~core.stopping /\ ~core.rem), HandleCompeting(code)
    PROVE  Led'
  <1>1. Sound(record) /\ record \in RecordType
    BY DEF Ground, StoreInv, Sound, RecordValid
  <1>2. CASE core.stopping \/ core.rem
    <2>1. task' = Rest /\ core' = core /\ timer' = timer
      BY <1>2 DEF HandleCompeting, Goes
    <2>2. device' # "challenge"
      BY <1>1, <1>2, SoundRecord DEF Ground, StoreOwes, Owes
    <2>3. QED
      BY <2>1, <2>2, RestLed
  <1>3. CASE ~core.stopping /\ ~core.rem
    <2>1. CASE record.phase \in Before
      <3>1. FailSafe(record, code)
        BY <1>3, <2>1 DEF HandleCompeting, Before
      <3>2. QED
        BY <1>3, <2>1, <3>1, FailSafeLed
    <2>2. CASE record.phase \in {"challenge", "restore"}
      <3>1. StartRestore(record, code)
        BY <1>3, <2>2 DEF HandleCompeting, Before
      <3>2. QED
        BY <1>1, <1>3, <3>1, StartRestoreLed
    <2>3. CASE record.phase = "result"
      <3>1. EnterRemediation(record, code, TRUE)
        BY <1>3, <2>3 DEF HandleCompeting, Before
      <3>2. QED
        BY <3>1, EnterRemediationLed
    <2>4. QED
      BY <2>1, <2>2, <2>3 DEF Active, Before
  <1>4. QED
    BY <1>2, <1>3

\* A write that is not begun or definitely failed leaves what is owed to somebody else.
LEMMA RefusedLed ==
    ASSUME Ground, record' = record, NEW t, t.then \in Follows, t.code \in Codes,
           t.then \in {"arm", "resume", "ack", "safe"} => device' # "challenge",
           t.then = "stop" => core.stopping,
           timer' = timer /\ core' = core => Scheduling', Refused(t)
    PROVE  Led'
  <1>1. CASE t.then \in {"arm", "resume", "ack"}
    <2>1. task' = Rest /\ core' = core /\ timer' = timer
      BY <1>1 DEF Refused, Goes
    <2>2. QED
      BY <1>1, <2>1, RestLed
  <1>2. CASE t.then = "stop"
    <2>1. task' = [at |-> "stop"] /\ core' = core /\ timer' = timer
      BY <1>2 DEF Refused, Goes
    <2>2. QED
      BY <1>2, <2>1, StopLed
  <1>3. CASE t.then = "safe"
    <2>1. EnterRemediation(record, t.code, FALSE)
      BY <1>3 DEF Refused
    <2>2. QED
      BY <1>3, <2>1, EnterRemediationLed
  <1>4. CASE t.then \in {"restore", "recover"}
    <2>1. EnterRemediation(record, t.code, TRUE)
      BY <1>4 DEF Refused
    <2>2. QED
      BY <2>1, EnterRemediationLed
  <1>5. CASE t.then \in {"dispatch", "frame", "result"}
    <2>1. EnterRemediation(record, "other", NeedsRestore(record))
      BY <1>5 DEF Refused
    <2>2. QED
      BY <2>1, NeedsRestoreLed DEF Codes
  <1>6. QED
    BY <1>1, <1>2, <1>3, <1>4, <1>5 DEF Follows

\* A write is begun that nothing is owed for.
LEMMA BeginLed ==
    ASSUME Ground, record' = record, device' # "challenge", NEW n, NEW then \in Follows \ {"stop"},
           NEW code \in Codes, RecordValid(n) => Sound(n) /\ n.phase \in Brings(then),
           core.rem /\ ~core.stopping => core.over = "queued",
           timer' = timer /\ core' = core => Scheduling', Begin(Commit(n, then, code))
    PROVE  Led'
  <1>1. CASE RecordValid(n) /\ ~core.stopping
    <2>1. task' = Commit(n, then, code) /\ core' = core /\ timer' = timer
      BY <1>1 DEF Begin, Goes, Commit
    <2>2. CommitReady(Commit(n, then, code))
      BY <1>1 DEF CommitReady, Commit
    <2>3. QED
      BY <2>1, <2>2, CommitLed
  <1>2. CASE ~(RecordValid(n) /\ ~core.stopping)
    <2>1. PICK t : t = Commit(n, then, code)
      OBVIOUS
    <2>2. Refused(t) /\ t.then = then /\ t.code = code
      BY <1>2, <2>1 DEF Begin, Commit
    <2>3. QED
      BY <2>2, RefusedLed
  <1>3. QED
    BY <1>1, <1>2

\* A result that the validation accepts is sound.
LEMMA ResultSound ==
    ASSUME NEW r \in RecordType, NEW outcome, NEW code, RecordValid(ResultRecord(r, outcome, code))
    PROVE  Sound(ResultRecord(r, outcome, code)) /\ ResultRecord(r, outcome, code).phase = "result"
  BY DEF ResultRecord, RecordType, Sound

\* A proof begins the write of the next phase, or what a write that does not fit asks for.
LEMMA AcceptProofLed ==
    ASSUME Ground, record' = record, record # NoRecord, record.phase \in Active, ~core.rem,
           record.phase = "restore" => device' # "challenge",
           timer' = timer /\ core' = core => Scheduling', AcceptProof
    PROVE  Led'
  <1>1. Sound(record) /\ record \in RecordType
    BY DEF Ground, StoreInv, Sound, RecordValid
  <1>2. record.phase \in Before => device' # "challenge"
    BY <1>1, SoundRecord DEF Ground, StoreOwes, Owes
  <1>3. PICK p : p = AfterProof(record)
    OBVIOUS
  <1>4. record.phase \in Before /\ RecordValid(p) =>
            /\ Sound(p)
            /\ record.phase = "physical1" => p.phase = "physical2"
            /\ record.phase = "physical2" => p.phase = "noop"
            /\ record.phase = "noop" => p.phase = "challenge"
    BY <1>1, <1>3, ProofSound
  <1>5. CASE record.phase = "physical1"
    <2>1. Begin(Commit(p, "frame", "other"))
      BY <1>3, <1>5 DEF AcceptProof
    <2>2. RecordValid(p) => Sound(p) /\ p.phase \in Brings("frame")
      BY <1>4, <1>5 DEF Brings, Before
    <2>3. "frame" \in Follows \ {"stop"} /\ "other" \in Codes
      BY DEF Follows, Codes
    <2>4. QED
      BY <1>2, <1>5, <2>1, <2>2, <2>3, BeginLed DEF Before
  <1>6. CASE record.phase \in {"physical2", "noop"}
    <2>1. Begin(Commit(p, "dispatch", "other"))
      BY <1>3, <1>6 DEF AcceptProof
    <2>2. RecordValid(p) => Sound(p) /\ p.phase \in Brings("dispatch")
      BY <1>4, <1>6 DEF Brings, Before
    <2>3. "dispatch" \in Follows \ {"stop"} /\ "other" \in Codes
      BY DEF Follows, Codes
    <2>4. QED
      BY <1>2, <1>6, <2>1, <2>2, <2>3, BeginLed DEF Before
  <1>7. CASE record.phase = "challenge"
    <2>1. PICK r : r = [record EXCEPT !.proofs = @ \cup {"challenge"}]
      OBVIOUS
    <2>2. StartRestore(r, "none")
      BY <1>7, <2>1 DEF AcceptProof
    <2>3. r \in RecordType /\ r.op = record.op /\ r.used = record.used
      BY <1>1, <2>1 DEF RecordType, Active
    <2>4. QED
      BY <2>2, <2>3, StartRestoreLed
  <1>8. CASE record.phase = "restore" /\ (record.after \/ left < 2)
    <2>1. EnterRemediation(record, Named(record.code), FALSE)
      BY <1>8 DEF AcceptProof
    <2>2. Named(record.code) \in Codes
      BY <1>1 DEF Named, RecordType, Codes
    <2>3. QED
      BY <1>8, <2>1, <2>2, EnterRemediationLed
  <1>9. CASE record.phase = "restore" /\ ~(record.after \/ left < 2)
    <2>1. PICK r : r = [record EXCEPT !.proofs = @ \cup {"restore"}]
      OBVIOUS
    <2>2. PICK outcome : outcome = IF record.code = "none" THEN "verified" ELSE "restored"
      OBVIOUS
    <2>3. PICK n : n = ResultRecord(r, outcome, record.code)
      OBVIOUS
    <2>4. Begin(Commit(n, "result", "other"))
      BY <1>9, <2>1, <2>2, <2>3 DEF AcceptProof
    <2>5. r \in RecordType
      BY <1>1, <2>1 DEF RecordType, Active
    <2>6. RecordValid(n) => Sound(n) /\ n.phase \in Brings("result")
      BY <2>3, <2>5, ResultSound DEF Brings
    <2>7. "result" \in Follows \ {"stop"} /\ "other" \in Codes
      BY DEF Follows, Codes
    <2>8. QED
      BY <1>9, <2>4, <2>6, <2>7, BeginLed
  <1>10. QED
    BY <1>5, <1>6, <1>7, <1>8, <1>9 DEF Active, Before

-----------------------------------------------------------------------------
(* Steps that leave the world alone. *)

\* A step that changes only the task, the latches and the time decides on the ground there was.
LEMMA StillGround ==
    ASSUME ProbeInv, UNCHANGED <<disk, other, record, worldVars, due, starts>>, left' \in 0 .. 3,
           task.at # "load"
    PROVE  Ground /\ (timer' = timer /\ core' = core => Scheduling')
  <1>1. StoreInv'
    BY DEF ProbeInv, StoreInv, worldVars
  <1>2. StoreOwes'
    BY DEF ProbeInv, StoreOwes, Owes, worldVars
  <1>3. Latches /\ (core.issued /\ device' = "challenge" => attempted')
    BY DEF ProbeInv, Led, Latches, worldVars
  <1>4. ~core.rem => record' = disk' /\ other' = NoOther
    BY DEF ProbeInv, Led, Known
  <1>5. timer' = timer /\ core' = core => Scheduling'
    BY DEF ProbeInv, Led, Scheduling
  <1>6. QED
    BY <1>1, <1>2, <1>3, <1>4, <1>5 DEF Ground

\* Commands that nobody waits for are of no use to anybody.
LEMMA SentQuiet ==
    ASSUME SentInv,
           \/ sent' = sent /\ task.at # "dispatch"
           \/ sent' = Revoked
           \/ sent' = {}
    PROVE  SentInv'
  <1>1. CASE sent' = sent /\ task.at # "dispatch"
    BY <1>1 DEF SentInv
  <1>2. CASE sent' = Revoked
    <2>1. \A o \in sent : /\ [o EXCEPT !.valid = FALSE] \in CommandRecords
                          /\ [o EXCEPT !.valid = FALSE].valid = FALSE
      BY DEF SentInv, CommandRecords
    <2>2. \A n \in sent' : n \in CommandRecords /\ n.valid = FALSE
      BY <1>2, <2>1 DEF Revoked
    <2>3. sent' = {} \/ \E o : sent' = {o}
      <3>1. CASE sent = {}
        BY <1>2, <3>1 DEF Revoked
      <3>2. CASE \E o : sent = {o}
        <4>1. PICK o : sent = {o}
          BY <3>2
        <4>2. sent' = {[o EXCEPT !.valid = FALSE]}
          BY <1>2, <4>1 DEF Revoked
        <4>3. QED
          BY <4>2
      <3>3. QED
        BY <3>1, <3>2 DEF SentInv
    <2>4. QED
      BY <2>2, <2>3 DEF SentInv
  <1>3. CASE sent' = {}
    BY <1>3 DEF SentInv
  <1>4. QED
    BY <1>1, <1>2, <1>3

\* Resolving a candidate changes nothing that is owed.
LEMMA ResolveLed ==
    ASSUME Ground, NEW for, task' = [at |-> "resolve", for |-> for], ResolveFits', core' = core, Scheduling'
    PROVE  Led'
  <1>1. Latches' /\ Known'
    BY DEF Ground, Latches, Known
  <1>2. TaskInv' /\ TaskOwes' /\ WatchInv'
    BY DEF TaskInv, TaskOwes, WatchInv, Stages
  <1>3. QED
    BY <1>1, <1>2 DEF Led

\* At rest, the record that is remembered says what may be asked.
LEMMA RequestKeeps ==
    ASSUME ProbeInv, Request
    PROVE  ProbeInv'
  <1>1. task = Rest /\ task.at = "idle" /\ ~core.rem /\ ~core.stopping
    BY DEF Request, Quiet, Rest, Operational
  <1>2. UNCHANGED <<disk, other, record, sent, worldVars, timeVars>>
    BY DEF Request
  <1>3. left' \in 0 .. 3
    BY <1>2 DEF timeVars, ProbeInv, StoreInv
  <1>4. Ground /\ (timer' = timer /\ core' = core => Scheduling')
    BY <1>1, <1>2, <1>3, StillGround DEF timeVars
  <1>5. SentInv'
    BY <1>1, <1>2, SentQuiet DEF ProbeInv
  <1>6. ASSUME NEW for \in {"arm", "resume", "ack"}, Goes([at |-> "resolve", for |-> for]),
               for = "arm" => record = NoRecord \/ record.phase = "quiescent",
               for = "resume" => record # NoRecord /\ record.phase \in Before,
               for = "ack" => record # NoRecord /\ record.phase = "result"
        PROVE  Led'
    <2>1. task' = [at |-> "resolve", for |-> for] /\ core' = core /\ timer' = timer
      BY <1>6 DEF Goes
    <2>2. ResolveFits'
      BY <1>2, <1>6, <2>1 DEF ResolveFits
    <2>3. QED
      BY <1>4, <2>1, <2>2, ResolveLed
  <1>7. Led'
    <2>1. CASE /\ IF record = NoRecord THEN TRUE ELSE record.phase = "quiescent" /\ record.op < MaxProbes
               /\ Goes([at |-> "resolve", for |-> "arm"])
      BY <1>6, <2>1
    <2>2. CASE /\ record # NoRecord
               /\ record.phase \in Before /\ left > 0
               /\ Goes([at |-> "resolve", for |-> "resume"])
      BY <1>6, <2>2
    <2>3. CASE /\ record # NoRecord
               /\ record.phase = "result" /\ record.here
               /\ IF left = 0 THEN EnterRemediation(record, "other", TRUE)
                  ELSE Goes([at |-> "resolve", for |-> "ack"])
      <3>1. CASE left = 0
        BY <1>2, <1>4, <2>3, <3>1, EnterRemediationLed DEF Codes
      <3>2. CASE left # 0
        BY <1>6, <2>3, <3>2
      <3>3. QED
        BY <3>1, <3>2
    <2>4. QED
      BY <2>1, <2>2, <2>3 DEF Request
  <1>8. QED
    BY <1>4, <1>5, <1>7 DEF ProbeInv, Ground

\* A record before the challenge, or after its end, owes nothing, and neither does none.
LEMMA ResolveIntended ==
    ASSUME ProbeInv, task.at = "resolve"
    PROVE  /\ ResolveFits
           /\ record # NoRecord => device = "intended"
           /\ ~core.rem => device = "intended"
  <1>1. ResolveFits
    BY DEF ProbeInv, Led, TaskInv
  <1>2. ASSUME record # NoRecord
        PROVE  device = "intended"
    <2>1. record.phase \in Before \cup {"result", "quiescent"}
      BY <1>1, <1>2 DEF ResolveFits, Before
    <2>2. Sound(record)
      BY <1>2 DEF ProbeInv, StoreInv
    <2>3. QED
      BY <1>2, <2>1, <2>2, SoundRecord, IntendedUnlessOwed DEF ProbeInv
  <1>3. ASSUME ~core.rem, record = NoRecord
        PROVE  device = "intended"
    BY <1>3 DEF ProbeInv, Led, Known, StoreInv, StoreOwes
  <1>4. QED
    BY <1>1, <1>2, <1>3

\* A request whose candidate is not resolved ends; only an acknowledgement asks for remediation.
LEMMA RequestFailsKeeps ==
    ASSUME ProbeInv, RequestFails
    PROVE  ProbeInv'
  <1>1. task.at = "resolve" /\ task.for # "proof"
    BY DEF RequestFails
  <1>2. UNCHANGED <<disk, other, record, sent, worldVars, timeVars>>
    BY DEF RequestFails
  <1>3. left' \in 0 .. 3
    BY <1>2 DEF timeVars, ProbeInv, StoreInv
  <1>4. Ground /\ (timer' = timer /\ core' = core => Scheduling')
    BY <1>1, <1>2, <1>3, StillGround DEF timeVars
  <1>5. SentInv'
    BY <1>1, <1>2, SentQuiet DEF ProbeInv
  <1>6. record' # NoRecord => device' # "challenge"
    BY <1>1, <1>2, ResolveIntended DEF worldVars
  <1>7. CASE task.for = "ack" /\ ~core.stopping
    <2>1. EnterRemediation(record, "other", TRUE)
      BY <1>7 DEF RequestFails
    <2>2. QED
      BY <1>2, <1>4, <1>5, <2>1, EnterRemediationLed DEF Codes, ProbeInv, Ground
  <1>8. CASE ~(task.for = "ack" /\ ~core.stopping)
    <2>1. task' = Rest /\ core' = core /\ timer' = timer
      BY <1>8 DEF RequestFails, Goes
    <2>2. QED
      BY <1>4, <1>5, <1>6, <2>1, RestLed DEF ProbeInv, Ground
  <1>9. QED
    BY <1>7, <1>8

\* A resolved request is written only while nothing is owed.
LEMMA RequestResolvedKeeps ==
    ASSUME ProbeInv, RequestResolved
    PROVE  ProbeInv'
  <1>1. task.at = "resolve" /\ task.for # "proof"
    BY DEF RequestResolved
  <1>2. UNCHANGED <<disk, other, record, sent, worldVars, due, starts>>
    BY DEF RequestResolved
  <1>3. left' \in 0 .. 3
    BY DEF RequestResolved, ProbeInv, StoreInv
  <1>4. Ground /\ (timer' = timer /\ core' = core => Scheduling')
    BY <1>1, <1>2, <1>3, StillGround
  <1>5. SentInv'
    BY <1>1, <1>2, SentQuiet DEF ProbeInv
  <1>6. ResolveFits /\ (record' # NoRecord => device' # "challenge")
        /\ (~core.rem => device' # "challenge")
    BY <1>1, <1>2, ResolveIntended DEF worldVars
  <1>7. CASE task.for = "ack" /\ left = 0 /\ ~core.stopping
    <2>1. EnterRemediation(record, "other", TRUE)
      BY <1>7 DEF RequestResolved
    <2>2. QED
      BY <1>2, <1>4, <1>5, <2>1, EnterRemediationLed DEF Codes, ProbeInv, Ground
  <1>8. CASE ~(task.for = "ack" /\ left = 0 /\ ~core.stopping)
             /\ (~Operational \/ (task.for # "arm" /\ left = 0))
    <2>1. task' = Rest /\ core' = core /\ timer' = timer
      BY <1>8 DEF RequestResolved, Goes
    <2>2. QED
      BY <1>4, <1>5, <1>6, <2>1, RestLed DEF ProbeInv, Ground
  <1>9. CASE /\ ~(task.for = "ack" /\ left = 0 /\ ~core.stopping)
             /\ ~(~Operational \/ (task.for # "arm" /\ left = 0))
    <2>1. ~core.rem /\ device' # "challenge" /\ "other" \in Codes
          /\ {"arm", "dispatch", "resume", "ack"} \subseteq Follows \ {"stop"}
      BY <1>6, <1>9 DEF Operational, Codes, Follows
    <2>2. CASE task.for = "arm"
      <3>1. PICK n : n = ArmRecord(IF record = NoRecord THEN 1 ELSE record.op + 1)
        OBVIOUS
      <3>2. Begin(Commit(n, "arm", "other"))
        BY <1>9, <2>2, <3>1 DEF RequestResolved
      <3>3. RecordValid(n) => Sound(n) /\ n.phase \in Brings("arm")
        BY <3>1, ArmSound DEF Brings
      <3>4. Led'
        BY <1>2, <1>4, <2>1, <3>2, <3>3, BeginLed
      <3>5. QED
        BY <1>4, <1>5, <3>4 DEF ProbeInv, Ground
    <2>3. CASE task.for = "resume"
      <3>1. PICK n : n = ResumeRecord(record)
        OBVIOUS
      <3>2. PICK then : then = IF record.phase = "noop" THEN "dispatch" ELSE "resume"
        OBVIOUS
      <3>3. Begin(Commit(n, then, "other"))
        BY <1>9, <2>3, <3>1, <3>2 DEF RequestResolved
      <3>4. record # NoRecord /\ record.phase \in Before /\ Sound(record)
        BY <1>6, <2>3 DEF ResolveFits, ProbeInv, StoreInv
      <3>5. RecordValid(n) => Sound(n) /\ n.phase = record.phase
        BY <3>1, <3>4, TransitionSound
      <3>6. RecordValid(n) => Sound(n) /\ n.phase \in Brings(then)
        BY <3>2, <3>4, <3>5 DEF Brings, Before
      <3>7. then \in Follows \ {"stop"}
        BY <2>1, <3>2
      <3>8. Led'
        BY <1>2, <1>4, <2>1, <3>3, <3>6, <3>7, BeginLed
      <3>9. QED
        BY <1>4, <1>5, <3>8 DEF ProbeInv, Ground
    <2>4. CASE task.for = "ack"
      <3>1. PICK n : n = QuiescentRecord(record)
        OBVIOUS
      <3>2. Begin(Commit(n, "ack", "other"))
        BY <1>9, <2>4, <3>1 DEF RequestResolved
      <3>3. Sound(record)
        BY <1>6, <2>4 DEF ResolveFits, ProbeInv, StoreInv
      <3>4. RecordValid(n) => Sound(n) /\ n.phase \in Brings("ack")
        BY <3>1, <3>3, TransitionSound DEF Brings
      <3>5. Led'
        BY <1>2, <1>4, <2>1, <3>2, <3>4, BeginLed
      <3>6. QED
        BY <1>4, <1>5, <3>5 DEF ProbeInv, Ground
    <2>5. QED
      BY <1>1, <1>6, <2>2, <2>3, <2>4 DEF ResolveFits
  <1>10. QED
    BY <1>7, <1>8, <1>9

-----------------------------------------------------------------------------
(* Frames, competing writes and the timer. *)

\* A core that listens is at rest, has a record, and decides with all it knows.
LEMMA Listening ==
    ASSUME ProbeInv, Listens, UNCHANGED <<disk, other, record, sent, worldVars, timeVars>>
    PROVE  /\ task.at = "idle" /\ record # NoRecord /\ ~core.rem /\ ~core.stopping /\ Sound(record)
           /\ Ground /\ (timer' = timer /\ core' = core => Scheduling')
           /\ SentInv'
  <1>1. task.at = "idle" /\ record # NoRecord /\ ~core.rem /\ ~core.stopping
    BY DEF Listens, Quiet, Rest
  <1>2. left' \in 0 .. 3
    BY DEF timeVars, ProbeInv, StoreInv
  <1>3. Ground /\ (timer' = timer /\ core' = core => Scheduling')
    BY <1>1, <1>2, StillGround DEF timeVars
  <1>4. SentInv'
    BY <1>1, SentQuiet DEF ProbeInv
  <1>5. Sound(record)
    BY <1>1 DEF ProbeInv, StoreInv
  <1>6. QED
    BY <1>1, <1>3, <1>4, <1>5

\* A response is accepted as the proof of a restore only if it was executed.
LEMMA ProofArrivesKeeps ==
    ASSUME ProbeInv, ProofArrives
    PROVE  ProbeInv'
  <1>1. Listens /\ record.phase \in Active /\ UNCHANGED <<disk, other, record, sent, worldVars, timeVars>>
    BY DEF ProofArrives
  <1>2. /\ task.at = "idle" /\ record # NoRecord /\ ~core.rem /\ ~core.stopping /\ Sound(record)
        /\ Ground /\ (timer' = timer /\ core' = core => Scheduling')
        /\ SentInv'
    BY <1>1, Listening
  <1>3. CASE due
    <2>1. HandleCompeting("other")
      BY <1>3 DEF ProofArrives
    <2>2. Led'
      BY <1>1, <1>2, <2>1, HandleCompetingLed DEF Codes
    <2>3. QED
      BY <1>2, <2>2 DEF ProbeInv, Ground
  <1>4. CASE ~due /\ record.phase \in {"physical1", "physical2"}
    <2>1. task' = [at |-> "resolve", for |-> "proof"] /\ core' = core /\ timer' = timer
      BY <1>4 DEF ProofArrives, Goes
    <2>2. ResolveFits'
      BY <1>1, <1>2, <1>4, <2>1 DEF ResolveFits
    <2>3. Led'
      BY <1>2, <2>1, <2>2, ResolveLed
    <2>4. QED
      BY <1>2, <2>3 DEF ProbeInv, Ground
  <1>5. CASE ~due /\ record.phase \notin {"physical1", "physical2"}
    <2>1. AcceptProof /\ air = <<record.op, record.seq>>
      BY <1>5 DEF ProofArrives
    <2>2. record.phase = "restore" => device' # "challenge"
      BY <1>1, <1>2, <2>1 DEF ProbeInv, StoreOwes, Owes, worldVars
    <2>3. Led'
      BY <1>1, <1>2, <2>1, <2>2, AcceptProofLed
    <2>4. QED
      BY <1>2, <2>3 DEF ProbeInv, Ground
  <1>6. QED
    BY <1>3, <1>4, <1>5

\* The candidate of a turn of the knob is resolved before the challenge, when nothing is owed.
LEMMA ProofResolvedKeeps ==
    ASSUME ProbeInv, ProofResolved
    PROVE  ProbeInv'
  <1>1. task.at = "resolve" /\ task.for = "proof"
        /\ UNCHANGED <<disk, other, record, sent, worldVars, timeVars>>
    BY DEF ProofResolved
  <1>2. left' \in 0 .. 3
    BY <1>1 DEF timeVars, ProbeInv, StoreInv
  <1>3. Ground /\ (timer' = timer /\ core' = core => Scheduling')
    BY <1>1, <1>2, StillGround DEF timeVars
  <1>4. SentInv'
    BY <1>1, SentQuiet DEF ProbeInv
  <1>5. /\ record # NoRecord /\ record.phase \in {"physical1", "physical2"}
        /\ device' # "challenge"
    BY <1>1, ResolveIntended DEF ResolveFits, worldVars
  <1>6. CASE HandleCompeting("other")
    <2>1. Led'
      BY <1>1, <1>3, <1>5, <1>6, HandleCompetingLed DEF Codes, Active, Before
    <2>2. QED
      BY <1>3, <1>4, <2>1 DEF ProbeInv, Ground
  <1>7. CASE (core.rem \/ core.over # "no") /\ Goes(Rest)
    <2>1. task' = Rest /\ core' = core /\ timer' = timer
      BY <1>7 DEF Goes
    <2>2. Led'
      BY <1>3, <1>5, <2>1, RestLed
    <2>3. QED
      BY <1>3, <1>4, <2>2 DEF ProbeInv, Ground
  <1>8. CASE ~(core.rem \/ core.over # "no") /\ AcceptProof
    <2>1. Led'
      BY <1>1, <1>3, <1>5, <1>8, AcceptProofLed DEF Active, Before
    <2>2. QED
      BY <1>3, <1>4, <2>1 DEF ProbeInv, Ground
  <1>9. QED
    BY <1>6, <1>7, <1>8 DEF ProofResolved

\* A competing write finds the core at rest with its record, and is handled.
LEMMA CompetesKeeps ==
    ASSUME ProbeInv, Competes
    PROVE  ProbeInv'
  <1>1. Listens /\ record.phase \in Active \cup {"result"}
        /\ UNCHANGED <<disk, other, record, sent, worldVars, timeVars>>
    BY DEF Competes
  <1>2. /\ record # NoRecord /\ ~core.rem /\ ~core.stopping
        /\ Ground /\ (timer' = timer /\ core' = core => Scheduling')
        /\ SentInv'
    BY <1>1, Listening
  <1>3. PICK code \in Codes : HandleCompeting(code)
    BY DEF Competes, Codes
  <1>4. Led'
    BY <1>1, <1>2, <1>3, HandleCompetingLed
  <1>5. QED
    BY <1>2, <1>4 DEF ProbeInv, Ground

\* A timer finds the phase it was scheduled for.
LEMMA OnTimerKeeps ==
    ASSUME ProbeInv, OnTimer
    PROVE  ProbeInv'
  <1>1. Listens /\ timer /\ UNCHANGED <<disk, other, record, sent, worldVars, timeVars>>
    BY DEF OnTimer
  <1>2. /\ record # NoRecord /\ ~core.rem /\ ~core.stopping
        /\ Ground /\ (timer' = timer /\ core' = core => Scheduling')
        /\ SentInv'
    BY <1>1, Listening
  <1>3. record.phase \in Active \cup {"result"}
    BY <1>1 DEF ProbeInv, Led, Scheduling
  <1>4. Led'
    <2>1. CASE record.phase = "result"
      <3>1. EnterRemediation(record, "other", TRUE)
        BY <2>1 DEF OnTimer
      <3>2. QED
        BY <1>1, <1>2, <3>1, EnterRemediationLed DEF Codes
    <2>2. CASE record.phase # "result"
      <3>1. HandleCompeting("other")
        BY <2>2 DEF OnTimer
      <3>2. QED
        BY <1>1, <1>2, <1>3, <3>1, HandleCompetingLed DEF Codes
    <2>3. QED
      BY <2>1, <2>2
  <1>5. QED
    BY <1>2, <1>4 DEF ProbeInv, Ground

-----------------------------------------------------------------------------
(* Steps that end in remediation. *)

\* In remediation the latches and the timer are settled: what is left is the task.
LatchedGround == StoreOwes' /\ Latches' /\ core'.rem /\ timer' = FALSE

\* Restores that no record claims are a task that somebody does.
LEMMA SafetyLed ==
    ASSUME LatchedGround, NEW code \in Codes, NEW persist \in BOOLEAN, NEW allow \in BOOLEAN,
           allow => core'.stopping, record' # NoRecord, task' = Safety(code, persist, allow)
    PROVE  Led'
  <1>1. Scheduling' /\ Known'
    BY DEF LatchedGround, Scheduling, Known
  <1>2. TaskInv' /\ TaskOwes' /\ WatchInv'
    BY DEF LatchedGround, TaskInv, TaskOwes, WatchInv, Safety, SafetyFits, Stages
  <1>3. QED
    BY <1>1, <1>2 DEF Led, LatchedGround

\* Persisting a remediation keeps what it owes, after a restore was tried.
LEMMA PersistLed ==
    ASSUME LatchedGround, NEW code \in Codes, NEW owed \in BOOLEAN, record' # NoRecord,
           device' = "challenge" => owed /\ (attempted' \/ core'.stopping), task' = Persist(code, owed)
    PROVE  Led'
  <1>1. Scheduling' /\ Known'
    BY DEF LatchedGround, Scheduling, Known
  <1>2. TaskInv' /\ TaskOwes' /\ WatchInv'
    BY DEF LatchedGround, TaskInv, TaskOwes, WatchInv, Persist, PersistFits, Stages
  <1>3. QED
    BY <1>1, <1>2 DEF Led, LatchedGround

\* In remediation a task may end once a restore was tried, or a full queue has one to do.
LEMMA IdleLed ==
    ASSUME LatchedGround, task' = Rest,
           device' = "challenge" /\ ~attempted' /\ record' # NoRecord /\ ~core'.stopping =>
               core'.over = "queued"
    PROVE  Led'
  <1>1. Scheduling' /\ Known'
    BY DEF LatchedGround, Scheduling, Known
  <1>2. TaskInv' /\ TaskOwes' /\ WatchInv'
    BY DEF LatchedGround, TaskInv, TaskOwes, WatchInv, Rest, Stages
  <1>3. QED
    BY <1>1, <1>2 DEF Led, LatchedGround

\* What a write that ends in doubt leaves is what was there and what was to come.
LEMMA CommitFacts ==
    ASSUME ProbeInv, task.at = "commit"
    PROVE  /\ CommitFits /\ Sound(task.next) /\ task.next # NoRecord
           /\ device = "challenge" => Owes(task.next) /\ task.then # "dispatch"
           /\ Latches /\ SentInv
  <1>1. CommitFits /\ Sound(task.next)
    BY DEF ProbeInv, Led, TaskInv, CommitFits
  <1>2. QED
    BY <1>1, SoundRecord DEF ProbeInv, Led, TaskOwes

\* A write that may still happen is of a record that owes what there is to owe.
LEMMA CommitTimesOutKeeps ==
    ASSUME ProbeInv, CommitTimesOut
    PROVE  ProbeInv'
  <1>1. /\ task.at = "commit" /\ other' = [kind |-> "late", rec |-> task.next]
        /\ core' = [core EXCEPT !.rem = TRUE, !.safe = TRUE, !.blocked = TRUE] /\ timer' = FALSE
        /\ sent' = Revoked
        /\ UNCHANGED <<disk, record, worldVars, timeVars>>
    BY DEF CommitTimesOut, Latched
  <1>2. /\ CommitFits /\ Sound(task.next) /\ task.next # NoRecord
        /\ device = "challenge" => Owes(task.next)
        /\ Latches /\ SentInv
    BY <1>1, CommitFacts
  <1>3. StoreInv'
    BY <1>1, <1>2 DEF ProbeInv, StoreInv, worldVars, timeVars
  <1>4. StoreOwes'
    BY <1>1, <1>2 DEF ProbeInv, StoreOwes, Owes, worldVars, timeVars
  <1>5. Latches'
    BY <1>1, <1>2 DEF Latches, worldVars
  <1>6. SentInv'
    BY <1>1, <1>2, SentQuiet
  <1>7. LatchedGround
    BY <1>1, <1>2, <1>4, <1>5 DEF LatchedGround, Latches
  <1>8. CASE record # NoRecord /\ Defended(record)
    <2>1. PICK allow \in BOOLEAN : allow = core.stopping
      BY <1>2 DEF Latches
    <2>2. task' = Safety("other", FALSE, allow)
      BY <1>8, <2>1 DEF CommitTimesOut, Latched
    <2>3. core'.stopping = core.stopping
      BY <1>1, <1>2 DEF Latches
    <2>4. Led'
      BY <1>1, <1>7, <1>8, <2>1, <2>2, <2>3, SafetyLed DEF Codes
    <2>5. QED
      BY <1>3, <1>4, <1>6, <2>4 DEF ProbeInv
  <1>9. CASE ~(record # NoRecord /\ Defended(record))
    <2>1. task' = Rest
      BY <1>9 DEF CommitTimesOut, Latched
    <2>2. device' = "challenge" => record' = NoRecord
      BY <1>1, <1>9 DEF Defended, ProbeInv, StoreOwes, Owes, worldVars
    <2>3. Led'
      BY <1>7, <2>1, <2>2, IdleLed
    <2>4. QED
      BY <1>3, <1>4, <1>6, <2>3 DEF ProbeInv
  <1>10. QED
    BY <1>8, <1>9

\* Whichever of the two records is read again, both owe what there is to owe.
LEMMA CommitUncertainKeeps ==
    ASSUME ProbeInv, CommitUncertain
    PROVE  ProbeInv'
  <1>1. /\ task.at = "commit" /\ disk' = task.next
        /\ other' = IF other.kind = "behind" THEN other ELSE [kind |-> "behind", rec |-> disk]
        /\ sent' = Revoked
        /\ UNCHANGED <<worldVars, timeVars>>
    BY DEF CommitUncertain
  <1>a. PICK read \in BOOLEAN :
            LET o == IF read THEN task.next ELSE record
            IN  /\ record' = o
                /\ Latched(IF o = NoRecord THEN Rest
                           ELSE IF Defended(o) THEN Safety("other", TRUE, core.stopping)
                           ELSE Persist("other", FALSE),
                           [core EXCEPT !.rem = TRUE, !.safe = TRUE, !.blocked = @ \/ ~read])
    BY DEF CommitUncertain
  <1>2. PICK observed :
            /\ observed = IF read THEN task.next ELSE record
            /\ record' = observed
            /\ Latched(IF observed = NoRecord THEN Rest
                       ELSE IF Defended(observed) THEN Safety("other", TRUE, core.stopping)
                       ELSE Persist("other", FALSE),
                       [core EXCEPT !.rem = TRUE, !.safe = TRUE, !.blocked = @ \/ ~read])
    BY <1>a
  <1>3. /\ CommitFits /\ Sound(task.next) /\ task.next # NoRecord
        /\ device = "challenge" => Owes(task.next)
        /\ Latches /\ SentInv
    BY <1>1, CommitFacts
  <1>4. StoreInv'
    BY <1>1, <1>2, <1>3 DEF ProbeInv, StoreInv, worldVars, timeVars
  <1>5. StoreOwes'
    <2>1. SUFFICES ASSUME device' = "challenge"
                   PROVE  /\ disk' # NoRecord /\ other'.rec # NoRecord
                          /\ Owes(disk)' /\ (record' # NoRecord => Owes(record)') /\ Owes(other.rec)'
      BY DEF StoreOwes
    <2>2. /\ device = "challenge" /\ disk # NoRecord /\ Owes(disk) /\ Owes(task.next)
          /\ record # NoRecord => Owes(record)
          /\ other.kind = "behind" => other.rec # NoRecord /\ Owes(other.rec)
      BY <1>1, <1>3, <2>1 DEF ProbeInv, StoreOwes, worldVars
    <2>3. task.next.op = disk.op /\ disk'.op = disk.op /\ air' = air
      BY <1>1, <2>2 DEF Owes, worldVars
    <2>4. \A r : Owes(r) => Owes(r)'
      BY <2>3 DEF Owes
    <2>5. Owes(disk)' /\ disk' # NoRecord
      BY <1>1, <1>3, <2>2, <2>3 DEF Owes
    <2>6. record' # NoRecord => Owes(record)'
      BY <1>2, <2>2, <2>3 DEF Owes
    <2>7. Owes(other.rec)' /\ other'.rec # NoRecord
      BY <1>1, <2>2, <2>3 DEF Owes
    <2>8. QED
      BY <2>5, <2>6, <2>7
  <1>6. core' = [core EXCEPT !.rem = TRUE, !.safe = TRUE, !.blocked = @ \/ ~read] /\ timer' = FALSE
    BY <1>2 DEF Latched
  <1>7. Latches' /\ core'.rem /\ core'.stopping = core.stopping
    BY <1>1, <1>3, <1>6 DEF Latches, worldVars
  <1>8. LatchedGround
    BY <1>5, <1>6, <1>7 DEF LatchedGround
  <1>9. SentInv'
    BY <1>1, <1>3, SentQuiet
  <1>10. CASE observed = NoRecord
    <2>1. task' = Rest
      BY <1>2, <1>10 DEF Latched
    <2>2. QED
      BY <1>2, <1>4, <1>5, <1>8, <1>9, <1>10, <2>1, IdleLed DEF ProbeInv
  <1>11. CASE observed # NoRecord /\ Defended(observed)
    <2>1. PICK allow \in BOOLEAN : allow = core.stopping
      BY <1>3 DEF Latches
    <2>2. task' = Safety("other", TRUE, allow)
      BY <1>2, <1>11, <2>1 DEF Latched
    <2>3. Led'
      BY <1>2, <1>7, <1>8, <1>11, <2>1, <2>2, SafetyLed DEF Codes
    <2>4. QED
      BY <1>4, <1>5, <1>9, <2>3 DEF ProbeInv
  <1>12. CASE observed # NoRecord /\ ~Defended(observed)
    <2>1. task' = Persist("other", FALSE)
      BY <1>2, <1>12 DEF Latched
    <2>2. device' # "challenge"
      BY <1>2, <1>5, <1>12 DEF StoreOwes, Owes, Defended
    <2>3. Led'
      BY <1>2, <1>8, <1>12, <2>1, <2>2, PersistLed DEF Codes
    <2>4. QED
      BY <1>4, <1>5, <1>9, <2>3 DEF ProbeInv
  <1>13. QED
    BY <1>10, <1>11, <1>12

\* A write that failed leaves the file, the record and what they owe.
LEMMA CommitFailsKeeps ==
    ASSUME ProbeInv, CommitFails
    PROVE  ProbeInv'
  <1>1. task.at = "commit" /\ Refused(task) /\ UNCHANGED <<disk, other, record, sent, worldVars, timeVars>>
    BY DEF CommitFails
  <1>2. left' \in 0 .. 3
    BY <1>1 DEF timeVars, ProbeInv, StoreInv
  <1>3. Ground /\ (timer' = timer /\ core' = core => Scheduling')
    BY <1>1, <1>2, StillGround DEF timeVars
  <1>4. SentInv'
    BY <1>1, SentQuiet DEF ProbeInv
  <1>5. /\ CommitFits /\ Sound(task.next)
        /\ device = "challenge" => Owes(task.next)
    BY <1>1, CommitFacts
  <1>6. task.then \in {"arm", "resume", "ack", "safe"} => device' # "challenge"
    <2>1. task.then \in {"arm", "resume", "ack", "safe"} =>
              task.next.phase \in Before \cup {"result", "quiescent"}
      BY <1>5 DEF CommitFits, Brings, Before
    <2>2. QED
      BY <1>1, <1>5, <2>1, SoundRecord DEF Owes, worldVars
  <1>7. task.then \in Follows /\ task.code \in Codes /\ (task.then = "stop" => core.stopping)
    BY <1>5 DEF CommitFits
  <1>8. PICK t : t = task
    OBVIOUS
  <1>9. Led'
    BY <1>1, <1>3, <1>6, <1>7, <1>8, RefusedLed
  <1>10. QED
    BY <1>3, <1>4, <1>9 DEF ProbeInv, Ground

\* The command of a durable record is captured, or what is owed is asked for.
LEMMA DispatchLed ==
    ASSUME Ground, NEW r, r = record', r # NoRecord, r.phase \in {"noop", "challenge", "restore"},
           core.rem /\ ~core.stopping => core.over = "queued",
           device' = "challenge" => r.phase = "restore",
           timer' = timer /\ core' = core => Scheduling', DispatchExpected(r)
    PROVE  Led' /\ SentInv'
  <1>1. Sound(r) /\ r \in RecordType /\ r.op \in Nat /\ r.gen \in Nat /\ r.seq \in Nat
    BY DEF Ground, StoreInv, Sound, RecordValid, RecordType
  <1>2. CASE core.stopping \/ core.rem \/ (core.safe /\ r.phase # "restore")
    <2>1. task' = Rest /\ core' = core /\ timer' = Scheduled(r) /\ sent' = {}
      BY <1>2 DEF DispatchExpected, Settled
    <2>2. Scheduling'
      BY <2>1 DEF Scheduled, Scheduling
    <2>3. Led'
      BY <1>2, <2>1, <2>2, RestLed
    <2>4. QED
      BY <2>1, <2>3 DEF SentInv
  <1>3. CASE ~(core.stopping \/ core.rem \/ (core.safe /\ r.phase # "restore"))
    <2>1. CASE ~due' /\ Settled(r, [at |-> "dispatch", command |-> Command(r)]) /\ sent' = {Command(r)}
      <3>1. /\ task' = [at |-> "dispatch", command |-> Command(r)] /\ core' = core
            /\ timer' = Scheduled(r)
        BY <2>1 DEF Settled
      <3>2. timer' = TRUE
        <4>1. Scheduled(r)
          BY <1>3 DEF Scheduled, Active, Before
        <4>2. Scheduled(r) \in BOOLEAN
          BY DEF Scheduled
        <4>3. QED
          BY <3>1, <4>1, <4>2
      <3>3. Scheduling'
        BY <1>3, <3>1, <3>2 DEF Scheduling, Active, Before
      <3>4. Latches' /\ Known'
        BY <3>1 DEF Ground, Latches, Known
      <3>5. TaskInv' /\ TaskOwes' /\ WatchInv'
        BY <3>1, <3>2 DEF TaskInv, DispatchFits, TaskOwes, WatchInv, Stages
      <3>6. Command(r) \in CommandRecords /\ Command(r) = Command(record)'
        BY <1>1 DEF Command, CommandRecords, Active, Before, Ended
      <3>7. SentInv'
        BY <2>1, <3>1, <3>6 DEF SentInv
      <3>8. QED
        BY <3>3, <3>4, <3>5, <3>7 DEF Led
    <2>2. CASE /\ sent' = {}
               /\ CASE r.phase = "noop"      -> FailSafe(r, "other")
                    [] r.phase = "challenge" -> StartRestore(r, "other")
                    [] r.phase = "restore"   -> EnterRemediation(r, "other", TRUE)
      <3>1. SentInv'
        BY <2>2 DEF SentInv
      <3>2. CASE r.phase = "noop"
        <4>1. FailSafe(r, "other") /\ r.phase \in Before
          BY <2>2, <3>2 DEF Before
        <4>2. QED
          BY <3>1, <4>1, FailSafeLed DEF Codes
      <3>3. CASE r.phase = "challenge"
        <4>1. StartRestore(r, "other")
          BY <2>2, <3>3
        <4>2. QED
          BY <1>1, <1>3, <3>1, <4>1, StartRestoreLed DEF Codes
      <3>4. CASE r.phase = "restore"
        <4>1. EnterRemediation(r, "other", TRUE)
          BY <2>2, <3>4
        <4>2. QED
          BY <3>1, <4>1, EnterRemediationLed DEF Codes
      <3>5. QED
        BY <3>2, <3>3, <3>4
    <2>3. QED
      BY <1>3, <2>1, <2>2 DEF DispatchExpected
  <1>4. QED
    BY <1>2, <1>3

\* A durable end of an operation owes nothing.
LEMMA ResultLed ==
    ASSUME Ground, NEW r, r = record', r # NoRecord, r.phase = "result", ResultDurable(r)
    PROVE  Led'
  <1>1. device' # "challenge"
    <2>1. Sound(r)
      BY DEF Ground, StoreInv
    <2>2. QED
      BY <2>1, SoundRecord DEF Ground, StoreOwes, Owes
  <1>2. CASE core.rem \/ core.over # "no"
    <2>1. task' = Rest /\ core' = core /\ timer' = Scheduled(r)
      BY <1>2 DEF ResultDurable, Settled
    <2>2. Scheduling'
      BY <2>1 DEF Scheduled, Scheduling
    <2>3. QED
      BY <1>1, <2>1, <2>2, RestLed
  <1>3. CASE ~(core.rem \/ core.over # "no") /\ left < 2
    <2>1. EnterRemediation(r, "other", FALSE)
      BY <1>3 DEF ResultDurable
    <2>2. QED
      BY <1>1, <2>1, EnterRemediationLed DEF Codes
  <1>4. CASE ~(core.rem \/ core.over # "no") /\ ~(left < 2)
    <2>1. task' = Rest /\ timer' = ~core.stopping /\ core' = [core EXCEPT !.safe = @ /\ task.then = "safe"]
      BY <1>4 DEF ResultDurable
    <2>2. /\ Latches' /\ core'.rem = core.rem /\ core'.stopping = core.stopping
      BY <1>1, <2>1 DEF Ground, Latches
    <2>3. Scheduling'
      BY <1>4, <2>1, <2>2 DEF Scheduling
    <2>4. Known'
      BY <2>2 DEF Ground, Known
    <2>5. TaskInv' /\ TaskOwes' /\ WatchInv'
      BY <1>1, <2>1 DEF TaskInv, TaskOwes, WatchInv, Rest, Stages
    <2>6. QED
      BY <2>2, <2>3, <2>4, <2>5 DEF Led
  <1>5. QED
    BY <1>2, <1>3, <1>4

\* The record is durable, and everything that waits goes on from it.
LEMMA CommitSucceedsKeeps ==
    ASSUME ProbeInv, CommitSucceeds
    PROVE  ProbeInv'
  <1>1. PICK r : /\ r = task.next
                 /\ disk' = r /\ other' = NoOther /\ record' = r
                 /\ IF r.phase \in Active THEN due' \in {left = 0, TRUE} ELSE due' = FALSE
                 /\ air' = IF air = <<r.op, r.seq>> THEN air ELSE NoCommand
                 /\ CASE task.then \in {"dispatch", "restore", "recover"} -> DispatchExpected(r)
                      [] task.then \in {"safe", "result"} -> ResultDurable(r) /\ sent' = {}
                      [] task.then = "ack" -> AckDurable(r) /\ sent' = {}
                      [] task.then = "stop" -> Goes([at |-> "stop"]) /\ sent' = {}
                      [] OTHER -> Settled(r, Rest) /\ sent' = {}
    BY Zenon DEF CommitSucceeds
  <1>2. task.at = "commit" /\ UNCHANGED <<device, attempted, left, starts>>
    BY DEF CommitSucceeds
  <1>3. /\ CommitFits /\ Sound(r) /\ r # NoRecord
        /\ device = "challenge" => Owes(r) /\ task.then # "dispatch"
        /\ Latches
    BY <1>1, <1>2, CommitFacts
  <1>4. r.op \in Nat \ {0} /\ r.used \in Nat /\ r.seq \in Nat
    BY <1>3, SoundRecord
  <1>5. due' \in BOOLEAN /\ air' \in Nat \X Nat
    <2>1. air \in Nat \X Nat /\ NoCommand \in Nat \X Nat
      BY DEF ProbeInv, StoreInv, NoCommand
    <2>2. QED
      BY <1>1, <2>1
  <1>6. StoreInv'
    BY <1>1, <1>2, <1>3, <1>5 DEF ProbeInv, StoreInv, NoOther
  <1>7. StoreOwes'
    <2>1. SUFFICES ASSUME device = "challenge"
                   PROVE  Owes(r)'
      BY <1>1, <1>2, <1>3 DEF StoreOwes, NoOther
    <2>2. Owes(r)
      BY <1>3, <2>1
    <2>3. CASE air' = air
      BY <1>1, <2>2, <2>3 DEF Owes
    <2>4. CASE air' = NoCommand
      BY <1>1, <1>4, <2>2, <2>4 DEF Owes, NoCommand
    <2>5. QED
      BY <1>1, <2>3, <2>4
  <1>8. Ground
    BY <1>1, <1>2, <1>3, <1>6, <1>7 DEF Ground, Latches
  <1>9. r.phase \in Active \cup {"result"} /\ timer' = timer /\ core' = core => Scheduling'
    BY <1>1, <1>3 DEF ProbeInv, Led, Scheduling
  <1>10. core.rem /\ ~core.stopping => core.over = "queued"
    BY <1>3 DEF CommitFits
  <1>11. ~r.owed => device' # "challenge"
    BY <1>2, <1>3 DEF Owes
  <1>12. CASE task.then \in {"dispatch", "restore", "recover"}
    <2>1. DispatchExpected(r)
      BY <1>1, <1>12
    <2>2. /\ r.phase \in {"noop", "challenge", "restore"}
          /\ task.then # "dispatch" => r.phase = "restore"
      BY <1>1, <1>3, <1>12 DEF CommitFits, Brings
    <2>3. Led' /\ SentInv'
      BY <1>1, <1>2, <1>3, <1>8, <1>9, <1>10, <2>1, <2>2, DispatchLed DEF Active, Before
    <2>4. QED
      BY <1>6, <1>7, <2>3 DEF ProbeInv
  <1>13. CASE task.then \in {"safe", "result"}
    <2>1. ResultDurable(r) /\ sent' = {}
      BY <1>1, <1>13
    <2>2. r.phase = "result"
      BY <1>1, <1>3, <1>13 DEF CommitFits, Brings
    <2>3. Led' /\ SentInv'
      BY <1>1, <1>3, <1>8, <2>1, <2>2, ResultLed DEF SentInv
    <2>4. QED
      BY <1>6, <1>7, <2>3 DEF ProbeInv
  <1>14. CASE task.then = "ack"
    <2>1. AckDurable(r) /\ sent' = {}
      BY <1>1, <1>14
    <2>2. r.phase = "quiescent"
      BY <1>1, <1>3, <1>14 DEF CommitFits, Brings
    <2>3. device' # "challenge"
      BY <1>3, <1>11, <2>2, SoundRecord
    <2>4. CASE \E code \in Codes : EnterRemediation(r, code, TRUE)
      <3>1. Led' /\ SentInv'
        BY <1>1, <1>8, <2>1, <2>4, EnterRemediationLed DEF SentInv
      <3>2. QED
        BY <1>6, <1>7, <3>1 DEF ProbeInv
    <2>5. CASE Settled(r, Rest)
      <3>1. task' = Rest /\ core' = core /\ timer' = FALSE
        BY <2>2, <2>5 DEF Settled, Scheduled, Active, Before
      <3>2. Led' /\ SentInv'
        BY <1>8, <2>1, <2>3, <3>1, RestLed DEF SentInv, Scheduling
      <3>3. QED
        BY <1>6, <1>7, <3>2 DEF ProbeInv
    <2>6. QED
      BY <2>1, <2>4, <2>5 DEF AckDurable, Codes
  <1>15. CASE task.then = "stop"
    <2>1. task' = [at |-> "stop"] /\ core' = core /\ timer' = timer /\ sent' = {}
      BY <1>1, <1>15 DEF Goes
    <2>2. core.stopping /\ r.phase = "restore"
      BY <1>1, <1>3, <1>15 DEF CommitFits, Brings
    <2>3. Led' /\ SentInv'
      BY <1>8, <1>9, <2>1, <2>2, StopLed DEF SentInv, Active
    <2>4. QED
      BY <1>6, <1>7, <2>3 DEF ProbeInv
  <1>16. CASE task.then \in {"arm", "resume", "frame"}
    <2>1. Settled(r, Rest) /\ sent' = {}
      BY <1>1, <1>16
    <2>2. r.phase \in {"physical1", "physical2"}
      BY <1>1, <1>3, <1>16 DEF CommitFits, Brings
    <2>3. device' # "challenge"
      BY <1>3, <1>11, <2>2, SoundRecord DEF Before
    <2>4. task' = Rest /\ core' = core /\ timer' = Scheduled(r)
      BY <2>1 DEF Settled
    <2>5. Scheduling'
      BY <1>1, <1>3, <2>4 DEF Scheduling, Scheduled
    <2>6. Led' /\ SentInv'
      BY <1>8, <2>1, <2>3, <2>4, <2>5, RestLed DEF SentInv
    <2>7. QED
      BY <1>6, <1>7, <2>6 DEF ProbeInv
  <1>17. QED
    BY <1>3, <1>12, <1>13, <1>14, <1>15, <1>16 DEF CommitFits, Follows

-----------------------------------------------------------------------------
(* Commands. *)

\* A challenge is executed only when the file says so.
LEMMA InvokeKeeps ==
    ASSUME ProbeInv, Invoke
    PROVE  ProbeInv'
  <1>1. PICK o \in sent :
            /\ Allows(o)
            /\ sent' = {}
            /\ \/ /\ device' = IF o.phase = "challenge" THEN "challenge" ELSE "intended"
                  /\ attempted' = FALSE
                  /\ air' = <<o.op, o.seq>>
               \/ /\ attempted' = (attempted \/ (device = "challenge" /\ o.phase = "restore"))
                  /\ UNCHANGED <<device, air>>
            /\ UNCHANGED <<disk, other, record, core, timer, task, timeVars>>
    BY DEF Invoke
  <1>2. task.at = "dispatch" /\ o = Command(record) /\ ~core.rem /\ ~core.stopping
    BY <1>1 DEF Allows, ProbeInv, SentInv
  <1>3. record = disk /\ other = NoOther /\ record # NoRecord /\ Sound(record) /\ DispatchFits
    BY <1>2 DEF ProbeInv, Led, Known, TaskInv, DispatchFits, StoreInv
  <1>4. o.op = record.op /\ o.seq = record.seq /\ o.phase = record.phase
    BY <1>2 DEF Command
  <1>5. record.op \in Nat /\ record.seq \in Nat /\ record.seq <= record.used
    BY <1>3, SoundRecord DEF Sound
  <1>6. StoreInv'
    <2>1. device' \in {"intended", "challenge"} /\ attempted' \in BOOLEAN
      BY <1>1 DEF ProbeInv, StoreInv
    <2>2. air' \in Nat \X Nat
      BY <1>1, <1>4, <1>5 DEF ProbeInv, StoreInv
    <2>3. QED
      BY <1>1, <2>1, <2>2 DEF ProbeInv, StoreInv, timeVars
  <1>7. StoreOwes'
    <2>1. SUFFICES ASSUME device' = "challenge"
                   PROVE  Owes(record)'
      BY <1>1, <1>3 DEF StoreOwes, NoOther
    <2>2. CASE UNCHANGED <<device, air>>
      BY <1>1, <1>3, <2>1, <2>2 DEF ProbeInv, StoreOwes, Owes
    <2>3. CASE o.phase = "challenge" /\ air' = <<o.op, o.seq>>
      BY <1>1, <1>3, <1>4, <1>5, <2>3, SoundRecord DEF Owes
    <2>4. QED
      BY <1>1, <2>1, <2>2, <2>3
  <1>8. SentInv'
    BY <1>1 DEF SentInv
  <1>9. Latches' /\ Scheduling' /\ Known'
    BY <1>1, <1>2 DEF ProbeInv, Led, Latches, Scheduling, Known
  <1>10. TaskInv' /\ TaskOwes' /\ WatchInv'
    BY <1>1, <1>2, <1>3 DEF TaskInv, DispatchFits, TaskOwes, WatchInv, Stages
  <1>11. QED
    BY <1>6, <1>7, <1>8, <1>9, <1>10 DEF ProbeInv, Led

\* A dispatch that is over waits for the proof, or its phase ends.
LEMMA RaceEndsKeeps ==
    ASSUME ProbeInv, RaceEnds
    PROVE  ProbeInv'
  <1>1. task.at = "dispatch" /\ UNCHANGED <<disk, other, record, worldVars, timeVars>>
    BY DEF RaceEnds
  <1>2. left' \in 0 .. 3
    BY <1>1 DEF timeVars, ProbeInv, StoreInv
  <1>3. Ground /\ (timer' = timer /\ core' = core => Scheduling')
    BY <1>1, <1>2, StillGround DEF timeVars
  <1>4. DispatchFits /\ Sound(record) /\ record \in RecordType
    BY <1>1 DEF ProbeInv, Led, TaskInv, DispatchFits, StoreInv, Sound, RecordValid
  <1>5. SentInv'
    BY SentQuiet DEF RaceEnds, ProbeInv
  <1>6. ASSUME Goes(Rest)
        PROVE  Led'
    <2>1. task' = Rest /\ core' = core /\ timer' = timer
      BY <1>6 DEF Goes
    <2>2. QED
      BY <1>3, <1>4, <2>1, RestLed DEF DispatchFits
  <1>7. CASE (sent = {} /\ Goes(Rest)) \/ core.stopping \/ core.rem \/ (core.safe /\ record.phase # "restore")
    <2>1. Goes(Rest)
      BY <1>7 DEF RaceEnds
    <2>2. QED
      BY <1>3, <1>5, <1>6, <2>1 DEF ProbeInv, Ground
  <1>8. CASE ~((sent = {} /\ Goes(Rest)) \/ core.stopping \/ core.rem
                \/ (core.safe /\ record.phase # "restore"))
    <2>1. CASE record.phase = "noop"
      <3>1. FailSafe(record, "other") /\ record.phase \in Before
        BY <1>8, <2>1 DEF RaceEnds, Before
      <3>2. PICK r : r = record /\ r = record'
        BY <1>1
      <3>3. FailSafe(r, "other") /\ r.phase \in Before /\ r # NoRecord
        BY <1>4, <3>1, <3>2 DEF DispatchFits
      <3>4. Led'
        BY <1>3, <1>8, <3>2, <3>3, FailSafeLed DEF Codes
      <3>5. QED
        BY <1>3, <1>5, <3>4 DEF ProbeInv, Ground
    <2>2. CASE record.phase = "challenge"
      <3>1. StartRestore(record, "other")
        BY <1>8, <2>2 DEF RaceEnds
      <3>2. Led'
        BY <1>1, <1>3, <1>4, <1>8, <3>1, StartRestoreLed DEF Codes, DispatchFits
      <3>3. QED
        BY <1>3, <1>5, <3>2 DEF ProbeInv, Ground
    <2>3. CASE record.phase = "restore"
      <3>1. EnterRemediation(record, "other", TRUE)
        BY <1>8, <2>3 DEF RaceEnds
      <3>2. Led'
        BY <1>1, <1>3, <3>1, EnterRemediationLed DEF Codes
      <3>3. QED
        BY <1>3, <1>5, <3>2 DEF ProbeInv, Ground
    <2>4. QED
      BY <1>4, <2>1, <2>2, <2>3 DEF DispatchFits
  <1>9. QED
    BY <1>7, <1>8

\* A restore that was tried is not one that is done: it stays owed.
LEMMA SafetyRestoreKeeps ==
    ASSUME ProbeInv, SafetyRestore
    PROVE  ProbeInv'
  <1>1. /\ task.at = "safety" /\ UNCHANGED <<disk, other, record, timer, sent, timeVars, air>>
        /\ task' = IF task.persist THEN Persist(task.code, TRUE) ELSE Rest
    BY DEF SafetyRestore, worldVars
  <1>2. SafetyFits /\ Latches
    BY <1>1 DEF ProbeInv, Led, TaskInv
  <1>3. /\ device' \in {device, "intended"}
        /\ attempted' = (device' = "challenge") \/ (UNCHANGED worldVars /\ core.stopping)
        /\ \E issued \in BOOLEAN : /\ core' = [core EXCEPT !.issued = @ \/ issued]
                                   /\ issued => core.stopping /\ attempted' = (device' = "challenge")
    <2>1. CASE core.stopping /\ ~task.allow
      <3>1. UNCHANGED <<core, worldVars>>
        BY <2>1 DEF SafetyRestore
      <3>2. core' = [core EXCEPT !.issued = @ \/ FALSE]
        BY <1>2, <3>1 DEF Latches
      <3>3. QED
        BY <2>1, <3>1, <3>2 DEF worldVars
    <2>2. CASE ~(core.stopping /\ ~task.allow)
      <3>1. PICK invoked \in BOOLEAN :
                /\ device' \in IF invoked THEN {device, "intended"} ELSE {device}
                /\ attempted' = (device' = "challenge")
                /\ core' = [core EXCEPT !.issued = @ \/ (invoked /\ task.allow)]
        BY <2>2 DEF SafetyRestore
      <3>2. PICK issued \in BOOLEAN : issued = (invoked /\ task.allow)
        BY <1>2 DEF SafetyFits
      <3>3. core' = [core EXCEPT !.issued = @ \/ issued] /\ (issued => core.stopping)
        BY <1>2, <3>1, <3>2 DEF SafetyFits
      <3>4. QED
        BY <3>1, <3>3
    <2>3. QED
      BY <2>1, <2>2
  <1>4. /\ core'.rem /\ core'.stopping = core.stopping /\ Latches'
    BY <1>2, <1>3 DEF Latches, SafetyFits, worldVars
  <1>5. StoreInv'
    BY <1>1, <1>3 DEF ProbeInv, StoreInv, timeVars, worldVars
  <1>6. device' = "challenge" => device = "challenge"
    BY <1>3
  <1>7. StoreOwes'
    BY <1>1, <1>6 DEF ProbeInv, StoreOwes, Owes
  <1>8. SentInv'
    BY <1>1, SentQuiet DEF ProbeInv
  <1>9. timer' = FALSE
    BY <1>1, <1>2 DEF ProbeInv, Led, Scheduling, SafetyFits
  <1>10. LatchedGround
    BY <1>4, <1>7, <1>9 DEF LatchedGround
  <1>11. device' = "challenge" => attempted' \/ core'.stopping
    BY <1>3, <1>4
  <1>12. CASE task.persist
    <2>1. task' = Persist(task.code, TRUE)
      BY <1>1, <1>12
    <2>2. Led'
      BY <1>1, <1>2, <1>10, <1>11, <2>1, PersistLed DEF SafetyFits
    <2>3. QED
      BY <1>5, <1>7, <1>8, <2>2 DEF ProbeInv
  <1>13. CASE ~task.persist
    <2>1. task' = Rest
      BY <1>1, <1>13
    <2>2. Led'
      BY <1>10, <1>11, <2>1, IdleLed
    <2>3. QED
      BY <1>5, <1>7, <1>8, <2>2 DEF ProbeInv
  <1>14. QED
    BY <1>12, <1>13

\* Remediation is written with what is owed; a write in doubt leaves only what owes it as well.
LEMMA PersistRemediationKeeps ==
    ASSUME ProbeInv, PersistRemediation
    PROVE  ProbeInv'
  <1>1. task.at = "persist" /\ UNCHANGED <<timer, sent, worldVars, left, starts>>
    BY DEF PersistRemediation
  <1>2. PersistFits /\ Latches /\ (device = "challenge" => task.owed)
    BY <1>1 DEF ProbeInv, Led, TaskInv, TaskOwes
  <1>3. record # NoRecord /\ Sound(record) /\ core.rem /\ task.code \in Codes /\ task.owed \in BOOLEAN
    BY <1>2 DEF PersistFits, ProbeInv, StoreInv
  <1>4. PICK next : next = RemediationRecord(record, task.code, task.owed)
    OBVIOUS
  <1>5. /\ Sound(next) /\ next.op = record.op /\ next.used = record.used /\ next.phase = "remediation"
        /\ next.owed = task.owed
    BY <1>3, <1>4, RemediationSound
  <1>6. next # NoRecord
    BY <1>5, SoundRecord
  <1>7. /\ disk' \in {disk, next} \cup (IF other.kind = "behind" THEN {other.rec} ELSE {})
        /\ record' \in {record, next}
        /\ other' \in {other, NoOther, [kind |-> "behind", rec |-> disk], [kind |-> "late", rec |-> next]}
        /\ due' \in {due, FALSE}
        /\ task' = Rest \/ task' = Safety("other", FALSE, core.stopping)
        /\ core' = core \/ \E blocked \in BOOLEAN : core' = [core EXCEPT !.blocked = @ \/ blocked]
    <2>1. CASE /\ <<record.phase, record.code, record.owed>> = <<"remediation", task.code, task.owed>>
               /\ task' = Rest
               /\ UNCHANGED <<disk, other, record, due, core>>
      BY <2>1
    <2>2. CASE \E blocked \in BOOLEAN :
                   /\ record' = next /\ due' = FALSE /\ core' = [core EXCEPT !.blocked = @ \/ blocked]
                   /\ \/ task' = Rest /\ UNCHANGED <<disk, other>>
                      \/ task' = Rest /\ disk' = next /\ other' = NoOther
                      \/ /\ task' = Rest /\ disk' = next
                         /\ other' = IF other.kind = "behind" THEN other ELSE [kind |-> "behind", rec |-> disk]
                      \/ /\ task' = IF record.owed /\ ~task.owed THEN Safety("other", FALSE, core.stopping)
                                                                 ELSE Rest
                         /\ disk' \in {disk} \cup (IF other.kind = "behind" THEN {other.rec} ELSE {})
                         /\ other' = [kind |-> "late", rec |-> next]
      BY <2>2
    <2>3. QED
      BY <1>4, <2>1, <2>2, Zenon DEF PersistRemediation
  <1>8. StoreInv'
    <2>1. /\ disk # NoRecord => Sound(disk)
          /\ other.rec # NoRecord => Sound(other.rec)
      BY DEF ProbeInv, StoreInv
    <2>2. disk' # NoRecord => Sound(disk')
      BY <1>5, <1>7, <2>1
    <2>3. record' # NoRecord => Sound(record')
      BY <1>3, <1>5, <1>7
    <2>4. other'.rec # NoRecord => Sound(other'.rec)
      BY <1>5, <1>7, <2>1 DEF NoOther
    <2>5. /\ other'.kind \in {"none", "late", "behind", "temp", "torn"}
          /\ other' = [kind |-> other'.kind, rec |-> other'.rec]
          /\ other'.kind = "none" => other'.rec = NoRecord
          /\ other'.kind \in {"late", "temp"} => other'.rec # NoRecord
      BY <1>6, <1>7 DEF NoOther, ProbeInv, StoreInv
    <2>6. due' \in BOOLEAN
      BY <1>7 DEF ProbeInv, StoreInv
    <2>7. \A r \in {disk', record', other'.rec} \ {NoRecord} : Sound(r)
      BY <2>2, <2>3, <2>4
    <2>8. QED
      BY <1>1, <2>5, <2>6, <2>7 DEF ProbeInv, StoreInv, worldVars
  <1>9. StoreOwes'
    <2>1. SUFFICES ASSUME device' = "challenge"
                   PROVE  /\ disk' # NoRecord /\ (other'.kind \notin {"none", "torn"} => other'.rec # NoRecord)
                          /\ Owes(disk)' /\ Owes(record)' /\ (other'.rec # NoRecord => Owes(other.rec)')
      BY DEF StoreOwes
    <2>2. /\ device = "challenge" /\ disk # NoRecord /\ Owes(disk) /\ Owes(record)
          /\ other.rec # NoRecord => Owes(other.rec)
          /\ other.kind \notin {"none", "torn"} => other.rec # NoRecord
          /\ task.owed = TRUE
      BY <1>1, <1>2, <1>3, <2>1 DEF ProbeInv, StoreOwes, worldVars
    <2>3. Owes(next)
      BY <1>5, <2>2 DEF Owes
    <2>4. disk' # NoRecord /\ disk'.op = disk.op /\ Owes(disk') /\ air' = air
      BY <1>1, <1>6, <1>7, <2>2, <2>3 DEF Owes, worldVars
    <2>5. \A r : Owes(r) => Owes(r)'
      BY <2>4 DEF Owes
    <2>6. Owes(disk)'
      BY <2>4 DEF Owes
    <2>7. Owes(record)'
      BY <1>7, <2>2, <2>3, <2>4 DEF Owes
    <2>8. other'.kind \notin {"none", "torn"} => other'.rec # NoRecord
      BY <1>6, <1>7, <2>2 DEF NoOther
    <2>9. ASSUME other'.rec # NoRecord
          PROVE  Owes(other.rec)'
      <3>1. PICK o : o = other'.rec
        OBVIOUS
      <3>2. o # NoRecord /\ Owes(o)
        BY <1>7, <2>2, <2>3, <2>9, <3>1 DEF NoOther
      <3>3. QED
        BY <2>4, <3>1, <3>2 DEF Owes
    <2>10. QED
      BY <2>4, <2>6, <2>7, <2>8, <2>9
  <1>10. SentInv'
    BY <1>1, SentQuiet DEF ProbeInv
  <1>11. Latches' /\ core'.rem /\ core'.stopping = core.stopping
    BY <1>1, <1>2, <1>3, <1>7 DEF Latches, worldVars
  <1>12. timer' = FALSE
    BY <1>1, <1>3 DEF ProbeInv, Led, Scheduling
  <1>13. LatchedGround
    BY <1>9, <1>11, <1>12 DEF LatchedGround
  <1>14. CASE task' = Rest
    <2>1. device' = "challenge" => attempted' \/ core'.stopping
      BY <1>1, <1>11 DEF ProbeInv, Led, WatchInv, worldVars
    <2>2. Led'
      BY <1>13, <1>14, <2>1, IdleLed
    <2>3. QED
      BY <1>8, <1>9, <1>10, <2>2 DEF ProbeInv
  <1>15. CASE task' = Safety("other", FALSE, core.stopping)
    <2>1. PICK allow \in BOOLEAN : allow = core.stopping
      BY <1>2 DEF Latches
    <2>2. task' = Safety("other", FALSE, allow) /\ record' # NoRecord
      BY <1>3, <1>6, <1>7, <1>15, <2>1
    <2>3. Led'
      BY <1>11, <1>13, <2>1, <2>2, SafetyLed DEF Codes
    <2>4. QED
      BY <1>8, <1>9, <1>10, <2>3 DEF ProbeInv
  <1>16. QED
    BY <1>7, <1>14, <1>15

-----------------------------------------------------------------------------
(* A full queue, a stop and time. *)

\* A full queue revokes the commands and is a task in place of the timer.
LEMMA LatchQueueOverflowKeeps ==
    ASSUME ProbeInv, LatchQueueOverflow
    PROVE  ProbeInv'
  <1>1. /\ task.at \notin {"idle", "down"} /\ ~core.stopping
        /\ core' = [core EXCEPT !.rem = TRUE, !.safe = TRUE, !.over = "queued"]
        /\ timer' = FALSE /\ sent' = Revoked
        /\ UNCHANGED <<disk, other, record, task, worldVars, timeVars>>
    BY DEF LatchQueueOverflow
  <1>2. StoreInv' /\ StoreOwes'
    BY <1>1 DEF ProbeInv, StoreInv, StoreOwes, Owes, worldVars, timeVars
  <1>3. SentInv'
    BY <1>1, SentQuiet DEF ProbeInv
  <1>4. /\ Latches' /\ core'.rem /\ core'.over = "queued" /\ core'.stopping = core.stopping
    BY <1>1 DEF ProbeInv, Led, Latches, worldVars
  <1>5. Scheduling' /\ Known'
    BY <1>1, <1>4 DEF Scheduling, Known
  <1>6. TaskInv'
    <2>1. TaskInv /\ task' = task /\ record' = record
      BY <1>1 DEF ProbeInv, Led
    <2>2. task'.at = "load" => LoadFits'
      BY <1>4, <2>1 DEF TaskInv, LoadFits
    <2>3. task'.at = "resolve" => ResolveFits'
      BY <2>1 DEF TaskInv, ResolveFits
    <2>4. task'.at = "commit" => CommitFits'
      BY <1>4, <2>1 DEF TaskInv, CommitFits
    <2>5. task'.at = "dispatch" => DispatchFits'
      BY <1>4, <2>1 DEF TaskInv, DispatchFits
    <2>6. task'.at = "safety" => SafetyFits'
      BY <1>4, <2>1 DEF TaskInv, SafetyFits
    <2>7. task'.at = "persist" => PersistFits'
      BY <1>4, <2>1 DEF TaskInv, PersistFits
    <2>8. QED
      BY <1>4, <2>1, <2>2, <2>3, <2>4, <2>5, <2>6, <2>7 DEF TaskInv
  <1>7. TaskOwes' /\ WatchInv'
    BY <1>1, <1>4 DEF ProbeInv, Led, TaskOwes, Owes, WatchInv, worldVars
  <1>8. QED
    BY <1>2, <1>3, <1>4, <1>5, <1>6, <1>7 DEF ProbeInv, Led

\* The task of a full queue restores what is owed.
LEMMA HandleQueueOverflowKeeps ==
    ASSUME ProbeInv, HandleQueueOverflow
    PROVE  ProbeInv'
  <1>1. /\ task = Rest /\ task.at = "idle" /\ core.over = "queued"
        /\ core' = [core EXCEPT !.over = "done"] /\ timer' = FALSE
        /\ UNCHANGED <<disk, other, record, sent, worldVars, timeVars>>
    BY DEF HandleQueueOverflow, Latched, Rest
  <1>2. StoreInv' /\ StoreOwes'
    BY <1>1 DEF ProbeInv, StoreInv, StoreOwes, Owes, worldVars, timeVars
  <1>3. SentInv'
    BY <1>1, SentQuiet DEF ProbeInv
  <1>4. Latches' /\ core'.rem
    BY <1>1 DEF ProbeInv, Led, Latches, worldVars
  <1>5. LatchedGround
    BY <1>1, <1>2, <1>4 DEF LatchedGround
  <1>6. PICK owed : owed = NeedsRestore(record) /\ owed \in BOOLEAN
    BY DEF NeedsRestore
  <1>7. task' = IF record = NoRecord THEN Rest
                ELSE IF owed THEN Safety("drift", TRUE, FALSE) ELSE Persist("drift", FALSE)
    BY <1>6 DEF HandleQueueOverflow, Latched
  <1>8. CASE record = NoRecord
    <2>1. Led'
      BY <1>1, <1>5, <1>7, <1>8, IdleLed
    <2>2. QED
      BY <1>2, <1>3, <2>1 DEF ProbeInv
  <1>9. CASE record # NoRecord /\ owed
    <2>1. Led'
      BY <1>1, <1>5, <1>7, <1>9, SafetyLed DEF Codes
    <2>2. QED
      BY <1>2, <1>3, <2>1 DEF ProbeInv
  <1>10. CASE record # NoRecord /\ ~owed
    <2>1. device' # "challenge"
      BY <1>1, <1>2, <1>6, <1>10 DEF NeedsRestore, StoreOwes, Owes
    <2>2. task' = Persist("drift", FALSE) /\ record' # NoRecord
      BY <1>1, <1>7, <1>10
    <2>3. Led'
      BY <1>5, <2>1, <2>2, PersistLed DEF Codes
    <2>4. QED
      BY <1>2, <1>3, <2>3 DEF ProbeInv
  <1>11. QED
    BY <1>8, <1>9, <1>10

\* A stop revokes the commands; what is owed is for its last task, or for the next start.
LEMMA RequestStopKeeps ==
    ASSUME ProbeInv, RequestStop
    PROVE  ProbeInv'
  <1>1. /\ task.at # "down"
        /\ core' = [core EXCEPT !.safe = TRUE, !.stopping = TRUE]
        /\ timer' = FALSE /\ sent' = Revoked
        /\ UNCHANGED <<disk, other, record, task, worldVars, timeVars>>
    BY DEF RequestStop
  <1>2. StoreInv' /\ StoreOwes'
    BY <1>1 DEF ProbeInv, StoreInv, StoreOwes, Owes, worldVars, timeVars
  <1>3. SentInv'
    BY <1>1, SentQuiet DEF ProbeInv
  <1>4. /\ Latches' /\ core'.rem = core.rem /\ core'.over = core.over /\ core'.stopping
    BY <1>1 DEF ProbeInv, Led, Latches, worldVars
  <1>5. Scheduling' /\ (task'.at # "load" => Known')
    BY <1>1, <1>4 DEF ProbeInv, Led, Scheduling, Known
  <1>6. TaskInv'
    <2>1. TaskInv /\ task' = task /\ record' = record
      BY <1>1 DEF ProbeInv, Led
    <2>2. task'.at = "load" => LoadFits'
      BY <1>4, <2>1 DEF TaskInv, LoadFits
    <2>3. task'.at = "resolve" => ResolveFits'
      BY <2>1 DEF TaskInv, ResolveFits
    <2>4. task'.at = "commit" => CommitFits'
      BY <1>4, <2>1 DEF TaskInv, CommitFits
    <2>5. task'.at = "dispatch" => DispatchFits'
      BY <1>4, <2>1 DEF TaskInv, DispatchFits
    <2>6. task'.at = "safety" => SafetyFits'
      BY <1>4, <2>1 DEF TaskInv, SafetyFits
    <2>7. task'.at = "persist" => PersistFits'
      BY <1>4, <2>1 DEF TaskInv, PersistFits
    <2>8. QED
      BY <1>4, <2>1, <2>2, <2>3, <2>4, <2>5, <2>6, <2>7 DEF TaskInv
  <1>7. TaskOwes' /\ WatchInv'
    BY <1>1, <1>4 DEF ProbeInv, Led, TaskOwes, Owes, WatchInv, worldVars
  <1>8. QED
    BY <1>2, <1>3, <1>4, <1>5, <1>6, <1>7 DEF ProbeInv, Led

\* A stop claims the restore that is owed; only when none is, or one was tried, it is over.
LEMMA StopKeeps ==
    ASSUME ProbeInv, Stop
    PROVE  ProbeInv'
  <1>1. task.at = "idle" /\ core.stopping /\ UNCHANGED <<disk, other, record, sent, worldVars, timeVars>>
    BY DEF Stop, Quiet, Rest
  <1>2. left' \in 0 .. 3
    BY <1>1 DEF timeVars, ProbeInv, StoreInv
  <1>3. Ground /\ (timer' = timer /\ core' = core => Scheduling')
    BY <1>1, <1>2, StillGround DEF timeVars
  <1>4. SentInv'
    BY <1>1, SentQuiet DEF ProbeInv
  <1>5. PICK n : /\ n = RestoreRecord(record, "other", record.after)
                 /\ IF record = NoRecord \/ core.issued THEN Goes(Gone)
                    ELSE IF ~record.owed THEN Goes(Gone)
                    ELSE IF record.phase = "challenge" /\ ~core.blocked /\ CanClaim(record) /\ RecordValid(n)
                    THEN Goes(Commit(n, "stop", "other"))
                    ELSE Goes([at |-> "stop"])
    BY Zenon DEF Stop
  <1>6. CASE record = NoRecord \/ core.issued \/ ~record.owed
    <2>1. task' = Gone /\ core' = core /\ timer' = timer
      BY <1>5, <1>6 DEF Goes
    <2>2. device' = "challenge" /\ ~attempted' => record' = NoRecord
      BY <1>1, <1>3, <1>6 DEF Ground, StoreOwes, Owes
    <2>3. Latches' /\ Known'
      BY <1>3, <2>1 DEF Ground, Latches, Known
    <2>4. TaskInv' /\ TaskOwes' /\ WatchInv'
      BY <1>1, <2>1, <2>2 DEF TaskInv, TaskOwes, WatchInv, Gone, Stages
    <2>5. QED
      BY <1>3, <1>4, <2>1, <2>3, <2>4 DEF ProbeInv, Ground, Led
  <1>7. CASE /\ ~(record = NoRecord \/ core.issued \/ ~record.owed)
             /\ Goes(Commit(n, "stop", "other")) /\ RecordValid(n)
    <2>1. Sound(record) /\ record \in RecordType
      BY <1>7 DEF ProbeInv, StoreInv, Sound, RecordValid
    <2>2. PICK after : after = record.after
      OBVIOUS
    <2>3. /\ n.phase = "restore" /\ n.owed = TRUE /\ n.op = record.op
          /\ n.used = record.used + 1 /\ n.seq = record.used + 1
      BY <1>5, <2>1, <2>2 DEF RestoreRecord, RecordType
    <2>4. record.used \in Nat
      BY <2>1, SoundRecord
    <2>5. Sound(n)
      BY <1>7, <2>3, <2>4 DEF Sound
    <2>6. ASSUME device' = "challenge"
          PROVE  Owes(n)'
      <3>1. record'.op = disk'.op /\ air'[2] <= record'.used /\ air' \in Nat \X Nat /\ record' = record
        BY <1>1, <1>3, <1>7, <2>6 DEF Ground, StoreInv, StoreOwes, Owes
      <3>2. QED
        BY <2>3, <2>4, <3>1 DEF Owes
    <2>7. task' = Commit(n, "stop", "other") /\ core' = core /\ timer' = timer
      BY <1>7 DEF Goes
    <2>8. timer' = FALSE
      BY <1>1, <2>7 DEF ProbeInv, Led, Scheduling
    <2>9. Led'
      BY <1>1, <1>3, <2>3, <2>5, <2>6, <2>7, <2>8, ClaimLed DEF Codes
    <2>10. QED
      BY <1>3, <1>4, <2>9 DEF ProbeInv, Ground
  <1>8. CASE Goes([at |-> "stop"])
    <2>1. task' = [at |-> "stop"] /\ core' = core /\ timer' = timer
      BY <1>8 DEF Goes
    <2>2. Led'
      BY <1>1, <1>3, <2>1, StopLed
    <2>3. QED
      BY <1>3, <1>4, <2>2 DEF ProbeInv, Ground
  <1>9. QED
    BY <1>5, <1>6, <1>7, <1>8

\* The last task of a stop tries the restore.
LEMMA StopDispatchKeeps ==
    ASSUME ProbeInv, StopDispatch
    PROVE  ProbeInv'
  <1>1. /\ task.at = "stop" /\ device' \in {device, "intended"} /\ attempted' = (device' = "challenge")
        /\ task' = Gone /\ core' = core /\ timer' = timer
        /\ UNCHANGED <<disk, other, record, sent, air, timeVars>>
    BY DEF StopDispatch, Goes
  <1>2. core.stopping
    BY <1>1 DEF ProbeInv, Led, TaskInv
  <1>3. StoreInv'
    BY <1>1 DEF ProbeInv, StoreInv, timeVars
  <1>4. StoreOwes'
    BY <1>1 DEF ProbeInv, StoreOwes, Owes
  <1>5. SentInv'
    BY <1>1, SentQuiet DEF ProbeInv
  <1>6. Latches' /\ Scheduling' /\ Known'
    BY <1>1 DEF ProbeInv, Led, Latches, Scheduling, Known
  <1>7. TaskInv' /\ TaskOwes' /\ WatchInv'
    BY <1>1, <1>2 DEF TaskInv, TaskOwes, WatchInv, Gone, Stages
  <1>8. QED
    BY <1>3, <1>4, <1>5, <1>6, <1>7 DEF ProbeInv, Led

\* Nothing of the invariant is about the time that is left.
LEMMA TimeKeeps ==
    ASSUME ProbeInv, left' \in 0 .. 3, due' \in BOOLEAN,
           UNCHANGED <<disk, other, record, core, timer, task, sent, worldVars, starts>>
    PROVE  ProbeInv'
  <1>1. StoreInv'
    BY DEF ProbeInv, StoreInv, worldVars
  <1>2. StoreOwes'
    BY DEF ProbeInv, StoreOwes, Owes, worldVars
  <1>3. SentInv'
    BY DEF ProbeInv, SentInv, Command
  <1>4. Latches' /\ Scheduling' /\ (task'.at # "load" => Known')
    BY DEF ProbeInv, Led, Latches, Scheduling, Known, worldVars
  <1>5. TaskInv'
    BY DEF ProbeInv, Led, TaskInv, LoadFits, ResolveFits, CommitFits, DispatchFits, SafetyFits, PersistFits
  <1>6. TaskOwes' /\ WatchInv'
    BY DEF ProbeInv, Led, TaskOwes, Owes, WatchInv, worldVars
  <1>7. QED
    BY <1>1, <1>2, <1>3, <1>4, <1>5, <1>6 DEF ProbeInv, Led

\* Time that passes leaves everything but the deadlines.
LEMMA TimePassesKeeps ==
    ASSUME ProbeInv, TimePasses
    PROVE  ProbeInv'
  <1>1. left \in 0 .. 3 /\ due \in BOOLEAN
    BY DEF ProbeInv, StoreInv
  <1>2. CASE Tick
    <2>1. left' \in 0 .. 3
      BY <1>1, <1>2 DEF Tick
    <2>2. due' \in BOOLEAN
      <3>1. (left = 1 /\ Timed) \in BOOLEAN /\ due' = (due \/ (left = 1 /\ Timed))
        BY <1>2 DEF Tick
      <3>2. QED
        BY <1>1, <3>1
    <2>3. QED
      BY <1>2, <2>1, <2>2, TimeKeeps DEF Tick
  <1>3. CASE ProofFallsDue
    BY <1>1, <1>3, TimeKeeps DEF ProofFallsDue
  <1>4. QED
    BY <1>2, <1>3 DEF TimePasses

-----------------------------------------------------------------------------
(* Crashes, and the start after one. *)

\* The remediation made of two files owes what either of them may.
LEMMA SynthesisFits ==
    ASSUME StoreInv, StoreOwes, other.kind = "temp", SameOperation(disk, other.rec),
           NEW r, r = Synthesised(disk, other.rec)
    PROVE  Sound(r) /\ r # NoRecord /\ r.phase = "remediation" /\ (device = "challenge" => Owes(r))
  <1>1. PICK evidence : evidence = {disk, other.rec} \ {NoRecord}
    OBVIOUS
  <1>2. other.rec \in evidence /\ \A e \in evidence : Sound(e) /\ (device = "challenge" => Owes(e))
    BY <1>1 DEF StoreInv, StoreOwes
  <1>3. \A e \in evidence : e.gen \in Int
    BY <1>2, ProbeBounds DEF Sound, RecordValid, RecordType
  <1>4. \E e \in evidence : \A o \in evidence : e.gen >= o.gen
    <2>1. evidence = {other.rec} \/ evidence = {disk, other.rec}
      BY <1>1, <1>2
    <2>2. QED
      BY <1>3, <2>1
  <1>5. PICK source : source = CHOOSE e \in evidence : \A o \in evidence : e.gen >= o.gen
    OBVIOUS
  <1>6. source \in evidence
    BY <1>4, <1>5
  <1>7. PICK owed : owed = (\E e \in evidence : EvidenceMayRequireRestore(e)) /\ owed \in BOOLEAN
    OBVIOUS
  <1>8. r = RemediationRecord(source, "other", owed)
    BY <1>1, <1>5, <1>7, Zenon DEF Synthesised
  <1>9. /\ Sound(r) /\ r.op = source.op /\ r.used = source.used /\ r.phase = "remediation"
        /\ r.owed = owed
    <2>1. owed \in BOOLEAN /\ "other" \in Codes /\ Sound(source)
      BY <1>2, <1>6, <1>7 DEF Codes
    <2>2. QED
      BY <1>8, <2>1, RemediationSound
  <1>10. ASSUME device = "challenge"
         PROVE  Owes(r)
    <2>1. Owes(source) /\ Owes(other.rec)
      BY <1>2, <1>6, <1>10
    <2>2. owed
      BY <1>2, <1>7, <2>1 DEF EvidenceMayRequireRestore, Owes
    <2>3. QED
      BY <1>9, <2>1, <2>2 DEF Owes
  <1>11. QED
    BY <1>9, <1>10, SoundRecord

\* Whatever a crash leaves is sound, and owes the restore of a challenged valve.
CrashFits(found) ==
    /\ found[1] # NoRecord => Sound(found[1])
    /\ \/ found[2] = NoOther
       \/ found[2] = Temp(found[2].rec) /\ found[2].rec # NoRecord
       \/ found[2] = Torn(found[2].rec)
    /\ found[2].rec # NoRecord => Sound(found[2].rec)
    /\ device = "challenge" =>
           /\ found[1] # NoRecord /\ Owes(found[1])
           /\ found[2].rec # NoRecord => Owes(found[2].rec)

\* The directories that a crash may leave fit, whatever write was under way.
LEMMA CrashLeaves ==
    ASSUME ProbeInv, NEW found \in AfterCrash
    PROVE  CrashFits(found)
  <1>1. /\ disk # NoRecord => Sound(disk)
        /\ other.kind \in {"none", "late", "behind", "temp", "torn"}
        /\ other = [kind |-> other.kind, rec |-> other.rec]
        /\ other.rec # NoRecord => Sound(other.rec)
        /\ other.kind \in {"late", "temp"} => other.rec # NoRecord
    BY DEF ProbeInv, StoreInv
  <1>2. device = "challenge" =>
            /\ disk # NoRecord /\ Owes(disk)
            /\ other.kind \notin {"none", "torn"} => other.rec # NoRecord
            /\ other.rec # NoRecord => Owes(other.rec)
            /\ record # NoRecord => Owes(record)
    BY DEF ProbeInv, StoreOwes
  <1>3. task.at = "commit" =>
            /\ Sound(task.next) /\ task.next # NoRecord
            /\ device = "challenge" => Owes(task.next)
    BY CommitFacts
  <1>4. PICK rem : rem = RemediationRecord(record, task.code, task.owed)
    OBVIOUS
  <1>5. ASSUME task.at = "persist"
        PROVE  rem # NoRecord /\ Sound(rem) /\ (device = "challenge" => Owes(rem))
    <2>1. PersistFits /\ (device = "challenge" => task.owed) /\ record # NoRecord /\ Sound(record)
      BY <1>5 DEF ProbeInv, Led, TaskInv, TaskOwes, PersistFits, StoreInv
    <2>2. /\ Sound(rem) /\ rem.op = record.op /\ rem.used = record.used /\ rem.phase = "remediation"
          /\ rem.owed = task.owed
      BY <1>4, <2>1, RemediationSound DEF PersistFits
    <2>3. QED
      BY <1>2, <2>1, <2>2, SoundRecord DEF Owes
  <1>6. CASE other.kind = "torn"
    <2>1. found = <<disk, other>>
      BY <1>6 DEF AfterCrash
    <2>2. QED
      BY <1>1, <1>2, <1>6, <2>1 DEF CrashFits, Torn
  <1>7. CASE other.kind = "temp"
    <2>1. PICK made : made = IF task = Load /\ SameOperation(disk, other.rec)
                             THEN {Synthesised(disk, other.rec)} ELSE {}
      OBVIOUS
    <2>2. found \in {<<r, other>> : r \in {disk} \cup made}
                   \cup {<<r, NoOther>> : r \in made} \cup {<<disk, Torn(other.rec)>> : r \in made}
      BY <1>7, <2>1 DEF AfterCrash
    <2>3. \A r \in made : r # NoRecord /\ Sound(r) /\ (device = "challenge" => Owes(r))
      BY <1>7, <2>1, SynthesisFits DEF ProbeInv
    <2>4. other.rec # NoRecord /\ other = Temp(other.rec)
      BY <1>1, <1>7 DEF Temp
    <2>5. NoOther.rec = NoRecord /\ Torn(other.rec).rec = other.rec
      BY DEF NoOther, Torn
    <2>6. CASE \E r \in {disk} \cup made : found = <<r, other>>
      BY <1>1, <1>2, <2>3, <2>4, <2>6 DEF CrashFits
    <2>7. CASE \E r \in made : found = <<r, NoOther>>
      BY <2>3, <2>5, <2>7 DEF CrashFits
    <2>8. CASE found = <<disk, Torn(other.rec)>>
      BY <1>1, <1>2, <2>5, <2>8 DEF CrashFits
    <2>9. QED
      BY <2>2, <2>6, <2>7, <2>8
  <1>8. CASE other.kind \notin {"temp", "torn"}
    <2>1. PICK here : here = {disk} \cup (IF other.kind = "behind" THEN {other.rec} ELSE {})
      OBVIOUS
    <2>2. PICK hoped : hoped = (IF other.kind = "late" THEN {other.rec} ELSE {})
                               \cup (IF task.at = "commit" THEN {task.next} ELSE {})
                               \cup (IF task.at = "persist" /\ ~core.blocked THEN {rem} ELSE {})
      OBVIOUS
    <2>3. found \in {<<r, NoOther>> : r \in here \cup hoped} \cup {<<r, Temp(h)>> : r \in here, h \in hoped}
                   \cup {<<r, Torn(NoRecord)>> : r \in IF hoped = {} THEN {} ELSE here}
      BY <1>4, <1>8, <2>1, <2>2 DEF AfterCrash
    <2>4. \A r \in here : /\ r # NoRecord => Sound(r)
                          /\ device = "challenge" => r # NoRecord /\ Owes(r)
      BY <1>1, <1>2, <2>1
    <2>5. \A h \in hoped : h # NoRecord /\ Sound(h) /\ (device = "challenge" => Owes(h))
      BY <1>1, <1>2, <1>3, <1>5, <2>2
    <2>6. NoOther.rec = NoRecord /\ Torn(NoRecord).rec = NoRecord /\ \A h : Temp(h).rec = h
      BY DEF NoOther, Torn, Temp
    <2>7. CASE \E r \in here \cup hoped : found = <<r, NoOther>>
      BY <2>4, <2>5, <2>6, <2>7 DEF CrashFits
    <2>8. CASE \E r \in here, h \in hoped : found = <<r, Temp(h)>>
      BY <2>4, <2>5, <2>6, <2>8 DEF CrashFits
    <2>9. CASE \E r \in here : found = <<r, Torn(NoRecord)>>
      BY <2>4, <2>6, <2>9 DEF CrashFits
    <2>10. QED
      BY <2>3, <2>7, <2>8, <2>9
  <1>9. QED
    BY <1>1, <1>6, <1>7, <1>8

\* A new boot starts from what the crash left, and remembers nothing.
LEMMA RestartProcessKeeps ==
    ASSUME ProbeInv, RestartProcess
    PROVE  ProbeInv'
  <1>1. PICK found \in AfterCrash :
            /\ disk' = Elsewhere(found[1])
            /\ other' = [found[2] EXCEPT !.rec = Elsewhere(@)]
    BY DEF RestartProcess
  <1>2. /\ starts < MaxStarts /\ starts' = starts + 1
        /\ record' = NoRecord /\ core' = FreshCore /\ timer' = FALSE /\ task' = Load
        /\ sent' = {} /\ due' = FALSE /\ left' \in 0 .. left
        /\ UNCHANGED worldVars
    BY DEF RestartProcess
  <1>3. CrashFits(found)
    BY CrashLeaves
  <1>4. \A r : /\ r = NoRecord => Elsewhere(r) = NoRecord
               /\ Sound(r) => LET n == Elsewhere(r)
                              IN  Sound(n) /\ n # NoRecord /\ n.op = r.op /\ n.used = r.used
                                  /\ n.seq = r.seq /\ n.phase = r.phase /\ n.owed = r.owed
    <2>1. ASSUME NEW r, Sound(r)
          PROVE  LET n == Elsewhere(r)
                 IN  Sound(n) /\ n # NoRecord /\ n.op = r.op /\ n.used = r.used
                     /\ n.seq = r.seq /\ n.phase = r.phase /\ n.owed = r.owed
      <3>1. PICK n : n = Elsewhere(r)
        OBVIOUS
      <3>2. /\ Sound(n) /\ n.op = r.op /\ n.used = r.used /\ n.seq = r.seq
            /\ n.phase = r.phase /\ n.owed = r.owed
        BY <2>1, <3>1, ElsewhereSound
      <3>3. QED
        BY <3>1, <3>2, SoundRecord
    <2>2. QED
      BY <2>1 DEF Elsewhere
  <1>5. /\ disk' # NoRecord => Sound(disk')
        /\ found[1] # NoRecord => /\ disk' # NoRecord /\ disk'.op = found[1].op /\ disk'.used = found[1].used
                                  /\ disk'.seq = found[1].seq /\ disk'.phase = found[1].phase
                                  /\ disk'.owed = found[1].owed
    BY <1>1, <1>3, <1>4 DEF CrashFits
  <1>a. /\ left' \in 0 .. 3 /\ starts' \in 0 .. MaxStarts /\ due' \in BOOLEAN
        /\ air' \in Nat \X Nat /\ device' \in {"intended", "challenge"} /\ attempted' \in BOOLEAN
    <2>1. left \in 0 .. 3 /\ starts \in 0 .. MaxStarts /\ MaxStarts \in Nat
      BY ProbeBounds DEF ProbeInv, StoreInv
    <2>2. left' \in 0 .. 3 /\ starts' \in 0 .. MaxStarts
      BY <1>2, <2>1
    <2>3. QED
      BY <1>2, <2>2 DEF ProbeInv, StoreInv, worldVars
  <1>b. SentInv'
    BY <1>2 DEF SentInv
  <1>c. Led'
    <2>1. Latches' /\ Scheduling' /\ (task'.at # "load" => Known')
      BY <1>2 DEF Latches, Scheduling, FreshCore, Load
    <2>2. TaskInv' /\ TaskOwes' /\ WatchInv'
      BY <1>2 DEF TaskInv, LoadFits, TaskOwes, WatchInv, FreshCore, Load, Stages
    <2>3. QED
      BY <2>1, <2>2 DEF Led
  <1>6. CASE found[2] = NoOther
    <2>1. other' = NoOther
      BY <1>1, <1>4, <1>6 DEF NoOther
    <2>2. StoreInv'
      BY <1>2, <1>5, <1>a, <2>1 DEF StoreInv, NoOther
    <2>3. StoreOwes'
      BY <1>2, <1>3, <1>5, <2>1 DEF CrashFits, StoreOwes, Owes, NoOther, worldVars
    <2>4. QED
      BY <1>b, <1>c, <2>2, <2>3 DEF ProbeInv
  <1>7. CASE found[2] # NoOther
    <2>1. PICK h : h = found[2].rec
      OBVIOUS
    <2>2. PICK kind \in {"temp", "torn"} : found[2] = [kind |-> kind, rec |-> h] /\ (kind = "temp" => h # NoRecord)
      BY <1>3, <1>7, <2>1 DEF CrashFits, Temp, Torn
    <2>3. (h # NoRecord => Sound(h)) /\ other' = [kind |-> kind, rec |-> Elsewhere(h)]
      BY <1>1, <1>3, <2>1, <2>2 DEF CrashFits
    <2>4. /\ h = NoRecord => other'.rec = NoRecord
          /\ h # NoRecord =>
                /\ Sound(other'.rec) /\ other'.rec # NoRecord
                /\ other'.rec.op = h.op /\ other'.rec.used = h.used
                /\ other'.rec.seq = h.seq /\ other'.rec.phase = h.phase /\ other'.rec.owed = h.owed
      BY <1>4, <2>3
    <2>5. StoreInv'
      BY <1>2, <1>5, <1>a, <2>2, <2>3, <2>4 DEF StoreInv
    <2>6. StoreOwes'
      <3>1. device' = "challenge" => /\ found[1] # NoRecord /\ Owes(found[1])
                                     /\ h # NoRecord => Owes(h)
        BY <1>2, <1>3, <2>1 DEF CrashFits, worldVars
      <3>2. QED
        BY <1>2, <1>5, <2>2, <2>3, <2>4, <3>1 DEF StoreOwes, Owes, worldVars
    <2>7. QED
      BY <1>b, <1>c, <2>5, <2>6 DEF ProbeInv
  <1>8. QED
    BY <1>6, <1>7

\* The restore another boot owes is claimed, or asked for without a claim.
LEMMA RecoverLed ==
    ASSUME Ground, NEW r, r = record', r # NoRecord, ~core.rem, Recover(r)
    PROVE  Led'
  <1>1. Sound(r) /\ r \in RecordType /\ r.used \in Nat
    BY SoundRecord DEF Ground, StoreInv
  <1>2. PICK after : after = (r.phase = "remediation" \/ r.after)
    OBVIOUS
  <1>3. PICK n : n = IF r.phase = "restore" THEN ReuseRecord(r)
                     ELSE [RestoreRecord(r, "other", after) EXCEPT !.here = TRUE]
    OBVIOUS
  <1>4. IF CanClaim(r) /\ RecordValid(n)
        THEN Latched(Commit(n, "recover", "other"), [core EXCEPT !.safe = TRUE])
        ELSE EnterRemediation(r, "other", TRUE)
    BY <1>2, <1>3, Zenon DEF Recover
  <1>5. CASE CanClaim(r) /\ RecordValid(n)
    <2>1. task' = Commit(n, "recover", "other") /\ core' = [core EXCEPT !.safe = TRUE] /\ timer' = FALSE
      BY <1>4, <1>5 DEF Latched
    <2>2. device' = "challenge" => r.op = disk'.op /\ r.owed /\ Owes(record)' /\ air'[2] <= r.used
      BY DEF Ground, StoreOwes, Owes
    <2>3. air' \in Nat \X Nat
      BY DEF Ground, StoreInv
    <2>4. CASE r.phase = "restore"
      <3>1. n.phase = "restore" /\ n.owed = r.owed /\ n.op = r.op /\ n.used = r.used /\ n.seq = r.seq
        BY <1>1, <1>3, <2>4, ReuseSound
      <3>2. Sound(n)
        BY <1>1, <1>5, <3>1 DEF Sound
      <3>3. device' = "challenge" => Owes(n)'
        BY <2>2, <2>4, <3>1 DEF Owes
      <3>4. QED
        BY <2>1, <3>1, <3>2, <3>3, ClaimLed DEF Codes
    <2>5. CASE r.phase # "restore"
      <3>1. n = [RestoreRecord(r, "other", after) EXCEPT !.here = TRUE]
        BY <1>3, <2>5
      <3>2. /\ n.phase = "restore" /\ n.owed = TRUE /\ n.op = r.op
            /\ n.used = r.used + 1 /\ n.seq = r.used + 1
        BY <1>1, <3>1 DEF RestoreRecord, RecordType
      <3>3. Sound(n)
        BY <1>1, <1>5, <3>2 DEF Sound
      <3>4. device' = "challenge" => Owes(n)'
        BY <1>1, <2>2, <2>3, <3>2 DEF Owes
      <3>5. QED
        BY <2>1, <3>2, <3>3, <3>4, ClaimLed DEF Codes
    <2>6. QED
      BY <2>4, <2>5
  <1>6. CASE ~(CanClaim(r) /\ RecordValid(n))
    <2>1. EnterRemediation(r, "other", TRUE)
      BY <1>4, <1>6
    <2>2. QED
      BY <2>1, EnterRemediationLed DEF Codes
  <1>7. QED
    BY <1>5, <1>6

\* A start goes on with what the record asks for.
LEMMA StartWithLed ==
    ASSUME Ground, NEW r, r = record', timer = FALSE, core.over # "done",
           core.rem => core.over = "queued", StartWith(r)
    PROVE  Led'
  <1>1. core.over # "no" => core.over = "queued"
    BY DEF Ground, Latches
  <1>2. CASE core.stopping \/ core.over # "no" \/ r = NoRecord
    <2>1. task' = Rest /\ core' = core /\ timer' = FALSE
      BY <1>2 DEF StartWith, Goes
    <2>2. QED
      BY <1>1, <1>2, <2>1, RestLed DEF Scheduling
  <1>3. CASE ~(core.stopping \/ core.over # "no" \/ r = NoRecord)
    <2>1. ~core.rem /\ ~core.stopping /\ r # NoRecord /\ Sound(r) /\ r.phase \in Active \cup Ended
      BY <1>3, SoundRecord DEF Ground, StoreInv
    <2>2. device' = "challenge" => r.owed
      BY <2>1 DEF Ground, StoreOwes, Owes
    <2>3. CASE r.phase \in {"result", "quiescent"}
      <3>1. EnterRemediation(r, "other", TRUE)
        BY <1>3, <2>3 DEF StartWith
      <3>2. QED
        BY <3>1, EnterRemediationLed DEF Codes
    <2>4. CASE r.phase \notin {"result", "quiescent"} /\ r.owed
      <3>1. Recover(r)
        BY <1>3, <2>4 DEF StartWith
      <3>2. QED
        BY <2>1, <3>1, RecoverLed
    <2>5. CASE r.phase = "remediation" /\ ~r.owed
      <3>1. task' = Rest /\ core' = [core EXCEPT !.rem = TRUE, !.safe = TRUE] /\ timer' = FALSE
        BY <1>3, <2>5 DEF StartWith, Latched
      <3>2. LatchedGround
        BY <2>2, <2>5, <3>1 DEF LatchedGround, Ground, Latches
      <3>3. QED
        BY <2>2, <2>5, <3>1, <3>2, IdleLed
    <2>6. CASE r.phase \notin Ended /\ ~r.owed /\ due'
      <3>1. EnterRemediation(r, "other", FALSE)
        BY <1>3, <2>6 DEF StartWith, Ended
      <3>2. QED
        BY <2>2, <2>6, <3>1, EnterRemediationLed DEF Codes
    <2>7. CASE r.phase \notin Ended /\ ~r.owed /\ ~due'
      <3>1. task' = Rest /\ timer' = TRUE /\ core' = core
        BY <1>3, <2>7 DEF StartWith, Ended
      <3>2. Scheduling'
        BY <2>1, <2>7, <3>1 DEF Scheduling
      <3>3. QED
        BY <3>1, <3>2, RestLed
    <2>8. QED
      BY <2>1, <2>3, <2>4, <2>5, <2>6, <2>7 DEF Ended
  <1>4. QED
    BY <1>2, <1>3

\* What is read is what was written, or the remediation of what may have been.
LEMMA LoadJournalKeeps ==
    ASSUME ProbeInv, LoadJournal
    PROVE  ProbeInv'
  <1>1. task = Load /\ task.at = "load" /\ UNCHANGED <<sent, worldVars, left, starts>>
    BY DEF LoadJournal, Load
  <1>2. /\ LoadFits /\ Latches
        /\ timer = FALSE
    BY <1>1 DEF ProbeInv, Led, TaskInv, Scheduling, LoadFits
  <1>3. SentInv'
    BY <1>1, SentQuiet DEF ProbeInv
  <1>4. ASSUME NEW blocked \in BOOLEAN, LoadRefuses(blocked), NEW found,
               disk' = found[1], other' = found[2],
               CrashFits(found) \/ (found[1] = disk /\ found[2] = other)
        PROVE  ProbeInv'
    <2>1. /\ record' = NoRecord /\ task' = Rest /\ timer' = FALSE
          /\ core' = [core EXCEPT !.rem = TRUE, !.safe = TRUE, !.blocked = blocked]
          /\ due' = due
      BY <1>4 DEF LoadRefuses, Latched
    <2>2. StoreInv' /\ StoreOwes'
      <3>1. CASE found[1] = disk /\ found[2] = other
        BY <1>1, <1>4, <2>1, <3>1 DEF ProbeInv, StoreInv, StoreOwes, Owes, worldVars
      <3>2. CASE CrashFits(found)
        <4>1. /\ other'.kind \in {"none", "temp", "torn"} /\ other' = [kind |-> other'.kind, rec |-> other'.rec]
              /\ other'.kind = "none" => other'.rec = NoRecord
              /\ other'.kind = "temp" => other'.rec # NoRecord
              /\ other'.rec # NoRecord => Sound(other'.rec)
              /\ disk' # NoRecord => Sound(disk')
          BY <1>4, <3>2 DEF CrashFits, Temp, Torn, NoOther
        <4>2. StoreInv'
          BY <1>1, <2>1, <4>1 DEF ProbeInv, StoreInv, worldVars
        <4>3. device = "challenge" => /\ disk' # NoRecord /\ Owes(disk')
                                      /\ other'.rec # NoRecord => Owes(other'.rec)
          BY <1>4, <3>2 DEF CrashFits
        <4>4. StoreOwes'
          BY <1>1, <2>1, <4>1, <4>3 DEF StoreOwes, Owes, worldVars
        <4>5. QED
          BY <4>2, <4>4
      <3>3. QED
        BY <1>4, <3>1, <3>2
    <2>3. LatchedGround
      BY <1>1, <1>2, <2>1, <2>2 DEF LatchedGround, Latches, worldVars
    <2>4. Led'
      BY <2>1, <2>3, IdleLed
    <2>5. QED
      BY <1>3, <2>2, <2>4 DEF ProbeInv
  <1>5. ASSUME NEW r, r # NoRecord => Sound(r), LoadReads(r), disk' = r, other' = NoOther,
               device = "challenge" => r # NoRecord /\ Owes(r)
        PROVE  ProbeInv'
    <2>1. record' = r /\ due' \in BOOLEAN /\ StartWith(r)
      BY <1>5 DEF LoadReads
    <2>2. StoreInv'
      BY <1>1, <1>5, <2>1 DEF ProbeInv, StoreInv, NoOther, worldVars
    <2>3. StoreOwes'
      BY <1>1, <1>5, <2>1 DEF StoreOwes, Owes, NoOther, worldVars
    <2>4. Ground
      BY <1>1, <1>2, <1>5, <2>1, <2>2, <2>3 DEF Ground, Latches, worldVars
    <2>5. Led'
      BY <1>2, <2>1, <2>4, StartWithLed DEF LoadFits
    <2>6. QED
      BY <1>3, <2>2, <2>3, <2>5 DEF ProbeInv
  <1>6. ASSUME NEW r, Sound(r), r # NoRecord, LoadKeepsEvidence(r), device = "challenge" => Owes(r)
        PROVE  ProbeInv'
    <2>1. /\ record' = r /\ disk' \in {disk, r} /\ timer' = FALSE
          /\ core' = [core EXCEPT !.rem = TRUE, !.safe = TRUE, !.blocked = TRUE]
          /\ task' = IF r.owed THEN Safety("other", FALSE, FALSE) ELSE Rest
          /\ UNCHANGED <<other, due>>
      BY <1>6 DEF LoadKeepsEvidence, Latched
    <2>2. StoreInv'
      BY <1>1, <1>6, <2>1 DEF ProbeInv, StoreInv, worldVars
    <2>3. StoreOwes'
      <3>1. SUFFICES ASSUME device = "challenge"
                     PROVE  /\ disk' # NoRecord
                            /\ other.kind \notin {"none", "torn"} => other.rec # NoRecord
                            /\ Owes(disk)' /\ Owes(record)' /\ (other.rec # NoRecord => Owes(other.rec)')
        BY <1>1, <2>1 DEF StoreOwes, worldVars
      <3>2. /\ disk # NoRecord /\ Owes(disk) /\ Owes(r)
            /\ other.kind \notin {"none", "torn"} => other.rec # NoRecord
            /\ other.rec # NoRecord => Owes(other.rec)
        BY <1>6, <3>1 DEF ProbeInv, StoreOwes
      <3>3. disk'.op = disk.op /\ air' = air
        BY <1>1, <2>1, <3>2 DEF Owes, worldVars
      <3>4. QED
        BY <1>6, <2>1, <3>2, <3>3 DEF Owes
    <2>4. Latches' /\ core'.rem
      BY <1>1, <1>2, <2>1 DEF Latches, worldVars
    <2>5. LatchedGround
      BY <2>1, <2>3, <2>4 DEF LatchedGround
    <2>6. CASE r.owed
      <3>1. Led'
        BY <1>6, <2>1, <2>5, <2>6, SafetyLed DEF Codes
      <3>2. QED
        BY <1>3, <2>2, <2>3, <3>1 DEF ProbeInv
    <2>7. CASE ~r.owed
      <3>1. device' # "challenge"
        BY <1>1, <1>6, <2>7 DEF Owes, worldVars
      <3>2. Led'
        BY <2>1, <2>5, <2>7, <3>1, IdleLed
      <3>3. QED
        BY <1>3, <2>2, <2>3, <3>2 DEF ProbeInv
    <2>8. QED
      BY <2>6, <2>7
  <1>7. CASE other.kind = "none" /\ LoadReads(disk) /\ UNCHANGED <<disk, other>>
    <2>1. other' = NoOther
      BY <1>7 DEF ProbeInv, StoreInv, NoOther
    <2>2. PICK r : r = disk
      OBVIOUS
    <2>3. /\ r # NoRecord => Sound(r)
          /\ device = "challenge" => r # NoRecord /\ Owes(r)
      BY <2>2 DEF ProbeInv, StoreInv, StoreOwes
    <2>4. LoadReads(r) /\ disk' = r
      BY <1>7, <2>2
    <2>5. QED
      BY <1>5, <2>1, <2>3, <2>4
  <1>8. CASE /\ other.kind = "temp"
             /\ SameOperation(disk, other.rec)
             /\ LET r == Synthesised(disk, other.rec)
                IN  \/ LoadKeepsEvidence(r)
                    \/ LoadReads(r) /\ disk' = r /\ other' = NoOther
    <2>1. PICK r : r = Synthesised(disk, other.rec)
      OBVIOUS
    <2>2. Sound(r) /\ r # NoRecord /\ (device = "challenge" => Owes(r))
      BY <1>8, <2>1, SynthesisFits DEF ProbeInv
    <2>3. LoadKeepsEvidence(r) \/ (LoadReads(r) /\ disk' = r /\ other' = NoOther)
      BY <1>8, <2>1
    <2>4. QED
      BY <1>5, <1>6, <2>2, <2>3
  <1>9. CASE LoadRefuses(FALSE) /\ UNCHANGED <<disk, other>>
    <2>1. PICK found : found = <<disk, other>>
      OBVIOUS
    <2>2. disk' = found[1] /\ other' = found[2] /\ found[1] = disk /\ found[2] = other
      BY <1>9, <2>1
    <2>3. LoadRefuses(FALSE) /\ FALSE \in BOOLEAN
      BY <1>9
    <2>4. QED
      BY <1>4, <2>2, <2>3
  <1>10. CASE LoadRefuses(TRUE) /\ \E found \in AfterCrash : disk' = found[1] /\ other' = found[2]
    <2>1. PICK found \in AfterCrash : disk' = found[1] /\ other' = found[2]
      BY <1>10
    <2>2. CrashFits(found)
      BY CrashLeaves
    <2>3. QED
      BY <1>4, <1>10, <2>1, <2>2
  <1>11. QED
    BY <1>7, <1>8, <1>9, <1>10 DEF LoadJournal

-----------------------------------------------------------------------------
(* The theorems. *)

\* At first there is no record and nothing is owed.
LEMMA ProbeInitHolds ==
    ASSUME ProbeInit
    PROVE  ProbeInv
  <1>1. StoreInv /\ StoreOwes
    <2>1. /\ disk = NoRecord /\ record = NoRecord /\ other = NoOther /\ other.rec = NoRecord
          /\ other.kind = "none" /\ device = "intended"
      BY DEF ProbeInit, NoOther
    <2>2. /\ attempted \in BOOLEAN /\ air \in Nat \X Nat /\ due \in BOOLEAN
          /\ left \in 0 .. 3 /\ starts \in 0 .. MaxStarts
      <3>1. MaxStarts \in Nat
        BY ProbeBounds
      <3>2. left \in 0 .. 3 /\ starts \in 0 .. MaxStarts
        BY <3>1 DEF ProbeInit
      <3>3. attempted \in BOOLEAN /\ due \in BOOLEAN
        BY DEF ProbeInit
      <3>4. air \in Nat \X Nat
        BY DEF ProbeInit, NoCommand
      <3>5. QED
        BY <3>2, <3>3, <3>4
    <2>3. QED
      BY <2>1, <2>2 DEF StoreInv, StoreOwes, NoOther
  <1>2. SentInv
    BY DEF ProbeInit, SentInv
  <1>3. Latches /\ Scheduling /\ (task.at # "load" => Known)
    BY DEF ProbeInit, Latches, Scheduling, FreshCore, Load
  <1>4. TaskInv /\ TaskOwes /\ WatchInv
    BY DEF ProbeInit, TaskInv, LoadFits, TaskOwes, WatchInv, FreshCore, Load, Stages
  <1>5. QED
    BY <1>1, <1>2, <1>3, <1>4 DEF ProbeInv, Led

\* Every step keeps the invariant.
LEMMA ProbeStepKeeps ==
    ASSUME ProbeInv, [ProbeNext]_probeVars
    PROVE  ProbeInv'
  <1>1. CASE UNCHANGED probeVars
    <2>1. left' \in 0 .. 3 /\ due' \in BOOLEAN
      BY <1>1 DEF ProbeInv, StoreInv, probeVars
    <2>2. QED
      BY <1>1, <2>1, TimeKeeps DEF probeVars, worldVars
  <1>2. CASE TimePasses
    BY <1>2, TimePassesKeeps
  <1>3. CASE LoadJournal \/ RestartProcess
    BY <1>3, LoadJournalKeeps, RestartProcessKeeps
  <1>4. CASE Request \/ RequestFails \/ RequestResolved
    BY <1>4, RequestKeeps, RequestFailsKeeps, RequestResolvedKeeps
  <1>5. CASE ProofArrives \/ ProofResolved \/ Competes \/ OnTimer
    BY <1>5, ProofArrivesKeeps, ProofResolvedKeeps, CompetesKeeps, OnTimerKeeps
  <1>6. CASE CommitSucceeds \/ CommitFails \/ CommitUncertain \/ CommitTimesOut
    BY <1>6, CommitSucceedsKeeps, CommitFailsKeeps, CommitUncertainKeeps, CommitTimesOutKeeps
  <1>7. CASE Invoke \/ RaceEnds \/ SafetyRestore \/ PersistRemediation
    BY <1>7, InvokeKeeps, RaceEndsKeeps, SafetyRestoreKeeps, PersistRemediationKeeps
  <1>8. CASE LatchQueueOverflow \/ HandleQueueOverflow \/ RequestStop \/ Stop \/ StopDispatch
    BY <1>8, LatchQueueOverflowKeeps, HandleQueueOverflowKeeps, RequestStopKeeps, StopKeeps,
       StopDispatchKeeps
  <1>9. QED
    BY <1>1, <1>2, <1>3, <1>4, <1>5, <1>6, <1>7, <1>8 DEF ProbeNext, ProbeStep

\* What the invariant promises of the records, and of what a crash may leave of them.
LEMMA ProbeInvIsEnough ==
    ASSUME ProbeInv
    PROVE  ProbeInvariant /\ ChallengeIsWatched
  <1>1. ProbeTypeOK
    <2>1. /\ disk \in RecordType \cup {NoRecord} /\ record \in RecordType \cup {NoRecord}
          /\ other.rec \in RecordType \cup {NoRecord}
      BY DEF ProbeInv, StoreInv, Sound, RecordValid
    <2>2. other \in [kind : {"none", "late", "behind", "temp", "torn"}, rec : RecordType \cup {NoRecord}]
      BY <2>1 DEF ProbeInv, StoreInv
    <2>3. Cardinality(sent) <= 1
      <3>1. CASE sent = {}
        BY <3>1, FS_EmptySet
      <3>2. CASE \E o : sent = {o}
        <4>1. PICK o : sent = {o}
          BY <3>2
        <4>2. Cardinality({o}) = 1
          BY FS_Singleton
        <4>3. QED
          BY <4>1, <4>2
      <3>3. QED
        BY <3>1, <3>2 DEF ProbeInv, SentInv
    <2>4. QED
      BY <2>1, <2>2, <2>3 DEF ProbeInv, StoreInv, Led, Latches, Scheduling, ProbeTypeOK
  <1>2. RecordsAreValid
    BY DEF ProbeInv, StoreInv, Sound, RecordsAreValid
  <1>3. DebtIsDurable
    <2>1. SUFFICES ASSUME device = "challenge"
                   PROVE  /\ \A found \in AfterCrash :
                                /\ NeedsRestore(found[1])
                                /\ Recovers(found[1], found[2]) \/ found[2].kind = "torn"
                          /\ record = NoRecord /\ task.at # "load" => core.rem
      BY DEF DebtIsDurable
    <2>2. ASSUME NEW found \in AfterCrash
          PROVE  /\ NeedsRestore(found[1])
                 /\ Recovers(found[1], found[2]) \/ found[2].kind = "torn"
      <3>1. CrashFits(found)
        BY CrashLeaves
      <3>2. found[1] # NoRecord /\ Owes(found[1]) /\ NeedsRestore(found[1])
        BY <2>1, <3>1 DEF CrashFits, NeedsRestore, Owes
      <3>3. CASE found[2] = NoOther
        BY <3>2, <3>3 DEF Recovers, NoOther
      <3>4. CASE found[2] = Temp(found[2].rec) /\ found[2].rec # NoRecord
        <4>1. found[2].kind = "temp" /\ Owes(found[2].rec)
          BY <2>1, <3>1, <3>4 DEF CrashFits, Temp
        <4>2. QED
          BY <3>2, <3>4, <4>1 DEF Recovers, SameOperation, EvidenceMayRequireRestore, Owes
      <3>5. CASE found[2] = Torn(found[2].rec)
        BY <3>2, <3>5 DEF Torn
      <3>6. QED
        BY <3>1, <3>3, <3>4, <3>5 DEF CrashFits
    <2>3. record = NoRecord /\ task.at # "load" => core.rem
      BY <2>1 DEF ProbeInv, Led, Known, StoreOwes
    <2>4. QED
      BY <2>2, <2>3
  <1>4. ChallengeIsWatched
    BY DEF ProbeInv, Led, WatchInv, ChallengeIsWatched, Rest, Gone
  <1>5. QED
    BY <1>1, <1>2, <1>3, <1>4 DEF ProbeInvariant

\* The invariant every other result rests on: what is stored is sound, and while the valve has
\* the challenge target, every record the program holds, writes or may find owes its restore.
THEOREM ProbeInvariantHolds == ProbeSpec => []ProbeInv
  <1>1. ProbeInit => ProbeInv
    BY ProbeInitHolds
  <1>2. ProbeInv /\ [ProbeNext]_probeVars => ProbeInv'
    BY ProbeStepKeeps
  <1>3. QED
    BY <1>1, <1>2, PTL DEF ProbeSpec

\* Every record is one the validation accepts; and after a crash at any moment the main file says
\* that a challenged valve is to be restored (#commit).  A start that can read the directory makes
\* a restore of it (#startImpl); beside a torn temporary file no start can, and nothing is restored.
THEOREM ProbeSafe == ProbeSpec => []ProbeInvariant
  <1>1. ProbeInv => ProbeInvariant
    BY ProbeInvIsEnough
  <1>2. QED
    BY <1>1, ProbeInvariantHolds, PTL

\* Until the restore of a challenged valve was tried, a core at rest has a timer or the task of a
\* full queue for it, and a stop does not end without one (#scheduleForRecord, #stopImpl).
THEOREM ProbeWatched == ProbeSpec => []ChallengeIsWatched
  <1>1. ProbeInv => ChallengeIsWatched
    BY ProbeInvIsEnough
  <1>2. QED
    BY <1>1, ProbeInvariantHolds, PTL

=============================================================================
