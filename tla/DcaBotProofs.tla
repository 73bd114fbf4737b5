---------------------------- MODULE DcaBotProofs ----------------------------
(***************************************************************************)
(* Proofs about DcaBot, for any bots, clients, interval and bounds.        *)
(***************************************************************************)
EXTENDS DcaBot, FiniteSetTheorems, TLAPS

-----------------------------------------------------------------------------
(***************************************************************************)
(* Typing, which is inductive: next_buy_at is the time of some request or  *)
(* answer, or an interval later, and the clock does not go back.           *)
(***************************************************************************)
LEMMA InitType == Init => TypeOK
BY ProcsAssumption, IntervalAssumption, BoundsAssumption DEF Init, TypeOK, Steps, Procs

LEMMA StatusType ==
    ASSUME NEW f \in [Bots -> {"running", "stopped"}], NEW b, NEW s \in {"running", "stopped"}
    PROVE  [f EXCEPT ![b] = s] \in [Bots -> {"running", "stopped"}]
OBVIOUS

LEMMA StepType == TypeOK /\ [Next]_vars => TypeOK'
<1> SUFFICES ASSUME TypeOK, [Next]_vars
             PROVE  TypeOK'
  OBVIOUS
<1> USE ProcsAssumption, IntervalAssumption, BoundsAssumption
        DEF Procs, table, exch, local, users
<1>1. ASSUME NEW h \in Handlers, NEW b \in Bots, RequestHalt(h, b)
      PROVE  TypeOK'
  BY <1>1 DEF RequestHalt, Goto, TypeOK, Steps
<1>2. ASSUME NEW h \in Handlers, NEW b \in Bots, NEW buyNow \in BOOLEAN, RequestStart(h, b, buyNow)
      PROVE  TypeOK'
  BY <1>2 DEF RequestStart, Goto, TypeOK, Steps
<1>3. ASSUME NEW h \in Handlers, NEW ok \in BOOLEAN, Plan(h, ok)
      PROVE  TypeOK'
  BY <1>3 DEF Plan, RecordBuy, Call, Done, Goto, TypeOK, Steps
<1>4. ASSUME NEW h \in Handlers, NEW ok \in BOOLEAN, Activate(h, ok)
      PROVE  TypeOK'
  BY <1>4, StatusType DEF Activate, SetStatus, Call, Done, Goto, TypeOK, Steps
<1>5. ASSUME NEW h \in Handlers, NEW ok \in BOOLEAN, Halt(h, ok)
      PROVE  TypeOK'
  BY <1>5, StatusType DEF Halt, SetStatus, Call, Done, Goto, TypeOK, Steps
<1>6. ASSUME NEW c \in Checkers, ListDue(c)
      PROVE  TypeOK'
  BY <1>6 DEF ListDue, Goto, TypeOK, Steps
<1>7. ASSUME NEW c \in Checkers, NextBot(c)
      PROVE  TypeOK'
  BY <1>7 DEF NextBot, Goto, TypeOK, Steps
<1>8. ASSUME NEW c \in Checkers, Leave(c)
      PROVE  TypeOK'
  BY <1>8 DEF Leave, Goto, TypeOK, Steps
<1>9. ASSUME NEW c \in Checkers, Prepare(c)
      PROVE  TypeOK'
  BY <1>9 DEF Prepare, Goto, TypeOK, Steps
<1>10. ASSUME NEW c \in Checkers, NEW reply \in Replies, PlaceOrder(c, reply)
       PROVE  TypeOK'
  BY <1>10 DEF PlaceOrder, Call, Goto, TypeOK, Steps
<1>11. ASSUME NEW c \in Checkers, NEW ok \in BOOLEAN, Record(c, ok)
       PROVE  TypeOK'
  BY <1>11 DEF Record, RecordBuy, Call, Done, Goto, TypeOK, Steps
<1>12. ASSUME NEW c \in Checkers, NEW ok \in BOOLEAN, Fail(c, ok)
       PROVE  TypeOK'
  BY <1>12, StatusType DEF Fail, SetStatus, Call, Done, Goto, TypeOK, Steps
<1>13. CASE Tick
  BY <1>13 DEF Tick, TypeOK
<1>14. CASE Restart
  BY <1>14 DEF Restart, TypeOK, Steps
<1>15. CASE UNCHANGED vars
  BY <1>15 DEF vars, TypeOK
<1>16. QED
  BY <1>1, <1>2, <1>3, <1>4, <1>5, <1>6, <1>7, <1>8, <1>9, <1>10, <1>11, <1>12, <1>13, <1>14, <1>15
     DEF Next, Serve, CheckAndBuy

(***************************************************************************)
(* Every reachable state is typed: no purchase is planned more than an     *)
(* interval ahead, whoever writes next_buy_at.                             *)
(***************************************************************************)
THEOREM TypeCorrect == Spec => []TypeOK
BY InitType, StepType, PTL DEF Spec

-----------------------------------------------------------------------------
(***************************************************************************)
(* What total_invested tells, for the one job that runs CheckAndBuy: a     *)
(* restart would lose a purchase of each of two jobs and count once.       *)
(***************************************************************************)
OneChecker == \A c, d \in Checkers : c = d

InFlight(b) == IF Unwritten(b) THEN 1 ELSE 0

InvestedInv ==
    \A b \in Bots :
        /\ invested[b] + InFlight(b) <= bought[b]
        /\ bought[b] <= invested[b] + faults + InFlight(b)

LEMMA StepInvested == OneChecker /\ TypeOK /\ InvestedInv /\ [Next]_vars => InvestedInv'
<1> SUFFICES ASSUME OneChecker, TypeOK, InvestedInv, [Next]_vars, NEW b \in Bots
             PROVE  /\ invested'[b] + InFlight(b)' <= bought'[b]
                    /\ bought'[b] <= invested'[b] + faults' + InFlight(b)'
  BY DEF InvestedInv
<1> USE ProcsAssumption DEF Procs, table, exch, local, users
<1>0. /\ invested[b] + InFlight(b) <= bought[b]
      /\ bought[b] <= invested[b] + faults + InFlight(b)
      /\ invested[b] \in Nat /\ bought[b] \in Nat /\ faults \in Nat /\ InFlight(b) \in {0, 1}
  BY BoundsAssumption DEF InvestedInv, TypeOK, InFlight
\* A step that buys nothing, writes no purchase and leaves "record" alone.
<1>a. ASSUME UNCHANGED <<invested, bought>>, Unwritten(b)' <=> Unwritten(b),
             faults' \in {faults, faults + 1}
      PROVE  /\ invested'[b] + InFlight(b)' <= bought'[b]
             /\ bought'[b] <= invested'[b] + faults' + InFlight(b)'
  BY <1>a, <1>0 DEF InFlight
<1>1. ASSUME NEW h \in Handlers, NEW x \in Bots, RequestHalt(h, x)
      PROVE  UNCHANGED <<invested, bought>> /\ (Unwritten(b)' <=> Unwritten(b)) /\ UNCHANGED faults
  BY <1>1 DEF RequestHalt, Goto, Unwritten, TypeOK
<1>2. ASSUME NEW h \in Handlers, NEW x \in Bots, NEW buyNow \in BOOLEAN, RequestStart(h, x, buyNow)
      PROVE  UNCHANGED <<invested, bought>> /\ (Unwritten(b)' <=> Unwritten(b)) /\ UNCHANGED faults
  BY <1>2 DEF RequestStart, Goto, Unwritten, TypeOK
<1>3. ASSUME NEW h \in Handlers, NEW ok \in BOOLEAN, Plan(h, ok)
      PROVE  UNCHANGED <<invested, bought>> /\ (Unwritten(b)' <=> Unwritten(b))
             /\ faults' \in {faults, faults + 1}
  <2>1. UNCHANGED bought /\ (Unwritten(b)' <=> Unwritten(b)) /\ faults' \in {faults, faults + 1}
    BY <1>3 DEF Plan, RecordBuy, Call, Done, Goto, Unwritten, TypeOK
  <2>2. UNCHANGED invested
    BY <1>3 DEF Plan, RecordBuy, TypeOK
  <2>3. QED
    BY <2>1, <2>2
<1>4. ASSUME NEW h \in Handlers, NEW ok \in BOOLEAN, Activate(h, ok) \/ Halt(h, ok)
      PROVE  UNCHANGED <<invested, bought>> /\ (Unwritten(b)' <=> Unwritten(b))
             /\ faults' \in {faults, faults + 1}
  BY <1>4 DEF Activate, Halt, SetStatus, Call, Done, Goto, Unwritten, TypeOK
<1>5. ASSUME NEW c \in Checkers, ListDue(c) \/ NextBot(c) \/ Leave(c) \/ Prepare(c)
      PROVE  UNCHANGED <<invested, bought>> /\ (Unwritten(b)' <=> Unwritten(b)) /\ UNCHANGED faults
  BY <1>5 DEF OneChecker, ListDue, NextBot, Leave, Prepare, Goto, Unwritten, TypeOK
\* An accepted purchase is in flight, or its answer was lost.
<1>6. ASSUME NEW c \in Checkers, NEW reply \in Replies, PlaceOrder(c, reply)
      PROVE  /\ invested'[b] + InFlight(b)' <= bought'[b]
             /\ bought'[b] <= invested'[b] + faults' + InFlight(b)'
  <2>1. /\ pc[c] = "place" /\ pc' = [pc EXCEPT ![c] = IF reply = "ok" THEN "record" ELSE "fail"]
        /\ UNCHANGED <<invested, bot>>
        /\ faults' = IF reply = "lost" THEN faults + 1 ELSE faults
        /\ bought' = IF reply = "refused" THEN bought ELSE [bought EXCEPT ![bot[c]] = @ + 1]
    BY <1>6 DEF PlaceOrder, Call, Goto
  <2>2. ~Unwritten(b) /\ (Unwritten(b)' <=> reply = "ok" /\ bot[c] = b)
    BY <2>1 DEF OneChecker, Unwritten, TypeOK
  <2>3. bought'[b] = IF reply # "refused" /\ bot[c] = b THEN bought[b] + 1 ELSE bought[b]
    BY <2>1 DEF TypeOK
  <2>4. QED
    BY <2>1, <2>2, <2>3, <1>0 DEF InFlight, Replies
\* RecordBuy writes it, or a failure loses it.
<1>7. ASSUME NEW c \in Checkers, NEW ok \in BOOLEAN, Record(c, ok)
      PROVE  /\ invested'[b] + InFlight(b)' <= bought'[b]
             /\ bought'[b] <= invested'[b] + faults' + InFlight(b)'
  <2>1. /\ pc[c] = "record" /\ pc' = [pc EXCEPT ![c] = "loop"]
        /\ UNCHANGED bought
        /\ faults' = IF ok THEN faults ELSE faults + 1
        /\ invested' = IF ok THEN [invested EXCEPT ![bot[c]] = @ + 1] ELSE invested
    BY <1>7 DEF Record, RecordBuy, Call, Done, Goto
  <2>2. ~Unwritten(b)' /\ (Unwritten(b) <=> bot[c] = b)
    BY <2>1 DEF OneChecker, Unwritten, TypeOK
  <2>3. invested'[b] = IF ok /\ bot[c] = b THEN invested[b] + 1 ELSE invested[b]
    BY <2>1 DEF TypeOK
  <2>4. QED
    BY <2>1, <2>2, <2>3, <1>0 DEF InFlight
<1>8. ASSUME NEW c \in Checkers, NEW ok \in BOOLEAN, Fail(c, ok)
      PROVE  UNCHANGED <<invested, bought>> /\ (Unwritten(b)' <=> Unwritten(b))
             /\ faults' \in {faults, faults + 1}
  BY <1>8 DEF OneChecker, Fail, SetStatus, Call, Done, Goto, Unwritten, TypeOK
<1>9. CASE Tick
  BY <1>9, <1>a DEF Tick, Unwritten
\* A restart loses what is in flight, and is a failure.
<1>10. CASE Restart
  <2>1. UNCHANGED <<invested, bought>> /\ faults' = faults + 1 /\ ~Unwritten(b)'
    BY <1>10 DEF Restart, Unwritten, TypeOK
  <2>2. QED
    BY <2>1, <1>0 DEF InFlight
<1>11. CASE UNCHANGED vars
  BY <1>11, <1>a DEF vars, Unwritten
<1>12. QED
  BY <1>a, <1>1, <1>2, <1>3, <1>4, <1>5, <1>6, <1>7, <1>8, <1>9, <1>10, <1>11
     DEF Next, Serve, CheckAndBuy

(***************************************************************************)
(* total_invested counts no purchase that did not happen, and misses one   *)
(* only while it is being written or for a failure each.                   *)
(***************************************************************************)
THEOREM InvestedSpent == ASSUME OneChecker PROVE Spec => []InvestedIsSpent
<1>1. Init => InvestedInv
  <2> SUFFICES ASSUME Init, NEW b \in Bots
               PROVE  /\ invested[b] + InFlight(b) <= bought[b]
                      /\ bought[b] <= invested[b] + faults + InFlight(b)
    BY DEF InvestedInv
  <2>1. ~Unwritten(b)
    BY DEF Init, Unwritten, Procs
  <2>2. QED
    BY <2>1 DEF Init, InFlight
<1>2. TypeOK /\ InvestedInv => InvestedIsSpent
  <2> SUFFICES ASSUME TypeOK, InvestedInv, NEW b \in Bots
               PROVE  /\ invested[b] <= bought[b]
                      /\ bought[b] <= invested[b] + faults + InFlight(b)
    BY DEF InvestedIsSpent, InFlight
  <2>1. invested[b] \in Nat /\ bought[b] \in Nat /\ InFlight(b) \in {0, 1}
    BY DEF TypeOK, InFlight
  <2>2. QED
    BY <2>1 DEF InvestedInv
<1>3. QED
  BY <1>1, <1>2, InitType, StepType, StepInvested, OneChecker, PTL DEF Spec

-----------------------------------------------------------------------------
(***************************************************************************)
(* How often a bot buys.  A start counts from the moment it has set        *)
(* next_buy_at: until then it may be overtaken by other starts, purchases  *)
(* and any length of time.                                                 *)
(***************************************************************************)
Pending(b) == {h \in Handlers : pc[h] = "plan" /\ bot[h] = b}

\* Purchases that neither a start nor a failure accounts for, and the next one.
Over(b) == bought[b] + 1 - (starts + faults - Cardinality(Pending(b)))

\* The pass is still to buy for the bot, whatever next_buy_at says by now.
Listed(b) == \E c \in Checkers : b \in todo[c] \/ (pc[c] \in {"price", "place"} /\ bot[c] = b)

\* So many purchases take as many intervals, of which the last is over when
\* the bot is due: at next_buy_at, or at what is about to be written there.
Paced(b) ==
    \/ Over(b) * Interval <= now
    \/ /\ ~Listed(b)
       /\ ~Unwritten(b) => Over(b) * Interval <= nextBuy[b]
       /\ \A c \in Checkers : pc[c] = "record" /\ bot[c] = b => Over(b) * Interval <= plan[c]

PacedInv == \A b \in Bots : IsFiniteSet(Pending(b)) /\ Paced(b)

\* A bot the pass works on has left its list.
ListInv == \A c \in Checkers : pc[c] \in {"price", "place", "record", "fail"} => bot[c] \notin todo[c]

LEMMA StepList == TypeOK /\ ListInv /\ [Next]_vars => ListInv'
<1> SUFFICES ASSUME TypeOK, ListInv, [Next]_vars
             PROVE  ListInv'
  OBVIOUS
<1> USE ProcsAssumption DEF Procs, table, exch, local, users
<1>1. ASSUME NEW h \in Handlers, NEW x \in Bots, RequestHalt(h, x)
      PROVE  ListInv'
  BY <1>1 DEF RequestHalt, Goto, ListInv, TypeOK
<1>2. ASSUME NEW h \in Handlers, NEW x \in Bots, NEW buyNow \in BOOLEAN, RequestStart(h, x, buyNow)
      PROVE  ListInv'
  BY <1>2 DEF RequestStart, Goto, ListInv, TypeOK
<1>3. ASSUME NEW h \in Handlers, NEW ok \in BOOLEAN, Plan(h, ok)
      PROVE  ListInv'
  BY <1>3 DEF Plan, Done, Goto, ListInv, TypeOK
<1>4. ASSUME NEW h \in Handlers, NEW ok \in BOOLEAN, Activate(h, ok) \/ Halt(h, ok)
      PROVE  ListInv'
  BY <1>4 DEF Activate, Halt, Done, Goto, ListInv, TypeOK
<1>5. ASSUME NEW c \in Checkers, ListDue(c) \/ NextBot(c) \/ Leave(c) \/ Prepare(c)
      PROVE  ListInv'
  BY <1>5 DEF ListDue, NextBot, Leave, Prepare, Goto, ListInv, TypeOK
<1>6. ASSUME NEW c \in Checkers, NEW reply \in Replies, PlaceOrder(c, reply)
      PROVE  ListInv'
  BY <1>6 DEF PlaceOrder, Goto, ListInv, TypeOK
<1>7. ASSUME NEW c \in Checkers, NEW ok \in BOOLEAN, Record(c, ok) \/ Fail(c, ok)
      PROVE  ListInv'
  BY <1>7 DEF Record, Fail, Done, Goto, ListInv, TypeOK
<1>8. CASE Tick
  BY <1>8 DEF Tick, ListInv
<1>9. CASE Restart
  BY <1>9 DEF Restart, ListInv, TypeOK
<1>10. CASE UNCHANGED vars
  BY <1>10 DEF vars, ListInv
<1>11. QED
  BY <1>1, <1>2, <1>3, <1>4, <1>5, <1>6, <1>7, <1>8, <1>9, <1>10 DEF Next, Serve, CheckAndBuy

LEMMA Scale ==
    ASSUME NEW k \in Int, NEW l \in Int
    PROVE  /\ k * Interval \in Int
           /\ k <= l => k * Interval <= l * Interval
           /\ k < l => k * Interval <= l * Interval - Interval
           /\ l = k + 1 => l * Interval = k * Interval + Interval
<1>1. Interval \in Nat
  BY IntervalAssumption
<1>2. k * Interval \in Int /\ (k + 1) * Interval = k * Interval + Interval
  BY <1>1
<1>3. ASSUME NEW i \in Int, NEW j \in Int, i <= j
      PROVE  i * Interval <= j * Interval
  BY <1>1, <1>3
<1>4. k < l => k * Interval <= l * Interval - Interval
  <2>1. k < l => (k + 1) * Interval <= l * Interval
    BY <1>3
  <2>2. l * Interval \in Int
    BY <1>1
  <2>3. QED
    BY <2>1, <2>2, <1>1, <1>2
<1>5. QED
  BY <1>2, <1>3, <1>4

LEMMA Quotient ==
    ASSUME NEW k \in Int, NEW t \in Nat, k * Interval <= t
    PROVE  k <= t \div Interval
<1> DEFINE q == t \div Interval
<1>1. q \in Nat /\ t < q * Interval + Interval
  BY IntervalAssumption
<1>2. q < k => q * Interval <= k * Interval - Interval
  BY <1>1, Scale
<1>3. k * Interval \in Int /\ q * Interval \in Int /\ Interval \in Nat
  BY <1>1, Scale, IntervalAssumption
<1> HIDE DEF q
<1>4. ~(q < k)
  BY <1>1, <1>2, <1>3
<1>5. QED
  BY <1>1, <1>4 DEF q

LEMMA StepPaced == OneChecker /\ TypeOK /\ ListInv /\ PacedInv /\ [Next]_vars => PacedInv'
<1> SUFFICES ASSUME OneChecker, TypeOK, ListInv, PacedInv, [Next]_vars, NEW b \in Bots
             PROVE  IsFiniteSet(Pending(b))' /\ Paced(b)'
  BY DEF PacedInv
<1> USE ProcsAssumption DEF Procs, table, exch, local, users
<1> DEFINE n == Cardinality(Pending(b))
           m == Cardinality(Pending(b)')
<1>0. /\ IsFiniteSet(Pending(b)) /\ n \in Nat
      /\ Over(b) = bought[b] + 1 - (starts + faults - n) /\ Over(b) \in Int
      /\ starts \in Nat /\ faults \in Nat /\ bought[b] \in Nat
      /\ now \in Nat /\ Interval \in Nat /\ nextBuy[b] \in 0..(now + Interval)
      /\ \A c \in Procs : plan[c] \in 0..(now + Interval)
  <2>1. IsFiniteSet(Pending(b)) /\ n \in Nat
    BY FS_CardinalityType DEF PacedInv
  <2>2. QED
    BY <2>1, IntervalAssumption, BoundsAssumption DEF Over, TypeOK
\* Wherever the bot is, it is due within an interval.
<1>1. Over(b) * Interval \in Int /\ Over(b) * Interval <= now + Interval
  <2>1. Over(b) * Interval \in Int
    BY <1>0, Scale
  <2>2. CASE Over(b) * Interval <= now
    BY <2>1, <2>2, <1>0
  <2>3. CASE Unwritten(b) /\ ~(Over(b) * Interval <= now)
    <3>1. PICK c \in Checkers : pc[c] = "record" /\ bot[c] = b
      BY <2>3 DEF Unwritten
    <3>2. Over(b) * Interval <= plan[c]
      BY <3>1, <2>3 DEF PacedInv, Paced
    <3>3. QED
      BY <3>2, <2>1, <1>0
  <2>4. CASE ~Unwritten(b) /\ ~(Over(b) * Interval <= now)
    BY <2>1, <2>4, <1>0 DEF PacedInv, Paced
  <2>5. QED
    BY <2>2, <2>3, <2>4
<1>2. ASSUME IsFiniteSet(Pending(b))', UNCHANGED <<bought, now>>, starts' \in Nat, faults' \in Nat
      PROVE  /\ m \in Nat
             /\ Over(b)' = bought[b] + 1 - (starts' + faults' - m) /\ Over(b)' \in Int
  <2>1. m \in Nat
    BY <1>2, FS_CardinalityType
  <2>2. QED
    BY <2>1, <1>2, <1>0 DEF Over
\* A step that grants a purchase: the bot is late from now on.
<1>less. ASSUME Over(b)' \in Int, Over(b)' < Over(b), UNCHANGED now
         PROVE  Paced(b)'
  <2>1. Over(b)' * Interval <= Over(b) * Interval - Interval /\ Over(b)' * Interval \in Int
    BY <1>less, <1>0, Scale
  <2>2. Over(b)' * Interval <= now'
    BY <2>1, <1>less, <1>0, <1>1
  <2>3. QED
    BY <2>2, IntervalAssumption DEF Paced
\* A step that neither buys for the bot nor plans for it.
<1>same. ASSUME Over(b)' \in Int, Over(b)' <= Over(b), UNCHANGED now, nextBuy'[b] = nextBuy[b],
                Listed(b)' => Listed(b) \/ Over(b) * Interval <= now,
                \A c \in Checkers : pc'[c] = "record" /\ bot'[c] = b <=> pc[c] = "record" /\ bot[c] = b,
                \A c \in Checkers : pc[c] = "record" => plan'[c] = plan[c]
         PROVE  Paced(b)'
  <2>1. Over(b)' * Interval <= Over(b) * Interval /\ Over(b)' * Interval \in Int
    BY <1>same, <1>0, Scale
  <2>2. Unwritten(b)' <=> Unwritten(b)
    BY <1>same DEF Unwritten
  <2>3. CASE Over(b) * Interval <= now
    <3>1. Over(b)' * Interval <= now'
      BY <2>1, <2>3, <1>same, <1>0, <1>1
    <3>2. QED
      BY <3>1 DEF Paced
  <2>4. CASE ~(Over(b) * Interval <= now)
    <3>1. ~Listed(b)'
      BY <2>4, <1>same DEF PacedInv, Paced
    <3>2. ~Unwritten(b)' => Over(b)' * Interval <= nextBuy'[b]
      BY <2>1, <2>2, <2>4, <1>same, <1>0, <1>1 DEF PacedInv, Paced
    <3>3. ASSUME NEW c \in Checkers, pc'[c] = "record", bot'[c] = b
          PROVE  Over(b)' * Interval <= plan'[c]
      <4>1. pc[c] = "record" /\ bot[c] = b /\ plan'[c] = plan[c]
        BY <3>3, <1>same
      <4>2. Over(b) * Interval <= plan[c]
        BY <4>1, <2>4 DEF PacedInv, Paced
      <4>3. QED
        BY <4>1, <4>2, <2>1, <1>0, <1>1
    <3>4. QED
      BY <3>1, <3>2, <3>3 DEF Paced
  <2>5. QED
    BY <2>3, <2>4
<1>3. ASSUME NEW h \in Handlers, NEW x \in Bots, RequestHalt(h, x)
      PROVE  IsFiniteSet(Pending(b))' /\ Paced(b)'
  <2>1. UNCHANGED <<nextBuy, bought, now, starts, faults, plan, todo>> /\ Pending(b)' = Pending(b)
    BY <1>3 DEF RequestHalt, Goto, Pending, TypeOK
  <2>2. Over(b)' = Over(b) /\ IsFiniteSet(Pending(b))'
    BY <2>1, <1>0 DEF Over
  <2>3. \A c \in Checkers : pc'[c] = pc[c] /\ bot'[c] = bot[c]
    BY <1>3 DEF RequestHalt, Goto, TypeOK
  <2>4. Listed(b)' => Listed(b)
    BY <2>1, <2>3 DEF Listed
  <2>5. QED
    BY <2>1, <2>2, <2>3, <2>4, <1>0, <1>same
\* A start is granted its purchase only when it has written next_buy_at.
<1>4. ASSUME NEW h \in Handlers, NEW x \in Bots, NEW buyNow \in BOOLEAN, RequestStart(h, x, buyNow)
      PROVE  IsFiniteSet(Pending(b))' /\ Paced(b)'
  <2>1. UNCHANGED <<nextBuy, bought, now, faults, todo>> /\ starts' = starts + 1
    BY <1>4 DEF RequestStart
  <2>2. h \notin Pending(b) /\ Pending(b)' = IF x = b THEN Pending(b) \cup {h} ELSE Pending(b)
    BY <1>4 DEF RequestStart, Goto, Pending, TypeOK
  <2>3. IsFiniteSet(Pending(b))' /\ m = IF x = b THEN n + 1 ELSE n
    <3>1. CASE x = b
      <4>1. Pending(b)' = Pending(b) \cup {h} /\ h \notin Pending(b)
        BY <3>1, <2>2
      <4>2. IsFiniteSet(Pending(b) \cup {h}) /\ Cardinality(Pending(b) \cup {h}) = n + 1
        BY <4>1, <1>0, FS_AddElement DEF n
      <4>3. QED
        BY <4>1, <4>2, <3>1 DEF m
    <3>2. CASE x # b
      BY <3>2, <2>2, <1>0 DEF n, m
    <3>3. QED
      BY <3>1, <3>2
  <2>4. Over(b)' \in Int /\ Over(b)' <= Over(b)
    BY <2>1, <2>3, <1>0, <1>2
  <2>5. \A c \in Checkers : pc'[c] = pc[c] /\ bot'[c] = bot[c] /\ plan'[c] = plan[c]
    BY <1>4 DEF RequestStart, Goto, TypeOK
  <2>6. Listed(b)' => Listed(b)
    BY <2>1, <2>5 DEF Listed
  <2>7. QED
    BY <2>1, <2>3, <2>4, <2>5, <2>6, <1>same
<1>5. ASSUME NEW h \in Handlers, NEW ok \in BOOLEAN, Plan(h, ok)
      PROVE  IsFiniteSet(Pending(b))' /\ Paced(b)'
  <2>1. /\ UNCHANGED <<bought, now, starts, todo>>
        /\ faults' = IF ok THEN faults ELSE faults + 1
        /\ bot[h] # b => nextBuy'[b] = nextBuy[b]
    BY <1>5 DEF Plan, RecordBuy, Call, Done, TypeOK
  <2>2. Pending(b)' = Pending(b) \ {h} /\ (h \in Pending(b) <=> bot[h] = b)
    BY <1>5 DEF Plan, Done, Goto, Pending, TypeOK
  <2>3. IsFiniteSet(Pending(b))' /\ m = IF bot[h] = b THEN n - 1 ELSE n
    BY <2>2, <1>0, FS_RemoveElement
  <2>4. Over(b)' \in Int /\ Over(b)' <= Over(b) /\ (bot[h] = b => Over(b)' < Over(b))
    BY <2>1, <2>3, <1>0, <1>2
  <2>5. \A c \in Checkers : pc'[c] = pc[c] /\ bot'[c] = bot[c] /\ plan'[c] = plan[c]
    BY <1>5 DEF Plan, Done, Goto, TypeOK
  <2>6. Listed(b)' => Listed(b)
    BY <2>1, <2>5 DEF Listed
  <2>7. CASE bot[h] = b
    BY <2>7, <2>1, <2>3, <2>4, <1>less
  <2>8. CASE bot[h] # b
    BY <2>8, <2>1, <2>3, <2>4, <2>5, <2>6, <1>same
  <2>9. QED
    BY <2>7, <2>8
<1>6. ASSUME NEW h \in Handlers, NEW ok \in BOOLEAN, Activate(h, ok) \/ Halt(h, ok)
      PROVE  IsFiniteSet(Pending(b))' /\ Paced(b)'
  <2>1. UNCHANGED <<nextBuy, bought, now, starts, todo>> /\ faults' = IF ok THEN faults ELSE faults + 1
    BY <1>6 DEF Activate, Halt, SetStatus, Call, Done
  <2>2. Pending(b)' = Pending(b)
    BY <1>6 DEF Activate, Halt, Done, Goto, Pending, TypeOK
  <2>3. IsFiniteSet(Pending(b))' /\ Over(b)' \in Int /\ Over(b)' <= Over(b)
    BY <2>1, <2>2, <1>0, <1>2
  <2>4. \A c \in Checkers : pc'[c] = pc[c] /\ bot'[c] = bot[c] /\ plan'[c] = plan[c]
    BY <1>6 DEF Activate, Halt, Done, Goto, TypeOK
  <2>5. Listed(b)' => Listed(b)
    BY <2>1, <2>4 DEF Listed
  <2>6. QED
    BY <2>1, <2>3, <2>4, <2>5, <1>same
\* What the steps of the job leave alone.
<1>p. ASSUME NEW c \in Checkers, NEW step \in Steps, pc' = [pc EXCEPT ![c] = step],
             bot' = [bot EXCEPT ![c] = bot'[c]]
      PROVE  Pending(b)' = Pending(b) /\ IsFiniteSet(Pending(b))' /\ m = n
  <2>1. Pending(b)' = Pending(b)
    BY <1>p DEF Pending, TypeOK
  <2>2. QED
    BY <2>1, <1>0
\* A bot is listed when it is due.
<1>7. ASSUME NEW c \in Checkers, ListDue(c)
      PROVE  IsFiniteSet(Pending(b))' /\ Paced(b)'
  <2>1. /\ UNCHANGED <<nextBuy, bought, now, starts, faults, bot, plan>>
        /\ pc[c] = "idle" /\ pc' = [pc EXCEPT ![c] = "loop"]
        /\ todo' = [todo EXCEPT ![c] = {x \in Bots : Due(x)}]
    BY <1>7 DEF ListDue, Goto
  <2>2. bot' = [bot EXCEPT ![c] = bot'[c]]
    BY <2>1 DEF TypeOK
  <2>3. IsFiniteSet(Pending(b))' /\ m = n
    BY <2>1, <2>2, <1>p DEF Steps
  <2>4. Over(b)' = Over(b)
    BY <2>1, <2>3 DEF Over, n, m
  <2>5. ~Unwritten(b)
    BY <2>1 DEF OneChecker, Unwritten
  <2>6. Listed(b)' => nextBuy[b] <= now
    BY <2>1 DEF OneChecker, Listed, Due, TypeOK
  <2>7. Listed(b)' => Listed(b) \/ Over(b) * Interval <= now
    BY <2>5, <2>6, <1>0, <1>1 DEF PacedInv, Paced
  <2>8. \A d \in Checkers : pc'[d] = "record" /\ bot'[d] = b <=> pc[d] = "record" /\ bot[d] = b
    BY <2>1 DEF TypeOK
  <2>9. QED
    BY <2>1, <2>3, <2>4, <2>7, <2>8, <1>0, <1>same
<1>8. ASSUME NEW c \in Checkers, NextBot(c) \/ Leave(c) \/ Prepare(c)
      PROVE  IsFiniteSet(Pending(b))' /\ Paced(b)'
  <2>1. UNCHANGED <<nextBuy, bought, now, starts, faults, plan>>
    BY <1>8 DEF NextBot, Leave, Prepare
  <2>2. PICK step \in Steps \ {"record"} : pc' = [pc EXCEPT ![c] = step] /\ pc[c] # "record"
    BY <1>8 DEF NextBot, Leave, Prepare, Goto, Steps
  <2>3. bot' = [bot EXCEPT ![c] = bot'[c]]
    BY <1>8 DEF NextBot, Leave, Prepare, TypeOK
  <2>4. IsFiniteSet(Pending(b))' /\ m = n
    BY <2>2, <2>3, <1>p
  <2>5. Over(b)' = Over(b)
    BY <2>1, <2>4 DEF Over, n, m
  <2>6. Listed(b)' => Listed(b)
    BY <1>8 DEF OneChecker, NextBot, Leave, Prepare, Goto, Listed, TypeOK
  <2>7. \A d \in Checkers : pc'[d] = "record" /\ bot'[d] = b <=> pc[d] = "record" /\ bot[d] = b
    BY <2>2 DEF OneChecker, TypeOK
  <2>8. QED
    BY <2>1, <2>4, <2>5, <2>6, <2>7, <1>0, <1>same
\* The purchase of a listed bot: the next one is an interval away.
<1>9. ASSUME NEW c \in Checkers, NEW reply \in Replies, PlaceOrder(c, reply)
      PROVE  IsFiniteSet(Pending(b))' /\ Paced(b)'
  <2>1. /\ UNCHANGED <<nextBuy, now, starts, bot, todo>>
        /\ pc[c] = "place" /\ pc' = [pc EXCEPT ![c] = IF reply = "ok" THEN "record" ELSE "fail"]
        /\ faults' = IF reply = "lost" THEN faults + 1 ELSE faults
        /\ bought' = IF reply = "refused" THEN bought ELSE [bought EXCEPT ![bot[c]] = @ + 1]
        /\ plan' = [plan EXCEPT ![c] = IF reply = "ok" THEN now + Interval ELSE 0]
    BY <1>9 DEF PlaceOrder, Call, Goto
  <2>2. bot' = [bot EXCEPT ![c] = bot'[c]]
    BY <2>1 DEF TypeOK
  <2>3. IsFiniteSet(Pending(b))' /\ m = n
    BY <2>1, <2>2, <1>p DEF Steps
  <2>4. bought'[b] = IF reply # "refused" /\ bot[c] = b THEN bought[b] + 1 ELSE bought[b]
    BY <2>1 DEF TypeOK
  <2>5. Over(b)' = bought'[b] + 1 - (starts + faults' - n)
    BY <2>1, <2>3 DEF Over, n, m
  <2>6. /\ reply = "ok" /\ bot[c] = b => Over(b)' = Over(b) + 1
        /\ ~(reply = "ok" /\ bot[c] = b) => Over(b)' <= Over(b)
        /\ Over(b)' \in Int
    BY <2>1, <2>4, <2>5, <1>0 DEF Replies
  <2>7. CASE reply = "ok" /\ bot[c] = b
    <3>1. Over(b) * Interval <= now
      BY <2>1, <2>7 DEF Listed, PacedInv, Paced
    <3>2. Over(b)' * Interval = Over(b) * Interval + Interval
      BY <2>6, <2>7, <1>0, Scale
    <3>3. b \notin todo[c]
      BY <2>1, <2>7 DEF ListInv
    <3>4. ~Listed(b)' /\ Unwritten(b)'
      BY <2>1, <2>7, <3>3 DEF OneChecker, Listed, Unwritten, TypeOK
    <3>5. \A d \in Checkers : plan'[d] = now + Interval
      BY <2>1, <2>7 DEF OneChecker, TypeOK
    <3>6. Over(b)' * Interval <= now + Interval
      BY <3>1, <3>2, <1>0, <1>1
    <3>7. QED
      BY <2>3, <3>4, <3>5, <3>6 DEF Paced
  <2>8. CASE ~(reply = "ok" /\ bot[c] = b)
    <3>1. Listed(b)' => Listed(b)
      BY <2>1 DEF OneChecker, Listed, TypeOK
    <3>2. \A d \in Checkers : pc'[d] = "record" /\ bot'[d] = b <=> pc[d] = "record" /\ bot[d] = b
      BY <2>1, <2>8 DEF OneChecker, TypeOK
    <3>3. \A d \in Checkers : pc[d] # "record"
      BY <2>1 DEF OneChecker
    <3>4. QED
      BY <2>1, <2>3, <2>6, <2>8, <3>1, <3>2, <3>3, <1>same
  <2>9. QED
    BY <2>7, <2>8
\* RecordBuy moves next_buy_at to what was planned; a failed one is a failure.
<1>10. ASSUME NEW c \in Checkers, NEW ok \in BOOLEAN, Record(c, ok)
       PROVE  IsFiniteSet(Pending(b))' /\ Paced(b)'
  <2>1. /\ UNCHANGED <<bought, now, starts, todo>>
        /\ pc[c] = "record" /\ pc' = [pc EXCEPT ![c] = "loop"]
        /\ bot' = [bot EXCEPT ![c] = None]
        /\ faults' = IF ok THEN faults ELSE faults + 1
        /\ nextBuy' = IF ok THEN [nextBuy EXCEPT ![bot[c]] = plan[c]] ELSE nextBuy
    BY <1>10 DEF Record, RecordBuy, Call, Done, Goto
  <2>2. bot' = [bot EXCEPT ![c] = bot'[c]]
    BY <2>1 DEF TypeOK
  <2>3. IsFiniteSet(Pending(b))' /\ m = n
    BY <2>1, <2>2, <1>p DEF Steps
  <2>4. Over(b)' = bought[b] + 1 - (starts + faults' - n)
    BY <2>1, <2>3 DEF Over, n, m
  <2>5. /\ Over(b)' \in Int
        /\ ok => Over(b)' = Over(b)
        /\ ~ok => Over(b)' < Over(b)
    BY <2>1, <2>4, <1>0
  <2>6. (Listed(b)' => Listed(b)) /\ ~Unwritten(b)'
    BY <2>1 DEF OneChecker, Listed, Unwritten, TypeOK
  <2>7. \A d \in Checkers : pc'[d] # "record" /\ d = c
    BY <2>1 DEF OneChecker, TypeOK
  <2>8. CASE ~ok
    BY <2>8, <2>1, <2>3, <2>5, <1>less
  <2>9. CASE ok /\ bot[c] = b
    <3>1. nextBuy'[b] = plan[c]
      BY <2>1, <2>9 DEF TypeOK
    <3>2. CASE Over(b) * Interval <= now
      BY <3>2, <2>1, <2>3, <2>5, <2>9 DEF Paced
    <3>3. CASE ~(Over(b) * Interval <= now)
      <4>1. ~Listed(b) /\ Over(b) * Interval <= plan[c]
        BY <3>3, <2>1, <2>9 DEF PacedInv, Paced
      <4>2. QED
        BY <4>1, <3>1, <2>3, <2>5, <2>6, <2>7, <2>9 DEF Paced
    <3>4. QED
      BY <3>2, <3>3
  <2>10. CASE ok /\ bot[c] # b
    <3>1. nextBuy'[b] = nextBuy[b] /\ ~Unwritten(b)
      BY <2>1, <2>7, <2>10 DEF Unwritten, TypeOK
    <3>2. CASE Over(b) * Interval <= now
      BY <3>2, <2>1, <2>3, <2>5, <2>10 DEF Paced
    <3>3. CASE ~(Over(b) * Interval <= now)
      <4>1. ~Listed(b) /\ Over(b) * Interval <= nextBuy[b]
        BY <3>3, <3>1 DEF PacedInv, Paced
      <4>2. QED
        BY <4>1, <3>1, <2>3, <2>5, <2>6, <2>7, <2>10 DEF Paced
    <3>4. QED
      BY <3>2, <3>3
  <2>11. QED
    BY <2>8, <2>9, <2>10
<1>11. ASSUME NEW c \in Checkers, NEW ok \in BOOLEAN, Fail(c, ok)
       PROVE  IsFiniteSet(Pending(b))' /\ Paced(b)'
  <2>1. /\ UNCHANGED <<nextBuy, bought, now, starts, todo>>
        /\ pc[c] = "fail" /\ pc' = [pc EXCEPT ![c] = "loop"]
        /\ bot' = [bot EXCEPT ![c] = None]
        /\ faults' = IF ok THEN faults ELSE faults + 1
    BY <1>11 DEF Fail, SetStatus, Call, Done, Goto
  <2>2. bot' = [bot EXCEPT ![c] = bot'[c]]
    BY <2>1 DEF TypeOK
  <2>3. IsFiniteSet(Pending(b))' /\ m = n
    BY <2>1, <2>2, <1>p DEF Steps
  <2>4. Over(b)' \in Int /\ Over(b)' <= Over(b)
    BY <2>1, <2>3, <1>0, <1>2
  <2>5. Listed(b)' => Listed(b)
    BY <2>1 DEF OneChecker, Listed, TypeOK
  <2>6. \A d \in Checkers : pc[d] # "record" /\ pc'[d] # "record"
    BY <2>1 DEF OneChecker, TypeOK
  <2>7. QED
    BY <2>1, <2>3, <2>4, <2>5, <2>6, <1>same
<1>12. CASE Tick
  <2>1. UNCHANGED <<table, exch, local, users, faults>> /\ now' = now + 1
    BY <1>12 DEF Tick
  <2>2. Pending(b)' = Pending(b) /\ (Listed(b)' <=> Listed(b)) /\ (Unwritten(b)' <=> Unwritten(b))
    BY <2>1 DEF Pending, Listed, Unwritten
  <2>3. IsFiniteSet(Pending(b))' /\ Over(b)' = Over(b)
    BY <2>1, <2>2, <1>0 DEF Over
  <2>4. Over(b) * Interval <= now => Over(b) * Interval <= now'
    BY <2>1, <1>0, <1>1
  <2>5. Paced(b)'
    BY <2>1, <2>2, <2>3, <2>4 DEF PacedInv, Paced
  <2>6. QED
    BY <2>3, <2>5
<1>13. CASE Restart
  <2>1. UNCHANGED <<bought, now, starts>> /\ faults' = faults + 1 /\ Pending(b)' = {}
    BY <1>13 DEF Restart, Pending
  <2>2. IsFiniteSet(Pending(b))' /\ m = 0
    BY <2>1, FS_EmptySet
  <2>3. Over(b)' \in Int /\ Over(b)' < Over(b)
    BY <2>1, <2>2, <1>0, <1>2
  <2>4. QED
    BY <2>1, <2>2, <2>3, <1>less
<1>14. CASE UNCHANGED vars
  <2>1. Pending(b)' = Pending(b) /\ (Listed(b)' <=> Listed(b)) /\ (Unwritten(b)' <=> Unwritten(b))
    BY <1>14 DEF vars, Pending, Listed, Unwritten
  <2>2. IsFiniteSet(Pending(b))' /\ Over(b)' = Over(b)
    BY <2>1, <1>14, <1>0 DEF vars, Over
  <2>3. QED
    BY <2>1, <2>2, <1>14 DEF vars, PacedInv, Paced
<1>15. QED
  BY <1>3, <1>4, <1>5, <1>6, <1>7, <1>8, <1>9, <1>10, <1>11, <1>12, <1>13, <1>14
     DEF Next, Serve, CheckAndBuy

(***************************************************************************)
(* One purchase per interval, and one for each start and each failure,     *)
(* however requests, the clock and a slow pass overlap.                    *)
(***************************************************************************)
THEOREM BuysArePaced == ASSUME OneChecker PROVE Spec => []BuysPaced
<1>1. Init => ListInv /\ PacedInv
  <2> SUFFICES ASSUME Init
               PROVE  ListInv /\ PacedInv
    OBVIOUS
  <2>1. ListInv
    BY DEF Init, ListInv, Procs
  <2>2. ASSUME NEW b \in Bots
        PROVE  IsFiniteSet(Pending(b)) /\ Paced(b)
    <3>1. Pending(b) = {} /\ ~Listed(b) /\ ~Unwritten(b)
      BY DEF Init, Pending, Listed, Unwritten, Procs
    <3>2. IsFiniteSet(Pending(b)) /\ Cardinality(Pending(b)) = 0
      BY <3>1, FS_EmptySet
    <3>3. Over(b) = 1 /\ nextBuy[b] = Interval
      BY <3>2 DEF Init, Over
    <3>4. Over(b) * Interval <= nextBuy[b]
      BY <3>3, IntervalAssumption
    <3>5. QED
      BY <3>1, <3>2, <3>4 DEF Paced, Unwritten
  <2>3. QED
    BY <2>1, <2>2 DEF PacedInv
<1>2. TypeOK /\ PacedInv => BuysPaced
  <2> SUFFICES ASSUME TypeOK, PacedInv, NEW b \in Bots
               PROVE  bought[b] <= starts + faults + now \div Interval
    BY DEF BuysPaced
  <2> DEFINE n == Cardinality(Pending(b))
             k == Over(b) - 1
  <2>1. n \in Nat
    BY FS_CardinalityType DEF PacedInv
  <2>2. /\ starts \in Nat /\ faults \in Nat /\ bought[b] \in Nat
        /\ now \in Nat /\ Interval \in Nat /\ nextBuy[b] <= now + Interval
        /\ nextBuy[b] \in Nat
        /\ \A c \in Checkers : plan[c] \in Nat /\ plan[c] <= now + Interval
    BY IntervalAssumption, BoundsAssumption DEF TypeOK, Procs
  <2>3. Over(b) \in Int /\ k \in Int /\ k = bought[b] - starts - faults + n
    BY <2>1, <2>2 DEF Over
  <2>4. Over(b) * Interval = k * Interval + Interval /\ k * Interval \in Int
    BY <2>3, Scale
  <2> HIDE DEF k, n
  <2>5. Over(b) * Interval <= now + Interval
    <3>1. CASE Over(b) * Interval <= now
      BY <3>1, <2>2, <2>4
    <3>2. CASE ~(Over(b) * Interval <= now) /\ Unwritten(b)
      BY <3>2, <2>2, <2>4 DEF PacedInv, Paced, Unwritten
    <3>3. CASE ~(Over(b) * Interval <= now) /\ ~Unwritten(b)
      BY <3>3, <2>2, <2>4 DEF PacedInv, Paced
    <3>4. QED
      BY <3>1, <3>2, <3>3
  <2>6. k * Interval <= now
    BY <2>2, <2>4, <2>5
  <2>7. k <= now \div Interval
    BY <2>2, <2>3, <2>6, Quotient
  <2>8. now \div Interval \in Nat
    BY <2>2, IntervalAssumption
  <2>9. QED
    BY <2>1, <2>2, <2>3, <2>7, <2>8
<1>3. QED
  BY <1>1, <1>2, InitType, StepType, StepList, StepPaced, OneChecker, PTL DEF Spec
=============================================================================
