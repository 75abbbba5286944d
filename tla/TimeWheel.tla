---------------------------- MODULE TimeWheel ----------------------------
(***************************************************************************)
(* The hashed hierarchical timer wheel of an event loop, down to the       *)
(* pointers of its intrusive lists: first of each timer_head, next and     *)
(* pprev of each timer_node.  A pprev is the place whose pointer leads to  *)
(* the node: a slot (its first) or a timer (its next).                     *)
(*                                                                         *)
(* A callback sets, at most, timers other than those of the list that is   *)
(* running, so that callbacks are the steps that follow their Tick.  The   *)
(* clock and the cache of deadlines for the kernel are left out: Update is *)
(* as many Ticks as the clock asks for.                                    *)
(***************************************************************************)
EXTENDS Naturals, Sequences, FiniteSets, SequencesExt

CONSTANTS Timer,     \* timer_node objects, by address
          NULL,      \* nullptr
          TVR_SIZE,  \* TIME_WHEEL_TVR_SIZE
          TVN_SIZE,  \* TIME_WHEEL_TVN_SIZE
          tick_,     \* length of a tick in milliseconds
          Millis,    \* the timeouts that AddTimer is called with
          MaxTick    \* bound: ticks in one behaviour

ASSUME SizesPositive == TVR_SIZE \in Nat \ {0} /\ TVN_SIZE \in Nat \ {0}
ASSUME TickPositive == tick_ \in Nat \ {0} /\ Millis \subseteq Nat /\ MaxTick \in Nat

VARIABLES current_tick,  \* TimeWheel::current_tick_
          links,         \* first, next and pprev
          expires,       \* timer_node::expires_
          flag,          \* timer_node::flag, set once the timer has fired
          alive,         \* the timers that are constructed
          fired          \* the timers whose callback the last step ran

vars == <<current_tick, links, expires, flag, alive, fired>>

(* Ticks that levels 1 to l reach; level 1 is tv1, level 5 is tv5, and the  *)
(* sizes are powers of two, so that a shift is a division by one of these.  *)
Span == LET n == TVN_SIZE
        IN <<TVR_SIZE, TVR_SIZE * n, TVR_SIZE * n * n, TVR_SIZE * n * n * n>>

Slot == ({1} \X (0..TVR_SIZE - 1)) \cup ((2..5) \X (0..TVN_SIZE - 1))

ASSUME AddressesDiffer == /\ IsFiniteSet(Timer) /\ Timer \cap Slot = {}
                          /\ NULL \notin Timer \cup Slot \cup Nat

Place(l, e) == IF l = 1 THEN <<1, e % Span[1]>>
               ELSE <<l, (e \div Span[l - 1]) % TVN_SIZE>>

(* The level of a timer delta ticks away.  The difference is unsigned, so   *)
(* that a timer in the past, which only a broken list has, is far away.     *)
Level(delta) ==
  IF delta >= Span[4] \/ delta < 0 THEN 5
  ELSE CHOOSE l \in 1..4 : delta < Span[l] /\ (l = 1 \/ delta >= Span[l - 1])

(* What following next from t leads to, as often as there are timers. *)
Walk(l, t) ==
  LET node[k \in 0..Cardinality(Timer)] ==
        IF k = 0 THEN t
        ELSE IF node[k - 1] = NULL THEN NULL ELSE l.next[node[k - 1]]
  IN node

(* The list that starts with t, at most every timer long. *)
From(l, t) ==
  LET node == Walk(l, t)
  IN [k \in 1..Cardinality({i \in 1..Cardinality(Timer) : node[i - 1] # NULL}) |-> node[k - 1]]

Listed(l, s) == From(l, l.first[s])

Init == /\ current_tick = 0
        /\ links = [first |-> [s \in Slot |-> NULL],
                    next |-> [t \in Timer |-> NULL],
                    pprev |-> [t \in Timer |-> NULL]]
        /\ expires = [t \in Timer |-> 0]
        /\ flag = [t \in Timer |-> FALSE]
        /\ alive = {}
        /\ fired = {}

(* __insert: at the head of the list of slot s. *)
Inserted_HeadKeepsPprev(l, s, t) ==
  [l EXCEPT !.next[t] = l.first[s], !.first[s] = t, !.pprev[t] = s]
Inserted(l, s, t) ==
  [first |-> [l.first EXCEPT ![s] = t],
   next |-> [l.next EXCEPT ![t] = l.first[s]],
   pprev |-> [x \in Timer |-> IF x = t THEN s
                              ELSE IF x = l.first[s] THEN t ELSE l.pprev[x]]]

(* __timer_add of a timer that expires at e, at tick now. *)
Added(l, t, e, now) == Inserted(l, Place(Level(e - now), e), t)

(* *(place) = t *)
Stored(l, place, t) == IF place \in Slot THEN [l EXCEPT !.first[place] = t]
                       ELSE IF place \in Timer THEN [l EXCEPT !.next[place] = t]
                       ELSE l

(* timer_cancel: pprev is cleared before the successor is given it. *)
Cancelled(l, t) ==
  LET unlinked == Stored(l, l.pprev[t], l.next[t])
      succ == l.next[t]
  IN IF flag[t] THEN l
     ELSE [unlinked EXCEPT !.next[t] = NULL,
                           !.pprev = [x \in Timer |-> IF x \in {t, succ} THEN NULL ELSE @[x]]]

(* ~timer_node, of a timer that may have fired long ago. *)
Unlinked(l, t) ==
  LET unlinked == Stored(l, l.pprev[t], l.next[t])
  IN [unlinked EXCEPT !.pprev = [x \in Timer |-> IF x = l.next[t] THEN l.pprev[t] ELSE @[x]]]

Create(t) == /\ t \notin alive
             /\ alive' = alive \cup {t}
             /\ links' = [links EXCEPT !.next[t] = NULL, !.pprev[t] = NULL]
             /\ expires' = [expires EXCEPT ![t] = 0]
             /\ flag' = [flag EXCEPT ![t] = FALSE]
             /\ fired' = {}
             /\ UNCHANGED current_tick

Destroy(t) == /\ t \in alive
              /\ alive' = alive \ {t}
              /\ links' = Unlinked(links, t)
              /\ fired' = {}
              /\ UNCHANGED <<current_tick, expires, flag>>

TimerCancel(t) == /\ t \in alive
                  /\ links' = Cancelled(links, t)
                  /\ fired' = {}
                  /\ UNCHANGED <<current_tick, expires, flag, alive>>

TicksOf_RoundedUp(millis) == millis \div tick_ + 1
TicksOf(millis) == IF millis \div tick_ = 0 THEN 1 ELSE millis \div tick_

AddTimer(t, millis) ==
  LET e == current_tick + TicksOf(millis)
  IN /\ t \in alive
     /\ expires' = [expires EXCEPT ![t] = e]
     /\ flag' = [flag EXCEPT ![t] = FALSE]
     /\ links' = Added(Cancelled(links, t), t, e, current_tick)
     /\ fired' = {}
     /\ UNCHANGED <<current_tick, alive>>

(* __timer_cascade: the timers of a slot, each added again at tick now. *)
Cascade(l, s, now) ==
  LET list == Listed(l, s)
      after[i \in 0..Len(list)] ==
        IF i = 0 THEN [l EXCEPT !.first[s] = NULL]
        ELSE Added(after[i - 1], list[i], expires[list[i]], now)
  IN after
Cascaded(l, s, now) == Cascade(l, s, now)[Len(Listed(l, s))]

(* A level is cascaded when all the levels below have come round. *)
ComesRound_FirstOnly(l, now) == l = 2 /\ now % Span[1] = 0
ComesRound(l, now) == now % Span[l - 1] = 0

Round(k, l, now) == IF ComesRound(l, now) THEN Cascaded(k, Place(l, now), now) ELSE k

Tick ==
  LET now == current_tick + 1
      all == Round(Round(Round(Round(links, 2, now), 3, now), 4, now), 5, now)
      s == Place(1, now)
  IN /\ current_tick < MaxTick
     /\ current_tick' = now
     /\ fired' = ToSet(Listed(all, s))
     /\ links' = [all EXCEPT !.first[s] = NULL]
     /\ flag' = [t \in Timer |-> flag[t] \/ t \in fired']
     /\ UNCHANGED <<expires, alive>>

(* A list that leads to a timer that is gone, or round to itself, is the    *)
(* end of a behaviour: following it is undefined, or never ends.            *)
Defined ==
  \A s \in Slot : LET list == Listed(links, s) IN
    /\ ToSet(list) \subseteq alive
    /\ list # <<>> => links.next[Last(list)] = NULL

Next == /\ Defined
        /\ \/ Tick
           \/ \E t \in Timer : \/ Create(t)
                               \/ Destroy(t)
                               \/ TimerCancel(t)
                               \/ \E millis \in Millis : AddTimer(t, millis)

Spec == Init /\ [][Next]_vars

--------------------------------------------------------------------------
(* Properties. *)

Members(s) == ToSet(Listed(links, s))
IsListed(t) == \E s \in Slot : t \in Members(s)

Links == [first : [Slot -> Timer \cup {NULL}],
          next : [Timer -> Timer \cup {NULL}],
          pprev : [Timer -> Slot \cup Timer \cup {NULL}]]

(* Types; no timer waits longer than the timeout it was added with, in      *)
(* milliseconds, or one tick if that is longer (timer.cc:33-41).            *)
TypeOK ==
  /\ current_tick \in 0..MaxTick
  /\ links \in Links
  /\ expires \in [Timer -> Nat]
  /\ flag \in [Timer -> BOOLEAN]
  /\ alive \subseteq Timer
  /\ fired \subseteq Timer
  /\ \A t \in Timer :
       \/ expires[t] <= current_tick + 1
       \/ \E m \in Millis : expires[t] * tick_ <= current_tick * tick_ + m

(***************************************************************************)
(* A whole wheel.                                                          *)
(***************************************************************************)

(* The element of q at place i, or NULL behind the end. *)
At(q, i) == IF i \in DOMAIN q THEN q[i] ELSE NULL

(* The pointers l make up the lists M, which have no timer twice; the pprev *)
(* of a timer is the pointer that leads to it, or was cleared.              *)
Chained(l, M) ==
  /\ l \in Links
  /\ M \in [Slot -> Seq(Timer)]
  /\ \A s \in Slot :
       /\ l.first[s] = At(M[s], 1)
       /\ \A i \in DOMAIN M[s] :
            /\ l.next[M[s][i]] = At(M[s], i + 1)
            /\ l.pprev[M[s][i]] \in {IF i = 1 THEN s ELSE M[s][i - 1], NULL}
            /\ \A r \in Slot : \A j \in DOMAIN M[r] : M[r][j] = M[s][i] => r = s /\ j = i

(* Slot s is where a timer for tick e belongs at tick now: at level 1 it is *)
(* due before the level comes round again, above it in a later round of the *)
(* level below.                                                             *)
Timely(s, e, now) ==
  /\ s = Place(s[1], e)
  /\ IF s[1] = 1 THEN e - now \in 0..(Span[1] - 1)
     ELSE now \div Span[s[1] - 1] < e \div Span[s[1] - 1]

Lists == [s \in Slot |-> Listed(links, s)]

(* The lists are chained; each timer in one is alive, has not fired, and    *)
(* waits where its time of expiry belongs; one in none, unless it has       *)
(* fired, leads nowhere.                                                    *)
Whole ==
  /\ Chained(links, Lists)
  /\ \A s \in Slot : \A t \in Members(s) :
       /\ t \in alive /\ ~flag[t]
       /\ current_tick < expires[t] /\ Timely(s, expires[t], current_tick)
  /\ \A t \in alive : ~flag[t] /\ ~IsListed(t) =>
       links.next[t] = NULL /\ links.pprev[t] = NULL

(* The timer before t was cancelled or set again: t is in its list, but has *)
(* no pprev to take itself out by (timer.cc:25-30).                         *)
Orphan(t) == IsListed(t) /\ links.pprev[t] = NULL

(* The two slips of callers: to cancel, set again or destroy an orphan; and *)
(* to destroy a timer that has fired, which writes where its old pointers   *)
(* lead (timer.h:48-53).                                                    *)
Slip == \E t \in Timer :
  \/ /\ Orphan(t)
     /\ TimerCancel(t) \/ Destroy(t) \/ \E millis \in Millis : AddTimer(t, millis)
  \/ /\ flag[t]
     /\ Destroy(t)
     /\ links' # links

(* Whoever calls in whatever order, nothing but these two slips breaks the  *)
(* lists of the wheel or leaves a timer in a slot it does not belong to:    *)
(* not a cascade, an insertion, a timer that is set again while others wait *)
(* behind it, nor the end of one that never fired (timer.h:87-94,           *)
(* timer.cc:20-120).                                                        *)
OnlySlipsBreak == Whole /\ [][Whole => Whole' \/ Slip]_vars

(* Timers run on time.  A timer is set when a list of the wheel holds it:   *)
(* the levels, their cascades and the list surgery together are the plain   *)
(* timer service of module Timers, operation by operation.                  *)
Due == [t \in Timer |-> IF IsListed(t) THEN expires[t] ELSE NULL]

Abstract == INSTANCE Timers WITH Ticks <- {TicksOf(m) : m \in Millis}, NEVER <- NULL,
                                 tick <- current_tick, due <- Due

Serves ==
  /\ Tick => Abstract!Advance
  /\ \A t \in Timer :
       /\ Create(t) \/ Destroy(t) \/ TimerCancel(t) => Abstract!Unset(t)
       /\ \A millis \in Millis : AddTimer(t, millis) => Abstract!Set(t, TicksOf(millis))

(* A whole wheel keeps the promise of Timers to every caller but one that   *)
(* slips: a tick runs the timers that are due, each once, and no others; a  *)
(* call sets or unsets the timer it names and no other (timer.cc:20-120).   *)
ImplementsTimers == Abstract!AInit /\ [][Whole /\ ~Slip => Serves]_vars

(* The destructor keeps the lists whole (timer.h:47, "prevent the list from *)
(* being broken once the object is destroyed"): no list leads to a timer    *)
(* that is gone.                                                            *)
NoDanglingTimer == \A t \in Timer : IsListed(t) => t \in alive
==========================================================================
