----------------------------- MODULE PartsProofs -----------------------------
(***************************************************************************)
(* Proofs about the parts MCParts checks: the replay window, for every     *)
(* size of the ring; the resolver, for any number of callers, names and    *)
(* changes of network; and the key ring, for any contexts and any          *)
(* configuration of the two sides.                                         *)
(***************************************************************************)
EXTENDS MCParts, SequenceTheorems, TLAPS

----------------------------------------------------------------------------
(* The replay window: its bits say which numbers were accepted, and it     *)
(* keeps the promise of AcceptOnce.                                        *)

\* A remainder is a slot.
LEMMA SlotInRing ==
  ASSUME NEW s \in Nat
  PROVE  Slot(s) \in Slots
BY WindowAssumption DEF Slot, Slots

\* A number is its quotient times the size, plus its slot.
LEMMA SlotOfQuotient ==
  ASSUME NEW s \in Nat
  PROVE  s = Window * (s \div Window) + Slot(s)
BY WindowAssumption DEF Slot

\* Fewer than Window apart, two numbers share a slot only if they are equal.
LEMMA DistinctSlots ==
  ASSUME NEW s \in Nat, NEW t \in Nat, s <= t, t - s < Window,
         Slot(s) = Slot(t)
  PROVE  s = t
<1> DEFINE p == s \div Window
           q == t \div Window
<1>1. p \in Int /\ q \in Int
  BY WindowAssumption
<1>2. t - s = Window * (q - p)
  <2>1. Slot(s) \in Int
    BY WindowAssumption DEF Slot
  <2>2. s = Window * p + Slot(s) /\ t = Window * q + Slot(s)
    BY SlotOfQuotient
  <2>3. Window * (q - p) = Window * q - Window * p
    BY <1>1, WindowAssumption
  <2>4. Window * p \in Int /\ Window * q \in Int
    BY <1>1, WindowAssumption
  <2> HIDE DEF p, q
  <2>5. QED
    BY <2>1, <2>2, <2>3, <2>4
<1>3. q - p < 1
  <2>1. SUFFICES ASSUME q - p >= 1 PROVE FALSE
    BY <1>1
  <2>2. Window * (q - p) >= Window
    BY <2>1, <1>1, WindowAssumption
  <2>3. QED
    BY <2>2, <1>2, WindowAssumption
<1>4. q - p >= 0
  <2>1. SUFFICES ASSUME q - p <= -1 PROVE FALSE
    BY <1>1
  <2>2. Window * (q - p) <= -Window
    BY <2>1, <1>1, WindowAssumption
  <2>3. QED
    BY <2>2, <1>2, WindowAssumption
<1>5. q - p = 0
  BY <1>1, <1>3, <1>4
<1>6. t - s = 0
  BY <1>2, <1>5, WindowAssumption
<1>7. QED
  BY <1>6

----------------------------------------------------------------------------
\* A slot is set after the window moved to s only by s itself or by a number
\* that keeps its place.
LEMMA ClearedRing ==
  ASSUME TypeOK, NEW s \in Seqs, s > highest
  PROVE  ClearSkipped(s) \in [Slots -> BOOLEAN]
BY WindowAssumption DEF TypeOK, ClearSkipped, Empty, Seqs

LEMMA TypeInit == Init => TypeOK
BY WindowAssumption DEF Init, TypeOK, Seqs, Slots, Empty

LEMMA TypeNext ==
  ASSUME TypeOK, [Next]_vars
  PROVE  TypeOK'
<1> USE WindowAssumption DEF TypeOK, Seqs
<1>1. CASE Reset
  BY <1>1 DEF Reset, Empty
<1>2. ASSUME NEW s \in Seqs, Advance(s) PROVE TypeOK'
  <2>1. ring' \in [Slots -> BOOLEAN]
    BY <1>2, ClearedRing DEF Advance
  <2>2. QED
    BY <1>2, <2>1 DEF Advance
<1>3. ASSUME NEW s \in Seqs, FillIn(s) PROVE TypeOK'
  <2>1. ring' \in [Slots -> BOOLEAN]
    BY <1>3 DEF FillIn
  <2>2. accepted' \subseteq 1..highest'
    BY <1>3 DEF FillIn, Missing
  <2>3. QED
    BY <1>3, <2>1, <2>2 DEF FillIn
<1>4. ASSUME NEW s \in Seqs, Reject(s) PROVE TypeOK'
  BY <1>4 DEF Reject
<1>5. CASE UNCHANGED vars
  BY <1>5 DEF vars
<1>6. QED
  BY <1>1, <1>2, <1>3, <1>4, <1>5 DEF Next

\* Every state is well typed, for every ring size and every largest number.
THEOREM TypeCorrect == Spec => []TypeOK
<1>1. Init => TypeOK
  BY TypeInit
<1>2. TypeOK /\ [Next]_vars => TypeOK'
  BY TypeNext
<1>3. QED
  BY <1>1, <1>2, PTL DEF Spec

----------------------------------------------------------------------------
\* Moving to a new newest number: the numbers that stay within the window
\* keep their bits, those skipped lose theirs.
LEMMA AdvanceKeepsTruth ==
  ASSUME TypeOK, RingIsTruth, NEW s \in Seqs, Advance(s)
  PROVE  RingIsTruth'
<1> USE WindowAssumption
<1>1. s \in Nat \ {0} /\ highest \in Nat /\ s > highest /\ highest' = s
  BY DEF Advance, TypeOK, Seqs
<1>2. Slot(s) \in Slots
  BY <1>1, SlotInRing
<1>3. SUFFICES ASSUME NEW t \in 1..s, s - t < Window
               PROVE  ring'[Slot(t)] <=> t \in accepted'
  BY <1>1 DEF RingIsTruth
<1>4. t \in Nat /\ Slot(t) \in Slots
  BY <1>1, SlotInRing
<1>5. ring' = [ClearSkipped(s) EXCEPT ![Slot(s)] = TRUE]
      /\ accepted' = accepted \cup {s}
      /\ ClearSkipped(s) \in [Slots -> BOOLEAN]
  BY <1>1, ClearedRing DEF Advance
<1>6. CASE t = s
  BY <1>2, <1>5, <1>6
<1>7. CASE t < s
  <2>1. Slot(t) # Slot(s)
    BY <1>1, <1>3, <1>4, <1>7, DistinctSlots
  <2>2. SUFFICES ClearSkipped(s)[Slot(t)] <=> t \in accepted
    BY <1>2, <1>4, <1>5, <1>7, <2>1
  <2>3. CASE t > highest
    <3>1. t \notin accepted
      BY <1>1, <1>4, <2>3 DEF TypeOK
    <3>2. ~ClearSkipped(s)[Slot(t)]
      <4>1. t \in (highest + 1)..(s - 1)
        BY <1>1, <1>4, <1>7, <2>3
      <4>2. QED
        BY <4>1, <1>4 DEF ClearSkipped, Empty
    <3>3. QED
      BY <3>1, <3>2
  <2>4. CASE t <= highest
    <3>1. s - highest < Window /\ highest - t < Window /\ t \in 1..highest
      BY <1>1, <1>3, <1>4, <2>4
    <3>2. \A n \in (highest + 1)..(s - 1) : Slot(n) # Slot(t)
      <4>1. SUFFICES ASSUME NEW n \in (highest + 1)..(s - 1)
                     PROVE  Slot(n) # Slot(t)
        OBVIOUS
      <4>2. n \in Nat /\ t <= n /\ n # t /\ n - t < Window
        BY <1>1, <1>3, <1>4, <2>4
      <4>3. QED
        BY <4>2, <1>4, DistinctSlots
    <3>3. ClearSkipped(s)[Slot(t)] <=> ring[Slot(t)]
      <4>1. ~(s - highest >= Window)
        BY <1>1, <3>1
      <4>2. QED
        BY <4>1, <3>2, <1>4 DEF ClearSkipped, TypeOK
    <3>4. ring[Slot(t)] <=> t \in accepted
      BY <3>1 DEF RingIsTruth
    <3>5. QED
      BY <3>3, <3>4
  <2>5. QED
    BY <1>1, <1>4, <2>3, <2>4
<1>8. QED
  BY <1>1, <1>4, <1>6, <1>7

\* Accepting a late number sets its own bit and no other number's.
LEMMA FillInKeepsTruth ==
  ASSUME TypeOK, RingIsTruth, NEW s \in Seqs, FillIn(s)
  PROVE  RingIsTruth'
<1> USE WindowAssumption
<1>1. s \in Nat \ {0} /\ highest \in Nat /\ s <= highest
      /\ highest - s < Window /\ highest' = highest
  BY DEF FillIn, Missing, TypeOK, Seqs
<1>2. Slot(s) \in Slots
  BY <1>1, SlotInRing
<1>3. SUFFICES ASSUME NEW t \in 1..highest, highest - t < Window
               PROVE  ring'[Slot(t)] <=> t \in accepted'
  BY <1>1 DEF RingIsTruth
<1>4. t \in Nat /\ Slot(t) \in Slots
  BY <1>1, SlotInRing
<1>5. ring' = [ring EXCEPT ![Slot(s)] = TRUE] /\ accepted' = accepted \cup {s}
      /\ ring \in [Slots -> BOOLEAN]
  BY DEF FillIn, TypeOK
<1>6. CASE t = s
  BY <1>2, <1>5, <1>6
<1>7. CASE t # s
  <2>1. t - s < Window /\ s - t < Window
    BY <1>1, <1>3, <1>4
  <2>2. Slot(t) # Slot(s)
    BY <1>1, <1>4, <1>7, <2>1, DistinctSlots
  <2>3. ring[Slot(t)] <=> t \in accepted
    BY <1>3 DEF RingIsTruth
  <2>4. QED
    BY <1>2, <1>4, <1>5, <1>7, <2>2, <2>3
<1>8. QED
  BY <1>6, <1>7

LEMMA TruthNext ==
  ASSUME TypeOK, RingIsTruth, [Next]_vars
  PROVE  RingIsTruth'
<1>1. CASE Reset
  BY <1>1 DEF Reset, RingIsTruth
<1>2. ASSUME NEW s \in Seqs, Reject(s) PROVE RingIsTruth'
  BY <1>2 DEF Reject, RingIsTruth
<1>3. CASE UNCHANGED vars
  BY <1>3 DEF vars, RingIsTruth
<1>4. QED
  BY <1>1, <1>2, <1>3, AdvanceKeepsTruth, FillInKeepsTruth DEF Next

\* Within the window a bit says whether its number was accepted.
THEOREM RingCorrect == Spec => []RingIsTruth
<1>1. Init => RingIsTruth
  BY DEF Init, RingIsTruth
<1>2. TypeOK /\ RingIsTruth /\ [Next]_vars => RingIsTruth'
  BY TruthNext
<1>3. QED
  BY <1>1, <1>2, TypeCorrect, PTL DEF Spec

----------------------------------------------------------------------------
\* Every step of the ring is a step, or a stutter, of the abstract window.
LEMMA StepRefines ==
  ASSUME TypeOK, RingIsTruth, [Next]_vars
  PROVE  [Promise!Next]_(Promise!absVars)
<1> USE WindowAssumption DEF Promise!Next, Promise!Offer, Promise!absVars
<1>1. CASE Reset
  BY <1>1 DEF Reset, Promise!Reset, Promise!Init
<1>2. ASSUME NEW s \in Seqs, Advance(s) PROVE Promise!Offer(s)
  <2>1. Promise!Due(s) /\ s > highest
    BY <1>2 DEF Advance, Promise!Due, TypeOK, Seqs
  <2>2. QED
    BY <1>2, <2>1 DEF Advance
<1>3. ASSUME NEW s \in Seqs, s <= highest
      PROVE  Missing(s) <=> Promise!Due(s)
  <2>1. s \in Nat /\ highest \in Nat
    BY DEF TypeOK, Seqs
  <2>2. s > 0 => s \in 1..highest
    BY <1>3, <2>1
  <2>3. s > 0 /\ highest - s < Window => (ring[Slot(s)] <=> s \in accepted)
    BY <2>2 DEF RingIsTruth
  <2>4. ~(s > highest)
    BY <1>3, <2>1
  <2>5. QED
    BY <2>3, <2>4 DEF Missing, Promise!Due
<1>4. ASSUME NEW s \in Seqs, FillIn(s) PROVE Promise!Offer(s)
  <2>1. Promise!Due(s) /\ ~(s > highest)
    BY <1>3, <1>4 DEF FillIn, TypeOK, Seqs
  <2>2. QED
    BY <1>4, <2>1 DEF FillIn
<1>5. ASSUME NEW s \in Seqs, Reject(s) PROVE Promise!Offer(s)
  <2>1. ~Promise!Due(s)
    BY <1>3, <1>5 DEF Reject
  <2>2. QED
    BY <1>5, <2>1 DEF Reject
<1>6. CASE UNCHANGED vars
  BY <1>6 DEF vars
<1>7. QED
  BY <1>1, <1>2, <1>4, <1>5, <1>6 DEF Next

\* The ring of bits implements the set of accepted numbers: at most once,
\* and nothing within the window is refused that was not accepted before.
THEOREM KeepsPromise == Spec => PromiseKept
<1>1. Init => Promise!Init
  BY DEF Init, Promise!Init
<1>2. TypeOK /\ RingIsTruth /\ [Next]_vars
      => [Promise!Next]_(Promise!absVars)
  BY StepRefines
<1>3. QED
  BY <1>1, <1>2, TypeCorrect, RingCorrect, PTL
  DEF Spec, PromiseKept, Promise!Spec

----------------------------------------------------------------------------
(* The resolver: one query for a name at a time, and waiters who get an    *)
(* address whenever the query they waited for brought one.                 *)

\* Nothing is looked up before the host has sent a list, and no list ever
\* goes away (LookupHost asks the system until then).
ListKnown ==
    \A c \in Callers :
        /\ lookup[c].at # "idle" => servers # 0 /\ lookup[c].host \in Hosts
        /\ lookup[c].at = "asking" => lookup[c].asked # 0

\* Whoever waits, waits for a caller who is still at work on the same name
\* and has yet to close the channel.
OwnerAtWork ==
    \A c \in Callers : lookup[c].at = "waiting" =>
        /\ lookup[c].owner \in Callers
        /\ lookup[lookup[c].owner].at \in {"claimed", "asking", "done"}
        /\ lookup[lookup[c].owner].host = lookup[c].host

\* What a query brought stays in the cache for those who were told of it:
\* entries grow old or are replaced, they are never removed.
ToldIsCached ==
    \A c \in Callers :
        lookup[c].at \in {"done", "woken"} /\ lookup[c].got # Refused =>
            cache[lookup[c].host].from # 0

DnsInv ==
    /\ DnsTypeOK
    /\ SingleFlight
    /\ ListKnown
    /\ OwnerAtWork
    /\ ToldIsCached
    /\ WaitersShare
LEMMA InvInit == DnsInit => DnsInv
<1> SUFFICES ASSUME DnsInit PROVE DnsInv
  OBVIOUS
<1> USE ResolverAssumption DEF DnsInit, Idle, NoEntry, NoAnswer, Refused, Nobody
<1>1. DnsTypeOK
  BY DEF DnsTypeOK, Entry, Lookup, Answer, Networks
<1>2. SingleFlight /\ ListKnown /\ OwnerAtWork
  BY DEF SingleFlight, ListKnown, OwnerAtWork
<1>3. ToldIsCached /\ WaitersShare
  BY DEF ToldIsCached, WaitersShare
<1>4. QED
  BY <1>1, <1>2, <1>3 DEF DnsInv

----------------------------------------------------------------------------
(* The steps of a lookup.                                                  *)

\* A lookup answered without a query: at once, or after waiting for one.
LEMMA AnsweredKeeps ==
  ASSUME DnsInv, NEW c \in Callers,
         lookup[c].at \in {"idle", "woken"},
         NEW from \in Networks \cup {Refused}, NEW told \in Networks \cup {Refused},
         NEW since \in Networks \cup {0}, NEW failed \in BOOLEAN,
         Answered(c, from, since, failed, told),
         told # Refused => from # Refused,
         UNCHANGED <<servers, cache, inFlight>>
  PROVE  DnsInv'
<1> USE ResolverAssumption DEF DnsInv, Answered, Nobody
<1>1. lookup \in [Callers -> Lookup] /\ Idle \in Lookup
  BY DEF DnsTypeOK, Lookup, Idle, Networks, Refused
<1>2. /\ lookup'[c] = Idle
      /\ \A d \in Callers \ {c} : lookup'[d] = lookup[d]
  BY <1>1
<1>3. DnsTypeOK'
  BY <1>1 DEF DnsTypeOK, Answer
<1>4. SingleFlight'
  BY <1>1, <1>2 DEF SingleFlight, Idle
<1>5. ListKnown' /\ ToldIsCached'
  BY <1>1, <1>2 DEF ListKnown, ToldIsCached, Idle
<1>6. OwnerAtWork'
  BY <1>1, <1>2 DEF OwnerAtWork, Idle
<1>7. WaitersShare'
  BY DEF WaitersShare
<1>8. QED
  BY <1>3, <1>4, <1>5, <1>6, <1>7

LEMMA AskSystemKeeps ==
  ASSUME DnsInv, NEW c \in Callers, AskSystem(c)
  PROVE  DnsInv'
BY AnsweredKeeps DEF AskSystem

LEMMA AnswerFromCacheKeeps ==
  ASSUME DnsInv, NEW c \in Callers, NEW h \in Hosts, AnswerFromCache(c, h)
  PROVE  DnsInv'
<1>1. cache[h].from \in Networks \cup {Refused} /\ servers \in Networks \cup {0}
  BY DEF DnsInv, DnsTypeOK, Entry, Refused
<1>2. QED
  BY <1>1, AnsweredKeeps DEF AnswerFromCache

\* A waiter finds what its owner was told of, or something newer.
LEMMA ReadAfterWaitKeeps ==
  ASSUME DnsInv, NEW c \in Callers, ReadAfterWait(c)
  PROVE  DnsInv'
<1> DEFINE l == lookup[c]
<1>1. l \in Lookup /\ l.at = "woken" /\ l.host \in Hosts
  BY DEF DnsInv, DnsTypeOK, ReadAfterWait, ListKnown
<1>2. cache[l.host] \in Entry
  BY <1>1 DEF DnsInv, DnsTypeOK
<1>3. /\ WaiterFinds(l.host) = cache[l.host].from
      /\ cache[l.host].from \in Networks \cup {Refused}
  BY <1>2 DEF WaiterFinds, Usable, Entry, Refused
<1>4. l.got # Refused => cache[l.host].from # Refused
  BY <1>1 DEF DnsInv, ToldIsCached, Refused
<1>5. /\ l.got \in Networks \cup {Refused}
      /\ l.since \in Networks \cup {0} /\ l.failed \in BOOLEAN
  BY <1>1 DEF Lookup
<1>6. QED
  BY <1>1, <1>3, <1>4, <1>5, AnsweredKeeps DEF ReadAfterWait

\* A lookup that begins is one.
LEMMA BegunLookup ==
  ASSUME servers \in Networks \cup {0}, NEW at \in {"claimed", "waiting"},
         NEW h \in Hosts, NEW owner \in Callers \cup {Nobody}
  PROVE  /\ Begun(at, h, owner) \in Lookup
         /\ Begun(at, h, owner).at = at
         /\ Begun(at, h, owner).host = h
         /\ Begun(at, h, owner).owner = owner
BY DEF Begun, Lookup

LEMMA JoinKeeps ==
  ASSUME DnsInv, NEW c \in Callers, NEW h \in Hosts, Join(c, h)
  PROVE  DnsInv'
<1> DEFINE own == inFlight[h]
           new == Begun("waiting", h, own)
<1> USE ResolverAssumption DEF DnsInv, Join, Nobody
<1>1. lookup \in [Callers -> Lookup]
  BY DEF DnsTypeOK
<1>2. own \in Callers /\ own # c
  BY DEF DnsTypeOK, SingleFlight
<1>3. lookup[own].at \in {"claimed", "asking"} /\ lookup[own].host = h
  BY <1>2 DEF SingleFlight
<1>4. servers \in Networks \cup {0}
  BY DEF DnsTypeOK
<1>5. /\ new \in Lookup /\ new.at = "waiting"
      /\ new.host = h /\ new.owner = own
  BY <1>2, <1>4, BegunLookup
<1>6. /\ lookup'[c] = new
      /\ \A d \in Callers \ {c} : lookup'[d] = lookup[d]
  BY <1>1
<1> HIDE DEF new
<1>7. DnsTypeOK'
  BY <1>1, <1>5, <1>6 DEF DnsTypeOK, new
<1>8. SingleFlight'
  BY <1>5, <1>6 DEF SingleFlight
<1>9. ListKnown' /\ ToldIsCached'
  BY <1>5, <1>6 DEF ListKnown, ToldIsCached
<1>10. OwnerAtWork'
  BY <1>2, <1>3, <1>5, <1>6 DEF OwnerAtWork
<1>11. WaitersShare'
  BY DEF WaitersShare
<1>12. QED
  BY <1>7, <1>8, <1>9, <1>10, <1>11

LEMMA ClaimKeeps ==
  ASSUME DnsInv, NEW c \in Callers, NEW h \in Hosts, Claim(c, h)
  PROVE  DnsInv'
<1> DEFINE new == Begun("claimed", h, Nobody)
<1> USE ResolverAssumption DEF DnsInv, Claim, Nobody
<1>1. /\ lookup \in [Callers -> Lookup]
      /\ inFlight \in [Hosts -> Callers \cup {Nobody}]
  BY DEF DnsTypeOK
<1>2. servers \in Networks \cup {0}
  BY DEF DnsTypeOK
<1>3. new \in Lookup /\ new.at = "claimed" /\ new.host = h
  BY <1>2, BegunLookup
<1>4. /\ lookup'[c] = new
      /\ \A d \in Callers \ {c} : lookup'[d] = lookup[d]
  BY <1>1
<1>5. /\ inFlight'[h] = c
      /\ \A g \in Hosts \ {h} : inFlight'[g] = inFlight[g]
  BY <1>1 DEF Registered
<1> HIDE DEF new
<1>6. DnsTypeOK'
  BY <1>1, <1>3, <1>4, <1>5 DEF DnsTypeOK, Registered, new
<1>7. SingleFlight'
  BY <1>3, <1>4, <1>5 DEF SingleFlight
<1>8. ListKnown' /\ ToldIsCached'
  BY <1>3, <1>4 DEF ListKnown, ToldIsCached
<1>9. OwnerAtWork'
  BY <1>3, <1>4 DEF OwnerAtWork
<1>10. WaitersShare'
  BY DEF WaitersShare
<1>11. QED
  BY <1>6, <1>7, <1>8, <1>9, <1>10

LEMMA TakeServersKeeps ==
  ASSUME DnsInv, NEW c \in Callers, TakeServers(c)
  PROVE  DnsInv'
<1> DEFINE new == [lookup[c] EXCEPT !.at = "asking", !.asked = servers]
<1>1. /\ lookup \in [Callers -> Lookup] /\ servers \in Networks \cup {0}
      /\ lookup[c].at = "claimed"
      /\ UNCHANGED <<servers, cache, inFlight, answer>>
  BY DEF DnsInv, DnsTypeOK, TakeServers
<1>2. /\ lookup'[c] = new
      /\ \A d \in Callers \ {c} : lookup'[d] = lookup[d]
      /\ DOMAIN lookup' = Callers /\ lookup' = [d \in DOMAIN lookup' |-> lookup'[d]]
  BY <1>1 DEF TakeServers, Lookup
<1>3. /\ new.at = "asking" /\ new.host = lookup[c].host /\ new.asked = servers
      /\ new \in Lookup
  BY <1>1 DEF Lookup
<1> HIDE DEF new
<1>4. lookup' \in [Callers -> Lookup]
  BY <1>1, <1>2, <1>3
<1>5. DnsTypeOK' /\ WaitersShare'
  BY <1>1, <1>4 DEF DnsInv, DnsTypeOK, WaitersShare
<1>6. SingleFlight'
  BY <1>1, <1>2, <1>3 DEF DnsInv, SingleFlight
<1>7. ListKnown' /\ ToldIsCached'
  BY <1>1, <1>2, <1>3 DEF DnsInv, ListKnown, ToldIsCached
<1>8. OwnerAtWork'
  BY <1>1, <1>2, <1>3 DEF DnsInv, OwnerAtWork
<1>9. QED
  BY <1>5, <1>6, <1>7, <1>8 DEF DnsInv

----------------------------------------------------------------------------
(* The end of a query.                                                     *)

\* A query that is over is not registered any more, whatever it brought.
LEMMA QueryOver ==
  ASSUME DnsInv, NEW c \in Callers, NEW got \in Networks \cup {Refused},
         NEW failed \in BOOLEAN,
         lookup[c].at = "asking",
         inFlight' = [inFlight EXCEPT ![lookup[c].host] = Nobody],
         lookup' = [lookup EXCEPT ![c] =
                      [@ EXCEPT !.at = "done", !.failed = failed, !.got = got]],
         servers' = servers
  PROVE  /\ lookup' \in [Callers -> Lookup]
         /\ inFlight' \in [Hosts -> Callers \cup {Nobody}]
         /\ lookup'[c].at = "done" /\ lookup'[c].host = lookup[c].host
         /\ lookup'[c].got = got
         /\ \A d \in Callers \ {c} : lookup'[d] = lookup[d]
         /\ SingleFlight' /\ ListKnown' /\ OwnerAtWork'
<1> DEFINE new == [lookup[c] EXCEPT !.at = "done", !.failed = failed, !.got = got]
           host == lookup[c].host
<1> USE ResolverAssumption DEF DnsInv, Nobody
<1>1. /\ lookup \in [Callers -> Lookup]
      /\ inFlight \in [Hosts -> Callers \cup {Nobody}]
      /\ host \in Hosts
  BY DEF DnsTypeOK, ListKnown
<1>2. /\ lookup'[c] = new
      /\ \A d \in Callers \ {c} : lookup'[d] = lookup[d]
  BY <1>1
<1>3. /\ new.at = "done" /\ new.host = host /\ new.got = got
      /\ new \in Lookup
  BY <1>1 DEF Lookup
<1>4. /\ inFlight'[host] = Nobody
      /\ \A g \in Hosts \ {host} : inFlight'[g] = inFlight[g]
      /\ inFlight' \in [Hosts -> Callers \cup {Nobody}]
  BY <1>1
<1>5. inFlight[host] = c
  BY <1>1 DEF SingleFlight
<1>6. lookup' \in [Callers -> Lookup]
  BY <1>1, <1>2, <1>3
<1> HIDE DEF new
<1>7. SingleFlight'
  <2> SUFFICES ASSUME NEW d \in Callers, NEW g \in Hosts
               PROVE  inFlight'[g] = d <=>
                        lookup'[d].at \in {"claimed", "asking"} /\ lookup'[d].host = g
    BY DEF SingleFlight
  <2>1. CASE d = c
    BY <1>2, <1>3, <1>4, <2>1 DEF SingleFlight
  <2>2. CASE d # c
    BY <1>1, <1>2, <1>4, <1>5, <2>2 DEF SingleFlight
  <2>3. QED
    BY <2>1, <2>2
<1>8. ListKnown'
  BY <1>1, <1>2, <1>3 DEF ListKnown
<1>9. OwnerAtWork'
  BY <1>2, <1>3 DEF OwnerAtWork
<1>10. QED
  BY <1>2, <1>3, <1>4, <1>6, <1>7, <1>8, <1>9

LEMMA QuerySucceedsKeeps ==
  ASSUME DnsInv, NEW c \in Callers, QuerySucceeds(c)
  PROVE  DnsInv'
<1> DEFINE host == lookup[c].host
           net == lookup[c].asked
<1>1. /\ lookup \in [Callers -> Lookup] /\ cache \in [Hosts -> Entry]
      /\ host \in Hosts /\ net \in Networks
      /\ lookup[c].at = "asking" /\ lookup[c].failed \in BOOLEAN
  BY DEF DnsInv, DnsTypeOK, ListKnown, QuerySucceeds, Lookup
<1>2. lookup' = [lookup EXCEPT ![c] =
                   [@ EXCEPT !.at = "done", !.failed = lookup[c].failed, !.got = net]]
  BY <1>1 DEF QuerySucceeds, Lookup
<1>3. /\ lookup' \in [Callers -> Lookup]
      /\ inFlight' \in [Hosts -> Callers \cup {Nobody}]
      /\ lookup'[c].host = host
      /\ \A d \in Callers \ {c} : lookup'[d] = lookup[d]
      /\ SingleFlight' /\ ListKnown' /\ OwnerAtWork'
  BY <1>1, <1>2, QueryOver DEF QuerySucceeds
<1>4. /\ cache' \in [Hosts -> Entry]
      /\ cache'[host].from = net
      /\ \A g \in Hosts \ {host} : cache'[g] = cache[g]
  BY <1>1 DEF QuerySucceeds, Entry
<1>5. net # 0
  BY <1>1 DEF DnsInv, ListKnown
<1>6. DnsTypeOK' /\ WaitersShare'
  BY <1>3, <1>4 DEF DnsInv, DnsTypeOK, WaitersShare, QuerySucceeds
<1>7. ToldIsCached'
  <2> SUFFICES ASSUME NEW d \in Callers,
                      lookup'[d].at \in {"done", "woken"}, lookup'[d].got # Refused
               PROVE  cache'[lookup'[d].host].from # 0
    BY DEF ToldIsCached
  <2>1. lookup'[d].host \in Hosts
    BY <1>3 DEF ListKnown
  <2>2. CASE lookup'[d].host = host
    BY <1>4, <1>5, <2>2
  <2>3. CASE lookup'[d].host # host
    BY <1>3, <1>4, <2>1, <2>3 DEF DnsInv, ToldIsCached
  <2>4. QED
    BY <2>2, <2>3
<1>8. QED
  BY <1>3, <1>6, <1>7 DEF DnsInv

LEMMA QueryFailsKeeps ==
  ASSUME DnsInv, NEW c \in Callers, QueryFails(c)
  PROVE  DnsInv'
<1> DEFINE host == lookup[c].host
           got == Fallback(host)
<1>1. /\ lookup \in [Callers -> Lookup] /\ cache \in [Hosts -> Entry]
      /\ host \in Hosts /\ lookup[c].at = "asking"
  BY DEF DnsInv, DnsTypeOK, ListKnown, QueryFails
<1>2. got \in Networks \cup {Refused} /\ (got # Refused => cache[host].from # 0)
  BY <1>1 DEF Fallback, Usable, Entry, Refused
<1>3. lookup' = [lookup EXCEPT ![c] =
                   [@ EXCEPT !.at = "done", !.failed = TRUE, !.got = got]]
  BY <1>1 DEF QueryFails, Lookup
<1> HIDE DEF got
<1>4. /\ lookup' \in [Callers -> Lookup]
      /\ inFlight' \in [Hosts -> Callers \cup {Nobody}]
      /\ lookup'[c].host = host /\ lookup'[c].got = got
      /\ \A d \in Callers \ {c} : lookup'[d] = lookup[d]
      /\ SingleFlight' /\ ListKnown' /\ OwnerAtWork'
  BY <1>1, <1>2, <1>3, QueryOver DEF QueryFails
<1>5. DnsTypeOK' /\ WaitersShare'
  BY <1>4 DEF DnsInv, DnsTypeOK, WaitersShare, QueryFails
<1>6. ToldIsCached'
  BY <1>2, <1>4 DEF DnsInv, ToldIsCached, QueryFails
<1>7. QED
  BY <1>4, <1>5, <1>6 DEF DnsInv

\* Waiters are told what the owner was told, of the same name.
LEMMA CloseChannelKeeps ==
  ASSUME DnsInv, NEW c \in Callers, CloseChannel(c)
  PROVE  DnsInv'
<1> DEFINE l == lookup[c]
           Told(d) == [lookup[d] EXCEPT !.at = "woken", !.got = l.got, !.failed = l.failed]
<1>1. /\ lookup \in [Callers -> Lookup] /\ l \in Lookup /\ l.at = "done"
      /\ Idle \in Lookup /\ Idle.at = "idle"
      /\ UNCHANGED <<servers, cache, inFlight>>
  BY DEF DnsInv, DnsTypeOK, CloseChannel, Idle, Lookup, Refused, Networks
<1>2. /\ lookup' = [d \in Callers |-> lookup'[d]]
      /\ lookup'[c] = Idle
      /\ \A d \in Callers \ {c} :
           lookup'[d] = IF Wakes(c, d) THEN Told(d) ELSE lookup[d]
  <2>1. lookup' = [d \in Callers |->
           IF d = c THEN Idle ELSE IF Wakes(c, d) THEN Told(d) ELSE lookup[d]]
    BY DEF CloseChannel
  <2> HIDE DEF Told
  <2>2. QED
    BY <2>1
<1>3. ASSUME NEW d \in Callers \ {c}, Wakes(c, d)
      PROVE  /\ lookup'[d] \in Lookup
             /\ lookup[d].at = "waiting" /\ lookup[d].owner = c
             /\ lookup'[d].at = "woken" /\ lookup'[d].got = l.got
             /\ lookup'[d].host = lookup[d].host
  <2>1. /\ Told(d) \in Lookup /\ Told(d).at = "woken" /\ Told(d).got = l.got
        /\ Told(d).host = lookup[d].host
    BY <1>1 DEF Lookup
  <2>2. QED
    BY <1>2, <1>3, <2>1 DEF Wakes
<1> HIDE DEF Told
<1>4. ASSUME NEW d \in Callers \ {c}, ~Wakes(c, d)
      PROVE  lookup'[d] = lookup[d]
  BY <1>2, <1>4
<1>5. lookup' \in [Callers -> Lookup]
  <2>1. \A d \in Callers : lookup'[d] \in Lookup
    BY <1>1, <1>2, <1>3, <1>4
  <2>2. QED
    BY <1>2, <2>1
<1>6. DnsTypeOK'
  <2>1. answer' \in Answer
    BY <1>1 DEF CloseChannel, Answer, Lookup
  <2>2. QED
    BY <1>1, <1>5, <2>1 DEF DnsInv, DnsTypeOK
<1>7. SingleFlight'
  <2> SUFFICES ASSUME NEW d \in Callers, NEW h \in Hosts
               PROVE  inFlight[h] = d <=>
                        lookup'[d].at \in {"claimed", "asking"} /\ lookup'[d].host = h
    BY <1>1 DEF SingleFlight
  <2>1. inFlight[h] = d <=>
          lookup[d].at \in {"claimed", "asking"} /\ lookup[d].host = h
    BY DEF DnsInv, SingleFlight
  <2>2. QED
    BY <1>1, <1>2, <1>3, <1>4, <2>1
<1>8. ListKnown'
  BY <1>1, <1>2, <1>3, <1>4 DEF DnsInv, ListKnown
<1>9. OwnerAtWork'
  <2> SUFFICES ASSUME NEW d \in Callers, lookup'[d].at = "waiting"
               PROVE  /\ lookup'[d].owner \in Callers
                      /\ lookup'[lookup'[d].owner].at \in {"claimed", "asking", "done"}
                      /\ lookup'[lookup'[d].owner].host = lookup'[d].host
    BY DEF OwnerAtWork
  <2>1. d # c /\ ~Wakes(c, d) /\ lookup'[d] = lookup[d]
    BY <1>1, <1>2, <1>3, <1>4
  <2>2. lookup[d].owner \in Callers \ {c}
    BY <2>1 DEF DnsInv, OwnerAtWork, Wakes
  <2>3. lookup[lookup[d].owner].at \in {"claimed", "asking", "done"}
    BY <2>1 DEF DnsInv, OwnerAtWork
  <2>4. ~Wakes(c, lookup[d].owner)
    BY <2>3 DEF Wakes
  <2>5. lookup'[lookup[d].owner] = lookup[lookup[d].owner]
    BY <1>4, <2>2, <2>4
  <2>6. QED
    BY <2>1, <2>2, <2>3, <2>5 DEF DnsInv, OwnerAtWork
<1>10. ToldIsCached'
  <2> SUFFICES ASSUME NEW d \in Callers,
                      lookup'[d].at \in {"done", "woken"}, lookup'[d].got # Refused
               PROVE  cache[lookup'[d].host].from # 0
    BY <1>1 DEF ToldIsCached
  <2>1. d # c
    BY <1>1, <1>2
  <2>2. CASE ~Wakes(c, d)
    BY <1>4, <2>1, <2>2 DEF DnsInv, ToldIsCached
  <2>3. CASE Wakes(c, d)
    <3>1. lookup'[d].host = l.host
      BY <1>3, <2>1, <2>3 DEF DnsInv, OwnerAtWork
    <3>2. l.got # Refused
      BY <1>3, <2>1, <2>3
    <3>3. QED
      BY <1>1, <3>1, <3>2 DEF DnsInv, ToldIsCached
  <2>4. QED
    BY <2>2, <2>3
<1>11. WaitersShare'
  BY DEF WaitersShare, CloseChannel
<1>12. QED
  BY <1>6, <1>7, <1>8, <1>9, <1>10, <1>11 DEF DnsInv

----------------------------------------------------------------------------
(* The host and the clock: entries only grow old.                          *)

LEMMA AgingKeeps ==
  ASSUME DnsInv, servers' \in Networks \cup {0}, servers # 0 => servers' # 0,
         cache' \in [Hosts -> Entry],
         \A h \in Hosts : cache'[h].from = cache[h].from,
         UNCHANGED <<inFlight, lookup, answer>>
  PROVE  DnsInv'
<1>1. DnsTypeOK' /\ SingleFlight' /\ OwnerAtWork' /\ WaitersShare'
  BY DEF DnsInv, DnsTypeOK, SingleFlight, OwnerAtWork, WaitersShare
<1>2. ListKnown' /\ ToldIsCached'
  BY DEF DnsInv, ListKnown, ToldIsCached
<1>3. QED
  BY <1>1, <1>2 DEF DnsInv

LEMMA SetServersKeeps ==
  ASSUME DnsInv, SetServers
  PROVE  DnsInv'
<1>1. servers' \in Networks \cup {0} /\ (servers # 0 => servers' # 0)
  BY ResolverAssumption DEF DnsInv, DnsTypeOK, SetServers, Networks
<1>2. /\ cache' \in [Hosts -> Entry]
      /\ \A h \in Hosts : cache'[h].from = cache[h].from
  BY DEF DnsInv, DnsTypeOK, SetServers, Entry
<1>3. QED
  BY <1>1, <1>2, AgingKeeps DEF SetServers

LEMMA ExpireKeeps ==
  ASSUME DnsInv, NEW h \in Hosts, Expire(h)
  PROVE  DnsInv'
<1>1. /\ cache' \in [Hosts -> Entry]
      /\ \A g \in Hosts : cache'[g].from = cache[g].from
  BY DEF DnsInv, DnsTypeOK, Expire, Entry
<1>2. QED
  BY <1>1, AgingKeeps DEF Expire, DnsInv, DnsTypeOK

----------------------------------------------------------------------------
LEMMA InvNext ==
  ASSUME DnsInv, [DnsNext]_dnsVars
  PROVE  DnsInv'
<1>1. ASSUME NEW c \in Callers, NEW h \in Hosts,
             AnswerFromCache(c, h) \/ Join(c, h) \/ Claim(c, h)
      PROVE  DnsInv'
  BY <1>1, AnswerFromCacheKeeps, JoinKeeps, ClaimKeeps
<1>2. ASSUME NEW c \in Callers,
             \/ AskSystem(c) \/ TakeServers(c) \/ QuerySucceeds(c) \/ QueryFails(c)
             \/ CloseChannel(c) \/ ReadAfterWait(c)
      PROVE  DnsInv'
  BY <1>2, AskSystemKeeps, TakeServersKeeps, QuerySucceedsKeeps, QueryFailsKeeps,
     CloseChannelKeeps, ReadAfterWaitKeeps
<1>3. ASSUME NEW h \in Hosts, Expire(h)
      PROVE  DnsInv'
  BY <1>3, ExpireKeeps
<1>4. CASE SetServers
  BY <1>4, SetServersKeeps
<1>5. CASE UNCHANGED dnsVars
  BY <1>5 DEF dnsVars, DnsInv, DnsTypeOK, SingleFlight, ListKnown, OwnerAtWork,
     ToldIsCached, WaitersShare
<1>6. QED
  BY <1>1, <1>2, <1>3, <1>4, <1>5 DEF DnsNext

LEMMA InvHolds == DnsSpec => []DnsInv
<1>1. DnsInit => DnsInv
  BY InvInit
<1>2. DnsInv /\ [DnsNext]_dnsVars => DnsInv'
  BY InvNext
<1>3. QED
  BY <1>1, <1>2, PTL DEF DnsSpec

\* At any time a name has at most one query, the registered one, however many
\* callers ask for it and however often the host replaces the servers.
THEOREM OneQuery == DnsSpec => []SingleFlight
<1>1. DnsInv => SingleFlight
  BY DEF DnsInv
<1>2. QED
  BY <1>1, InvHolds, PTL

\* A caller that waited for a query which brought an address gets one, even
\* when the entry has grown old or was replaced by the time it looks.
THEOREM WaitersGetTheirs == DnsSpec => []WaitersShare
<1>1. DnsInv => WaitersShare
  BY DEF DnsInv
<1>2. QED
  BY <1>1, InvHolds, PTL

----------------------------------------------------------------------------
(* The key ring: one that has settled on a context has settled on one the  *)
(* other side has derived too, whatever was lost, overtaken, derived late  *)
(* or told to a sibling in between.                                        *)

KnownTo(s) == Range(keys[s])

\* What a ring has read of its store is still there: keys are only added.
SnapshotOk(r) == sending[r].n <= Len(keys[r[1]]) /\ receiving[r].n <= Len(keys[r[1]])

\* What is under way to a ring was encrypted under a context of the other side.
WireOk(r) == \A i \in DOMAIN wire[r] : wire[r][i] \in KnownTo(Other(r[1]))

\* So was the packet it is opening, and with it the context it tells its sibling.
PacketOk(r) ==
    /\ receiving[r] # NoPacket => receiving[r].context \in KnownTo(Other(r[1]))
    /\ receiving[r].found # 0 => keys[r[1]][receiving[r].found] \in KnownTo(Other(r[1]))

LockOk(r) == locked[r] => keys[r[1]][send[r]] \in KnownTo(Other(r[1]))

SearchInv ==
    /\ RingTypeOK
    /\ \A r \in Rings : SnapshotOk(r) /\ WireOk(r) /\ PacketOk(r) /\ LockOk(r)

LEMMA SidesOfRings == \A r \in Rings : r[1] \in Sides /\ r[2] \in Pipelines /\ Other(r[1]) \in Sides
                                       /\ <<Other(r[1]), r[2]>> \in Rings /\ Other(Other(r[1])) = r[1]
  BY DEF Rings, Sides, Other

LEMMA RingStarts == RingInit => SearchInv
<1> SUFFICES ASSUME RingInit PROVE SearchInv
  OBVIOUS
<1>1. PICK c \in Setups : /\ runs = c.runs /\ troubles = c.troubles
                          /\ keys = [s \in Sides |-> <<Head(c.contexts[s])>>]
                          /\ pending = [s \in Sides |-> Tail(c.contexts[s])]
  BY DEF RingInit
<1>2. /\ c.contexts \in [Sides -> Seq(Contexts)] /\ \A s \in Sides : c.contexts[s] # <<>>
      /\ c.runs \in [Sides -> SUBSET Pipelines] /\ c.troubles \in Nat
  BY KeyRingAssumption
<1>3. \A s \in Sides : <<Head(c.contexts[s])>> \in Seq(Contexts) /\ Tail(c.contexts[s]) \in Seq(Contexts)
                       /\ Len(<<Head(c.contexts[s])>>) = 1
  BY <1>2
<1>4. keys \in [Sides -> Seq(Contexts)] /\ pending \in [Sides -> Seq(Contexts)]
      /\ \A s \in Sides : Len(keys[s]) = 1
  BY <1>1, <1>3
<1>5. /\ deriving = [s \in Sides |-> [on |-> FALSE, work |-> <<>>]] /\ send = [r \in Rings |-> 1]
      /\ locked = [r \in Rings |-> FALSE] /\ heard = {} /\ search = [r \in Rings |-> "no"]
      /\ sending = [r \in Rings |-> NoSnapshot] /\ receiving = [r \in Rings |-> NoPacket]
      /\ wire = [r \in Rings |-> <<>>] /\ crashed = FALSE
  BY DEF RingInit
<1>6. RingTypeOK
  <2>1. deriving \in [Sides -> [on : BOOLEAN, work : Seq(Contexts)]] /\ \A s \in Sides : deriving[s].work = <<>>
    BY <1>5
  <2>2. sending \in [Rings -> [n : Nat, more : BOOLEAN]] /\ wire \in [Rings -> Seq(Contexts)]
    BY <1>5 DEF NoSnapshot
  <2>3. /\ receiving \in [Rings -> [context : Contexts \cup {"none"}, n : Nat, more : BOOLEAN, found : Nat]]
        /\ \A r \in Rings : receiving[r].found = 0
    BY <1>5 DEF NoPacket
  <2>4. /\ send \in [Rings -> Nat \ {0}] /\ locked \in [Rings -> BOOLEAN] /\ heard \in SUBSET Rings
        /\ search \in [Rings -> {"no", "begun", "due"}] /\ \A r \in Rings : send[r] = 1
    BY <1>5
  <2>5. ASSUME NEW r \in Rings PROVE send[r] <= Len(keys[r[1]]) /\ receiving[r].found <= Len(keys[r[1]])
    <3>1. Len(keys[r[1]]) = 1
      BY <1>4, SidesOfRings
    <3>2. send[r] = 1 /\ receiving[r].found = 0
      BY <2>3, <2>4
    <3>3. QED
      BY <3>1, <3>2
  <2>6. runs \in [Sides -> SUBSET Pipelines] /\ troubles \in Nat /\ crashed \in BOOLEAN
    BY <1>1, <1>2, <1>5
  <2>7. QED
    BY <1>4, <2>1, <2>2, <2>3, <2>4, <2>5, <2>6 DEF RingTypeOK
<1>7. \A r \in Rings : SnapshotOk(r)
  BY <1>4, <1>5, SidesOfRings DEF SnapshotOk, NoSnapshot, NoPacket
<1>8. \A r \in Rings : WireOk(r) /\ PacketOk(r) /\ LockOk(r)
  BY <1>5 DEF WireOk, PacketOk, LockOk, NoPacket
<1>9. QED
  BY <1>6, <1>7, <1>8 DEF SearchInv

\* The types, one by one.
LEMMA RingFacts ==
  ASSUME SearchInv
  PROVE  /\ runs \in [Sides -> SUBSET Pipelines]
         /\ keys \in [Sides -> Seq(Contexts)] /\ pending \in [Sides -> Seq(Contexts)]
         /\ deriving \in [Sides -> [on : BOOLEAN, work : Seq(Contexts)]]
         /\ send \in [Rings -> Nat \ {0}] /\ locked \in [Rings -> BOOLEAN]
         /\ sending \in [Rings -> [n : Nat, more : BOOLEAN]]
         /\ receiving \in [Rings -> [context : Contexts \cup {"none"}, n : Nat, more : BOOLEAN, found : Nat]]
         /\ wire \in [Rings -> Seq(Contexts)] /\ troubles \in Nat /\ crashed \in BOOLEAN
         /\ search \in [Rings -> {"no", "begun", "due"}] /\ heard \in SUBSET Rings
BY DEF SearchInv, RingTypeOK

----------------------------------------------------------------------------
(* The store.                                                              *)

\* The rings rely on keys only; those of a side grow.
LEMMA KeysGrow ==
  ASSUME SearchInv, UNCHANGED <<send, locked, heard, search, sending, receiving, wire, troubles, crashed>>,
         UNCHANGED runs, pending' \in [Sides -> Seq(Contexts)],
         deriving' \in [Sides -> [on : BOOLEAN, work : Seq(Contexts)]],
         \A s \in Sides : deriving'[s].work # <<>> => deriving'[s].on,
         keys' \in [Sides -> Seq(Contexts)],
         \A s \in Sides : /\ Len(keys[s]) <= Len(keys'[s])
                          /\ \A i \in 1..Len(keys[s]) : keys'[s][i] = keys[s][i]
  PROVE  SearchInv'
<1>1. \A s \in Sides : Len(keys[s]) \in Nat /\ Len(keys'[s]) \in Nat
                       /\ DOMAIN keys[s] = 1..Len(keys[s]) /\ DOMAIN keys'[s] = 1..Len(keys'[s])
  BY RingFacts
<1>2. ASSUME NEW s \in Sides PROVE KnownTo(s) \subseteq KnownTo(s)'
  <2>3. /\ Len(keys[s]) <= Len(keys'[s]) /\ \A i \in 1..Len(keys[s]) : keys'[s][i] = keys[s][i]
        /\ Len(keys[s]) \in Nat /\ Len(keys'[s]) \in Nat
        /\ DOMAIN keys[s] = 1..Len(keys[s]) /\ DOMAIN keys'[s] = 1..Len(keys'[s])
    BY <1>1
  <2>1. \A i \in DOMAIN keys[s] : i \in DOMAIN keys'[s] /\ keys'[s][i] = keys[s][i]
    BY <2>3
  <2>2. QED
    BY <2>1 DEF KnownTo, Range
<1>3. ASSUME NEW r \in Rings
      PROVE  /\ SnapshotOk(r)' /\ WireOk(r)' /\ PacketOk(r)' /\ LockOk(r)'
             /\ send'[r] <= Len(keys'[r[1]]) /\ receiving'[r].found <= Len(keys'[r[1]])
  <2>1. r[1] \in Sides /\ Other(r[1]) \in Sides
    BY SidesOfRings
  <2>2. /\ sending[r].n \in Nat /\ receiving[r].n \in Nat /\ receiving[r].found \in Nat /\ send[r] \in Nat \ {0}
    BY RingFacts
  <2>3. send[r] <= Len(keys[r[1]]) /\ receiving[r].found <= Len(keys[r[1]])
        /\ sending[r].n <= Len(keys[r[1]]) /\ receiving[r].n <= Len(keys[r[1]])
    BY DEF SearchInv, RingTypeOK, SnapshotOk
  <2>9. /\ Len(keys[r[1]]) \in Nat /\ Len(keys'[r[1]]) \in Nat /\ Len(keys[r[1]]) <= Len(keys'[r[1]])
        /\ \A i \in 1..Len(keys[r[1]]) : keys'[r[1]][i] = keys[r[1]][i]
    BY <1>1, <2>1
  <2>10. UNCHANGED <<send, sending, receiving>>
    OBVIOUS
  <2>4. SnapshotOk(r)' /\ send'[r] <= Len(keys'[r[1]]) /\ receiving'[r].found <= Len(keys'[r[1]])
    BY SMTT(40), <2>2, <2>3, <2>9, <2>10 DEF SnapshotOk
  <2>5. WireOk(r)'
    BY <1>2, <2>1 DEF SearchInv, WireOk
  <2>6. PacketOk(r)'
    <3>1. receiving[r].found # 0 => keys'[r[1]][receiving[r].found] = keys[r[1]][receiving[r].found]
      <4>1. receiving[r].found # 0 => receiving[r].found \in 1..Len(keys[r[1]])
        BY <2>2, <2>3, <2>9
      <4>2. QED
        BY <2>9, <4>1
    <3>2. QED
      BY <1>2, <2>1, <3>1 DEF SearchInv, PacketOk
  <2>7. LockOk(r)'
    <3>1. keys'[r[1]][send[r]] = keys[r[1]][send[r]]
      <4>1. send[r] \in 1..Len(keys[r[1]])
        BY <2>2, <2>3, <2>9
      <4>2. QED
        BY <2>9, <4>1
    <3>2. QED
      BY <1>2, <2>1, <3>1 DEF SearchInv, LockOk
  <2>8. QED
    BY <2>4, <2>5, <2>6, <2>7
<1>4. RingTypeOK'
  BY <1>3, RingFacts DEF RingTypeOK
<1>5. QED
  BY <1>3, <1>4 DEF SearchInv

LEMMA PrefixStays ==
  ASSUME NEW S, NEW s \in Seq(S), NEW t \in Seq(S)
  PROVE  s \o t \in Seq(S) /\ Len(s) <= Len(s \o t) /\ \A i \in 1..Len(s) : (s \o t)[i] = s[i]
OBVIOUS

LEMMA StoreMoves ==
  ASSUME SearchInv, NEW s \in Sides, TakePending(s) \/ Derived(s) \/ DeriverEnds(s)
  PROVE  SearchInv'
<1>1. \A t \in Sides : deriving[t].work # <<>> => deriving[t].on
  BY DEF SearchInv, RingTypeOK
<1>2. \A t \in Sides : Len(keys[t]) <= Len(keys[t])
  BY RingFacts
<1>3. CASE TakePending(s)
  <2>1. <<Head(pending[s])>> \in Seq(Contexts) /\ Tail(pending[s]) \in Seq(Contexts) /\ deriving[s].on
    BY <1>3, RingFacts DEF TakePending
  <2>2. \A t \in Sides : deriving'[t] = IF t = s THEN [deriving[s] EXCEPT !.work = <<Head(pending[s])>>] ELSE deriving[t]
    BY <1>3, RingFacts DEF TakePending
  <2>3. deriving' \in [Sides -> [on : BOOLEAN, work : Seq(Contexts)]]
    BY <1>3, <2>1, RingFacts DEF TakePending
  <2>4. \A t \in Sides : deriving'[t].work # <<>> => deriving'[t].on
    BY <1>1, <2>1, <2>2, RingFacts
  <2>5. pending' \in [Sides -> Seq(Contexts)]
    BY <1>3, <2>1, RingFacts DEF TakePending
  <2>6. keys' = keys /\ UNCHANGED <<runs, send, locked, heard, search, sending, receiving, wire, troubles, crashed>>
    BY <1>3 DEF TakePending
  <2>7. QED
    BY <1>2, <2>3, <2>4, <2>5, <2>6, RingFacts, KeysGrow
<1>4. CASE Derived(s)
  <2>1. keys[s] \in Seq(Contexts) /\ deriving[s].work \in Seq(Contexts)
    BY RingFacts
  <2>2. /\ keys[s] \o deriving[s].work \in Seq(Contexts)
        /\ Len(keys[s]) <= Len(keys[s] \o deriving[s].work)
        /\ \A i \in 1..Len(keys[s]) : (keys[s] \o deriving[s].work)[i] = keys[s][i]
    BY <2>1, PrefixStays
  <2>3. /\ keys' \in [Sides -> Seq(Contexts)]
        /\ \A t \in Sides : keys'[t] = IF t = s THEN keys[s] \o deriving[s].work ELSE keys[t]
    BY <1>4, <2>2, RingFacts DEF Derived
  <2>4. \A t \in Sides : /\ Len(keys[t]) <= Len(keys'[t])
                         /\ \A i \in 1..Len(keys[t]) : keys'[t][i] = keys[t][i]
    BY <1>2, <2>2, <2>3
  <2>5. \A t \in Sides : deriving'[t] = IF t = s THEN [deriving[s] EXCEPT !.work = <<>>] ELSE deriving[t]
    BY <1>4, RingFacts DEF Derived
  <2>10. [deriving[s] EXCEPT !.work = <<>>] \in [on : BOOLEAN, work : Seq(Contexts)]
    <3>1. deriving[s] \in [on : BOOLEAN, work : Seq(Contexts)] /\ <<>> \in Seq(Contexts)
      BY RingFacts
    <3>2. QED
      BY <3>1
  <2>6. deriving' \in [Sides -> [on : BOOLEAN, work : Seq(Contexts)]]
    <3> DEFINE d == [deriving[s] EXCEPT !.work = <<>>]
    <3>1. deriving' = [deriving EXCEPT ![s] = d]
      BY <1>4 DEF Derived
    <3> HIDE DEF d
    <3>2. d \in [on : BOOLEAN, work : Seq(Contexts)]
      BY <2>10 DEF d
    <3>3. QED
      BY <3>1, <3>2, RingFacts
  <2>7. \A t \in Sides : deriving'[t].work # <<>> => deriving'[t].on
    BY <1>1, <2>5, RingFacts
  <2>8. pending' = pending /\ UNCHANGED <<runs, send, locked, heard, search, sending, receiving, wire, troubles, crashed>>
    BY <1>4 DEF Derived
  <2>9. QED
    BY <2>3, <2>4, <2>6, <2>7, <2>8, RingFacts, KeysGrow
<1>5. CASE DeriverEnds(s)
  <2>1. \A t \in Sides : deriving'[t] = IF t = s THEN [deriving[s] EXCEPT !.on = FALSE] ELSE deriving[t]
    BY <1>5, RingFacts DEF DeriverEnds
  <2>2. deriving' \in [Sides -> [on : BOOLEAN, work : Seq(Contexts)]]
    <3> DEFINE d == [deriving[s] EXCEPT !.on = FALSE]
    <3>1. deriving' = [deriving EXCEPT ![s] = d]
      BY <1>5 DEF DeriverEnds
    <3>2. d \in [on : BOOLEAN, work : Seq(Contexts)]
      <4>1. deriving[s] \in [on : BOOLEAN, work : Seq(Contexts)]
        BY RingFacts
      <4>2. QED
        BY <4>1
    <3> HIDE DEF d
    <3>3. QED
      BY <3>1, <3>2, RingFacts
  <2>3. \A t \in Sides : deriving'[t].work # <<>> => deriving'[t].on
    BY <1>1, <1>5, <2>1, RingFacts DEF DeriverEnds
  <2>4. keys' = keys /\ pending' = pending
        /\ UNCHANGED <<runs, send, locked, heard, search, sending, receiving, wire, troubles, crashed>>
    BY <1>5 DEF DeriverEnds
  <2>5. QED
    BY <1>2, <2>2, <2>3, <2>4, RingFacts, KeysGrow
<1>6. QED
  BY <1>3, <1>4, <1>5

----------------------------------------------------------------------------
(* The rings.                                                              *)

Snapshots == [n : Nat, more : BOOLEAN]
Packets == [context : Contexts \cup {"none"}, n : Nat, more : BOOLEAN, found : Nat]

\* What a ring may take up: contexts it has, and if it settles on one or tells of it, a shared one.
Has(r, index) == index \in 1..Len(keys[r[1]])
IsShared(r, index) == keys[r[1]][index] \in KnownTo(Other(r[1]))
Openable(r, packet) ==
    /\ packet.n <= Len(keys[r[1]]) /\ packet.found <= Len(keys[r[1]])
    /\ packet # NoPacket => packet.context \in KnownTo(Other(r[1]))
    /\ packet.found # 0 => IsShared(r, packet.found)

\* A ring and what it holds, now.
LEMMA RingNow ==
  ASSUME SearchInv, NEW r \in Rings
  PROVE  /\ r[1] \in Sides /\ Other(r[1]) \in Sides
         /\ keys[r[1]] \in Seq(Contexts) /\ Len(keys[r[1]]) \in Nat /\ Len(keys[r[1]]) > 0
         /\ send[r] \in Nat \ {0} /\ Has(r, send[r])
         /\ locked[r] \in BOOLEAN /\ (locked[r] => IsShared(r, send[r]))
         /\ sending[r] \in Snapshots /\ sending[r].n <= Len(keys[r[1]])
         /\ receiving[r] \in Packets /\ Openable(r, receiving[r])
         /\ wire[r] \in Seq(Contexts) /\ WireOk(r)
         /\ send = [send EXCEPT ![r] = send[r]] /\ locked = [locked EXCEPT ![r] = locked[r]]
         /\ sending = [sending EXCEPT ![r] = sending[r]]
         /\ receiving = [receiving EXCEPT ![r] = receiving[r]]
<1>1. r[1] \in Sides /\ Other(r[1]) \in Sides
  BY SidesOfRings
<1>2. keys[r[1]] \in Seq(Contexts) /\ Len(keys[r[1]]) \in Nat
  BY <1>1, RingFacts
<1>3. send[r] \in Nat \ {0} /\ locked[r] \in BOOLEAN /\ wire[r] \in Seq(Contexts)
  BY RingFacts
<1>4. sending[r] \in Snapshots /\ receiving[r] \in Packets
  BY RingFacts DEF Snapshots, Packets
<1>5. send[r] <= Len(keys[r[1]]) /\ receiving[r].found <= Len(keys[r[1]])
  BY DEF SearchInv, RingTypeOK
<1>6. Has(r, send[r]) /\ Len(keys[r[1]]) > 0
  BY <1>2, <1>3, <1>5 DEF Has
<1>7. WireOk(r) /\ sending[r].n <= Len(keys[r[1]]) /\ (locked[r] => IsShared(r, send[r]))
  BY DEF SearchInv, SnapshotOk, LockOk, IsShared
<1>8. Openable(r, receiving[r])
  BY <1>5 DEF SearchInv, SnapshotOk, PacketOk, Openable, IsShared
<1>9. /\ send = [send EXCEPT ![r] = send[r]] /\ locked = [locked EXCEPT ![r] = locked[r]]
      /\ sending = [sending EXCEPT ![r] = sending[r]]
      /\ receiving = [receiving EXCEPT ![r] = receiving[r]]
  BY RingFacts
<1>10. QED
  BY <1>1, <1>2, <1>3, <1>4, <1>6, <1>7, <1>8, <1>9

\* A ring takes up what it may, under a store that keeps its keys.
LEMMA RingMoves ==
  ASSUME SearchInv, UNCHANGED <<runs, keys, pending>>,
         deriving' \in [Sides -> [on : BOOLEAN, work : Seq(Contexts)]],
         \A s \in Sides : deriving'[s].work # <<>> => deriving'[s].on,
         heard' \in SUBSET Rings, search' \in [Rings -> {"no", "begun", "due"}],
         troubles' \in Nat, crashed' \in BOOLEAN,
         NEW r \in Rings,
         NEW index \in Nat \ {0}, send' = [send EXCEPT ![r] = index], Has(r, index),
         NEW lock \in BOOLEAN, locked' = [locked EXCEPT ![r] = lock], lock => IsShared(r, index),
         NEW snap \in Snapshots, sending' = [sending EXCEPT ![r] = snap], snap.n <= Len(keys[r[1]]),
         NEW p \in Rings,
         NEW packet \in Packets, receiving' = [receiving EXCEPT ![p] = packet], Openable(p, packet),
         wire' \in [Rings -> Seq(Contexts)], \A q \in Rings : WireOk(q)'
  PROVE  SearchInv'
<1>1. \A q \in Rings : /\ send'[q] = IF q = r THEN index ELSE send[q]
                       /\ locked'[q] = IF q = r THEN lock ELSE locked[q]
                       /\ sending'[q] = IF q = r THEN snap ELSE sending[q]
                       /\ receiving'[q] = IF q = p THEN packet ELSE receiving[q]
  BY RingFacts
<1>2. ASSUME NEW q \in Rings
      PROVE  /\ SnapshotOk(q)' /\ PacketOk(q)' /\ LockOk(q)'
             /\ send'[q] <= Len(keys'[q[1]]) /\ receiving'[q].found <= Len(keys'[q[1]])
  <2>1. Openable(q, receiving'[q])
    BY <1>1, RingNow
  <2>2. sending'[q].n <= Len(keys[q[1]])
    BY <1>1, RingNow
  <2>3. Has(q, send'[q]) /\ (locked'[q] => IsShared(q, send'[q]))
    BY <1>1, RingNow
  <2>4. send'[q] <= Len(keys[q[1]])
    BY <2>3, RingNow DEF Has
  <2>5. QED
    BY <2>1, <2>2, <2>3, <2>4 DEF Openable, IsShared, SnapshotOk, PacketOk, LockOk, KnownTo
<1>3. /\ send' \in [Rings -> Nat \ {0}] /\ locked' \in [Rings -> BOOLEAN] /\ sending' \in [Rings -> Snapshots]
      /\ receiving' \in [Rings -> Packets]
  BY RingFacts DEF Snapshots, Packets
<1>4. RingTypeOK'
  BY <1>2, <1>3, RingFacts DEF RingTypeOK, Snapshots, Packets
<1>5. QED
  BY <1>2, <1>4 DEF SearchInv

LEMMA DerivingTyped ==
  ASSUME SearchInv, NEW s \in Sides, DeriveMore(s) \/ UNCHANGED deriving
  PROVE  /\ deriving' \in [Sides -> [on : BOOLEAN, work : Seq(Contexts)]]
         /\ \A t \in Sides : deriving'[t].work # <<>> => deriving'[t].on
<1>1. /\ deriving \in [Sides -> [on : BOOLEAN, work : Seq(Contexts)]]
      /\ \A t \in Sides : deriving[t].work # <<>> => deriving[t].on
  BY DEF SearchInv, RingTypeOK
<1>2. CASE UNCHANGED deriving
  BY <1>1, <1>2
<1>3. CASE DeriveMore(s)
  <2> DEFINE on == deriving[s].on \/ pending[s] # <<>>
             d == [deriving[s] EXCEPT !.on = on]
  <2>1. deriving[s] \in [on : BOOLEAN, work : Seq(Contexts)] /\ on \in BOOLEAN /\ (deriving[s].on => on)
    BY <1>1
  <2>2. deriving' = [deriving EXCEPT ![s] = d]
    BY <1>3 DEF DeriveMore
  <2> HIDE DEF on
  <2>3. d \in [on : BOOLEAN, work : Seq(Contexts)] /\ d.work = deriving[s].work /\ (deriving[s].on => d.on)
    BY <2>1
  <2> HIDE DEF d
  <2>4. \A t \in Sides : deriving'[t] = IF t = s THEN d ELSE deriving[t]
    BY <1>1, <2>2
  <2>5. deriving' \in [Sides -> [on : BOOLEAN, work : Seq(Contexts)]]
    BY <1>1, <2>2, <2>3
  <2>6. QED
    BY <1>1, <2>3, <2>4, <2>5
<1>4. QED
  BY <1>2, <1>3

LEMMA WiresStay ==
  ASSUME SearchInv, UNCHANGED <<keys, wire>>
  PROVE  wire' \in [Rings -> Seq(Contexts)] /\ \A q \in Rings : WireOk(q)'
<1>1. wire \in [Rings -> Seq(Contexts)] /\ \A q \in Rings : WireOk(q)
  BY RingFacts DEF SearchInv
<1>2. QED
  BY <1>1 DEF WireOk, KnownTo

\* A wire gets shorter, or its packets change places.
LEMMA WireShrinks ==
  ASSUME SearchInv, UNCHANGED keys, NEW r \in Rings, NEW w \in Seq(Contexts),
         wire' = [wire EXCEPT ![r] = w],
         \A i \in DOMAIN w : \E j \in DOMAIN wire[r] : w[i] = wire[r][j]
  PROVE  wire' \in [Rings -> Seq(Contexts)] /\ \A q \in Rings : WireOk(q)'
<1>1. \A q \in Rings : wire'[q] = IF q = r THEN w ELSE wire[q]
  BY RingFacts
<1>2. wire' \in [Rings -> Seq(Contexts)]
  BY RingFacts
<1>3. ASSUME NEW q \in Rings PROVE WireOk(q)'
  <2>1. WireOk(q)
    BY DEF SearchInv
  <2>2. QED
    BY <1>1, <2>1 DEF WireOk, KnownTo
<1>4. QED
  BY <1>2, <1>3

\* A packet under a context of this side is under way to the other.
LEMMA SendUnderSends ==
  ASSUME SearchInv, UNCHANGED keys, NEW r \in Rings, NEW index \in Nat \ {0}, Has(r, index),
         SendUnder(r, index)
  PROVE  /\ wire' \in [Rings -> Seq(Contexts)] /\ \A q \in Rings : WireOk(q)'
         /\ crashed' \in BOOLEAN /\ NoSnapshot \in Snapshots /\ NoSnapshot.n <= Len(keys[r[1]])
         /\ sending' = [sending EXCEPT ![r] = NoSnapshot] /\ send' = [send EXCEPT ![r] = index]
<1> DEFINE peer == <<Other(r[1]), r[2]>>
           context == keys[r[1]][index]
<1>1. peer \in Rings /\ Other(peer[1]) = r[1]
  BY SidesOfRings
<1>2. context \in Contexts /\ context \in KnownTo(r[1])
  <2>1. keys[r[1]] \in Seq(Contexts) /\ DOMAIN keys[r[1]] = 1..Len(keys[r[1]])
    BY RingNow
  <2>2. QED
    BY <2>1 DEF Has, KnownTo, Range
<1>3. wire' = wire \/ wire' = [wire EXCEPT ![peer] = Append(@, context)]
  BY DEF SendUnder
<1>4. wire' \in [Rings -> Seq(Contexts)] /\ \A q \in Rings : WireOk(q)'
  <2>1. CASE wire' = wire
    BY <2>1, WiresStay
  <2>2. CASE wire' = [wire EXCEPT ![peer] = Append(@, context)]
    <3> HIDE DEF peer, context
    <3> DEFINE w == Append(wire[peer], context)
    <3>1. /\ w \in Seq(Contexts) 
          /\ \A i \in DOMAIN w : w[i] = context \/ (i \in DOMAIN wire[peer] /\ w[i] = wire[peer][i])
      <4>1. wire[peer] \in Seq(Contexts)
        BY <1>1, RingFacts
      <4>2. QED
        BY <1>2, <4>1
    <3>2. wire' = [wire EXCEPT ![peer] = w]
      BY <2>2
    <3> HIDE DEF w
    <3>3. wire' \in [Rings -> Seq(Contexts)] /\ \A q \in Rings : wire'[q] = IF q = peer THEN w ELSE wire[q]
      BY <1>1, <3>1, <3>2, RingFacts
    <3>4. ASSUME NEW q \in Rings PROVE WireOk(q)'
      <4>1. WireOk(q)
        BY DEF SearchInv
      <4>2. CASE q = peer
        BY <1>1, <1>2, <3>1, <3>3, <4>1, <4>2 DEF WireOk, KnownTo
      <4>3. CASE q # peer
        BY <3>3, <4>1, <4>3 DEF WireOk, KnownTo
      <4>4. QED
        BY <4>2, <4>3
    <3>5. QED
      BY <3>3, <3>4
  <2>3. QED
    BY <1>3, <2>1, <2>2
<1>5. crashed' \in BOOLEAN /\ sending' = [sending EXCEPT ![r] = NoSnapshot] /\ send' = [send EXCEPT ![r] = index]
  BY DEF SendUnder
<1>6. NoSnapshot \in Snapshots /\ NoSnapshot.n <= Len(keys[r[1]])
  BY RingNow DEF NoSnapshot, Snapshots
<1>7. QED
  BY <1>4, <1>5, <1>6

LEMMA SearchTyped ==
  ASSUME SearchInv, NEW r \in Rings, NEW to \in {"no", "begun", "due", search[r]},
         search' = [search EXCEPT ![r] = to]
  PROVE  search' \in [Rings -> {"no", "begun", "due"}]
<1>1. search \in [Rings -> {"no", "begun", "due"}]
  BY RingFacts
<1>2. QED
  BY <1>1

\* What the steps of a ring leave alone is as well formed as it was.
LEMMA Unmoved ==
  ASSUME SearchInv
  PROVE  /\ heard \in SUBSET Rings /\ search \in [Rings -> {"no", "begun", "due"}]
         /\ troubles \in Nat /\ crashed \in BOOLEAN /\ locked \in [Rings -> BOOLEAN]
BY RingFacts

LEMMA SendsKeep ==
  ASSUME SearchInv, NEW r \in Rings,
         StartSend(r) \/ SendPlain(r) \/ SendAfterSilence(r) \/ SendUnderNext(r) \/ TimePasses(r)
  PROVE  SearchInv'
<1> USE DEF store
<1>1. CASE StartSend(r)
  <2> DEFINE snap == Snapshot(r[1])
  <2>1. UNCHANGED <<runs, keys, pending, deriving, send, locked, heard, search, receiving, wire, troubles, crashed>>
        /\ sending' = [sending EXCEPT ![r] = snap]
    BY <1>1 DEF StartSend
  <2>2. snap \in Snapshots /\ snap.n <= Len(keys[r[1]])
    BY RingNow DEF Snapshot, Snapshots
  <2> HIDE DEF snap
  <2>3. /\ deriving' \in [Sides -> [on : BOOLEAN, work : Seq(Contexts)]]
        /\ \A t \in Sides : deriving'[t].work # <<>> => deriving'[t].on
    BY <2>1, DerivingTyped, RingNow
  <2>4. wire' \in [Rings -> Seq(Contexts)] /\ \A q \in Rings : WireOk(q)'
    BY <2>1, WiresStay
  <2>5. QED
    BY <2>1, <2>2, <2>3, <2>4, RingNow, Unmoved, RingMoves
<1>2. CASE TimePasses(r)
  <2>1. UNCHANGED <<runs, keys, pending, deriving, send, locked, heard, sending, receiving, wire, troubles, crashed>>
        /\ search' = [search EXCEPT ![r] = "due"]
    BY <1>2 DEF TimePasses
  <2>2. search' \in [Rings -> {"no", "begun", "due"}]
    BY <2>1, SearchTyped
  <2>3. /\ deriving' \in [Sides -> [on : BOOLEAN, work : Seq(Contexts)]]
        /\ \A t \in Sides : deriving'[t].work # <<>> => deriving'[t].on
    BY <2>1, DerivingTyped, RingNow
  <2>4. wire' \in [Rings -> Seq(Contexts)] /\ \A q \in Rings : WireOk(q)'
    BY <2>1, WiresStay
  <2>5. QED
    BY ZenonT(40), <2>1, <2>2, <2>3, <2>4, RingNow, Unmoved, RingMoves
<1>3. CASE SendPlain(r)
  <2>1. UNCHANGED <<runs, keys, pending, deriving, locked, heard, receiving, troubles>> /\ SendUnder(r, send[r])
    BY <1>3 DEF SendPlain
  <2>2. search' \in [Rings -> {"no", "begun", "due"}]
    BY <1>3, SearchTyped DEF SendPlain
  <2>3. /\ deriving' \in [Sides -> [on : BOOLEAN, work : Seq(Contexts)]]
        /\ \A t \in Sides : deriving'[t].work # <<>> => deriving'[t].on
    BY <2>1, DerivingTyped, RingNow
  <2>4. /\ wire' \in [Rings -> Seq(Contexts)] /\ \A q \in Rings : WireOk(q)'
        /\ crashed' \in BOOLEAN /\ NoSnapshot \in Snapshots /\ NoSnapshot.n <= Len(keys[r[1]])
        /\ sending' = [sending EXCEPT ![r] = NoSnapshot] /\ send' = [send EXCEPT ![r] = send[r]]
    BY <2>1, RingNow, SendUnderSends
  <2>5. QED
    BY <2>1, <2>2, <2>3, <2>4, RingNow, Unmoved, RingMoves
<1>4. CASE SendAfterSilence(r)
  <2>1. /\ UNCHANGED <<runs, keys, pending, deriving, heard, receiving>> /\ SendUnder(r, send[r])
        /\ locked' = [locked EXCEPT ![r] = FALSE]
    BY <1>4 DEF SendAfterSilence
  <2>2. search' \in [Rings -> {"no", "begun", "due"}]
    BY <1>4, SearchTyped DEF SendAfterSilence
  <2>3. /\ deriving' \in [Sides -> [on : BOOLEAN, work : Seq(Contexts)]]
        /\ \A t \in Sides : deriving'[t].work # <<>> => deriving'[t].on
    BY <2>1, DerivingTyped, RingNow
  <2>4. /\ wire' \in [Rings -> Seq(Contexts)] /\ \A q \in Rings : WireOk(q)'
        /\ crashed' \in BOOLEAN /\ NoSnapshot \in Snapshots /\ NoSnapshot.n <= Len(keys[r[1]])
        /\ sending' = [sending EXCEPT ![r] = NoSnapshot] /\ send' = [send EXCEPT ![r] = send[r]]
    BY <2>1, RingNow, SendUnderSends
  <2>5. troubles' \in Nat
    <3>1. locked[r] /\ r[1] = "client" /\ (r \in heard => troubles > 0)
      BY <1>4 DEF SendAfterSilence, Silent
    <3>2. troubles' = IF r \in heard THEN troubles - 1 ELSE troubles
      BY <1>4 DEF SendAfterSilence
    <3>3. QED
      BY <3>1, <3>2, Unmoved
  <2>6. QED
    BY <2>1, <2>2, <2>3, <2>4, <2>5, RingNow, Unmoved, RingMoves
<1>5. CASE SendUnderNext(r)
  <2> DEFINE index == IF sending[r].n > 1 THEN (send[r] % sending[r].n) + 1 ELSE send[r]
  <2>1. /\ UNCHANGED <<runs, keys, pending, locked, heard, receiving, troubles>> /\ SendUnder(r, index)
        /\ ~locked[r] /\ search' = [search EXCEPT ![r] = "begun"]
        /\ DeriveMore(r[1]) \/ UNCHANGED deriving
    BY <1>5 DEF SendUnderNext, MaySearch
  <2>2. index \in Nat \ {0} /\ Has(r, index)
    <3>1. /\ send[r] \in Nat \ {0} /\ Has(r, send[r]) /\ sending[r].n \in Nat /\ sending[r].n <= Len(keys[r[1]])
          /\ Len(keys[r[1]]) \in Nat
      BY RingNow DEF Snapshots
    <3>2. sending[r].n > 1 => (send[r] % sending[r].n) \in 0..(sending[r].n - 1)
      BY <3>1
    <3>3. QED
      BY <3>1, <3>2 DEF Has
  <2> HIDE DEF index
  <2>3. search' \in [Rings -> {"no", "begun", "due"}]
    BY <2>1, SearchTyped
  <2>4. /\ deriving' \in [Sides -> [on : BOOLEAN, work : Seq(Contexts)]]
        /\ \A t \in Sides : deriving'[t].work # <<>> => deriving'[t].on
    BY <2>1, DerivingTyped, RingNow
  <2>5. /\ wire' \in [Rings -> Seq(Contexts)] /\ \A q \in Rings : WireOk(q)'
        /\ crashed' \in BOOLEAN /\ NoSnapshot \in Snapshots /\ NoSnapshot.n <= Len(keys[r[1]])
        /\ sending' = [sending EXCEPT ![r] = NoSnapshot] /\ send' = [send EXCEPT ![r] = index]
    BY <2>1, <2>2, SendUnderSends
  <2>6. /\ locked' = [locked EXCEPT ![r] = FALSE] /\ FALSE \in BOOLEAN
    BY <2>1, Unmoved
  <2>7. QED
    BY <2>1, <2>2, <2>3, <2>4, <2>5, <2>6, RingNow, Unmoved, RingMoves
<1>6. QED
  BY <1>1, <1>2, <1>3, <1>4, <1>5

LEMMA WiresKeep ==
  ASSUME SearchInv, NEW r \in Rings, TakePacket(r) \/ Lose(r) \/ Overtake(r)
  PROVE  SearchInv'
<1> USE DEF store
<1>1. wire[r] \in Seq(Contexts) /\ wire[r] # <<>>
  BY RingNow DEF TakePacket, Lose, Overtake
<1>2. /\ Head(wire[r]) \in Contexts /\ Tail(wire[r]) \in Seq(Contexts)
      /\ Head(wire[r]) = wire[r][1] /\ 1 \in DOMAIN wire[r]
      /\ \A i \in DOMAIN Tail(wire[r]) : i + 1 \in DOMAIN wire[r] /\ Tail(wire[r])[i] = wire[r][i+1]
  BY <1>1
<1>3. UNCHANGED <<runs, keys, pending, deriving, send, locked, heard, search, sending, crashed>>
  BY DEF TakePacket, Lose, Overtake
<1>4. /\ deriving' \in [Sides -> [on : BOOLEAN, work : Seq(Contexts)]]
      /\ \A t \in Sides : deriving'[t].work # <<>> => deriving'[t].on
  BY <1>3, DerivingTyped, RingNow
<1>5. troubles' \in Nat
  BY Unmoved DEF TakePacket, Lose, Overtake
<1>6. wire' \in [Rings -> Seq(Contexts)] /\ \A q \in Rings : WireOk(q)'
  <2>1. CASE wire' = [wire EXCEPT ![r] = Tail(@)]
    <3> DEFINE w == Tail(wire[r])
    <3>1. wire' = [wire EXCEPT ![r] = w] /\ w \in Seq(Contexts)
      BY <1>2, <2>1
    <3>2. \A i \in DOMAIN w : \E j \in DOMAIN wire[r] : w[i] = wire[r][j]
      BY <1>2
    <3> HIDE DEF w
    <3>3. QED
      BY <1>3, <3>1, <3>2, WireShrinks
  <2>2. CASE wire' = [wire EXCEPT ![r] = Append(Tail(@), Head(@))]
    <3> DEFINE w == Append(Tail(wire[r]), Head(wire[r]))
    <3>1. wire' = [wire EXCEPT ![r] = w]
      BY <2>2
    <3>2. w \in Seq(Contexts)
      BY <1>2
    <3>3. \A i \in DOMAIN w : w[i] = Head(wire[r]) \/ (i \in DOMAIN Tail(wire[r]) /\ w[i] = Tail(wire[r])[i])
      BY <1>2
    <3> HIDE DEF w
    <3>4. \A i \in DOMAIN w : \E j \in DOMAIN wire[r] : w[i] = wire[r][j]
      BY <1>2, <3>3
    <3>5. QED
      BY <1>3, <3>1, <3>2, <3>4, WireShrinks
  <2>3. QED
    BY <2>1, <2>2 DEF TakePacket, Lose, Overtake
<1>7. \E packet \in Packets : receiving' = [receiving EXCEPT ![r] = packet] /\ Openable(r, packet)
  <2>1. CASE Lose(r) \/ Overtake(r)
    <3>1. receiving' = receiving
      BY <2>1 DEF Lose, Overtake
    <3>2. QED
      BY <3>1, RingNow
  <2>2. CASE TakePacket(r)
    <3> DEFINE packet == [context |-> Head(wire[r]), n |-> Len(keys[r[1]]), more |-> pending[r[1]] # <<>>,
                          found |-> 0]
    <3>1. receiving' = [receiving EXCEPT ![r] = packet]
      BY <2>2 DEF TakePacket
    <3>2. packet \in Packets /\ packet.n <= Len(keys[r[1]]) /\ packet.found = 0 /\ packet.context = Head(wire[r])
      BY <1>2, RingNow DEF Packets
    <3> HIDE DEF packet
    <3>3. Head(wire[r]) \in KnownTo(Other(r[1]))
      BY <1>2, RingNow DEF WireOk
    <3>4. Openable(r, packet)
      BY <3>2, <3>3, RingNow DEF Openable
    <3>5. QED
      BY <3>1, <3>2, <3>4
  <2>3. QED
    BY <2>1, <2>2
<1>8. PICK packet \in Packets : receiving' = [receiving EXCEPT ![r] = packet] /\ Openable(r, packet)
  BY <1>7
<1>9. QED
  BY ZenonT(40), <1>3, <1>4, <1>5, <1>6, <1>8, RingNow, Unmoved, RingMoves

LEMMA NoPacketOpenable == SearchInv => NoPacket \in Packets /\ \A r \in Rings : Openable(r, NoPacket)
<1> SUFFICES ASSUME SearchInv PROVE NoPacket \in Packets /\ \A r \in Rings : Openable(r, NoPacket)
  OBVIOUS
<1>1. NoPacket \in Packets
  BY DEF NoPacket, Packets
<1>2. NoPacket.n = 0 /\ NoPacket.found = 0
  BY DEF NoPacket
<1>3. QED
  BY <1>1, <1>2, RingNow DEF Openable

LEMMA OpeningKeeps ==
  ASSUME SearchInv, NEW r \in Rings, PastTheEnd(r) \/ CannotOpen(r)
  PROVE  SearchInv'
<1> USE DEF store
<1>1. UNCHANGED <<runs, keys, pending, send, locked, heard, search, sending, wire, troubles>>
  BY DEF PastTheEnd, CannotOpen
<1>2. receiving' = [receiving EXCEPT ![r] = NoPacket]
  BY DEF PastTheEnd, CannotOpen
<1>3. crashed' \in {crashed, TRUE}
  BY DEF PastTheEnd, CannotOpen
<1>4. \/ DeriveMore(r[1])
      \/ UNCHANGED deriving
  BY DEF PastTheEnd, CannotOpen
<1>5. /\ deriving' \in [Sides -> [on : BOOLEAN, work : Seq(Contexts)]]
      /\ \A t \in Sides : deriving'[t].work # <<>> => deriving'[t].on
  BY <1>1, <1>4, DerivingTyped, RingNow
<1>6. wire' \in [Rings -> Seq(Contexts)] /\ \A q \in Rings : WireOk(q)'
  BY <1>1, WiresStay
<1>7. crashed' \in BOOLEAN
  BY <1>3, Unmoved
<1>8. QED
  BY ZenonT(40), <1>1, <1>5, <1>6, <1>7, <1>2, NoPacketOpenable, RingNow, Unmoved, RingMoves

\* A ring that follows the peer has a context of the peer's to follow.
LEMMA AdoptingKeeps ==
  ASSUME SearchInv, NEW r \in Rings, NEW i \in Nat \ {0}, Has(r, i), IsShared(r, i), Adopt(r, i),
         UNCHANGED <<store, search, sending, wire, troubles, crashed>>, heard' \in SUBSET Rings,
         NEW p \in Rings, NEW packet \in Packets, receiving' = [receiving EXCEPT ![p] = packet],
         Openable(p, packet)
  PROVE  SearchInv'
<1> USE DEF store
<1>1. /\ deriving' \in [Sides -> [on : BOOLEAN, work : Seq(Contexts)]]
      /\ \A t \in Sides : deriving'[t].work # <<>> => deriving'[t].on
  BY DerivingTyped, RingNow
<1>2. wire' \in [Rings -> Seq(Contexts)] /\ \A q \in Rings : WireOk(q)'
  BY WiresStay
<1> DEFINE lock == locked[r] \/ r[1] = "client" \/ send[r] # i
<1>3. send' = [send EXCEPT ![r] = i] /\ locked' = [locked EXCEPT ![r] = lock] /\ lock \in BOOLEAN
  BY DEF Adopt
<1> HIDE DEF lock
<1>4. QED
  BY ZenonT(40), <1>1, <1>2, <1>3, RingNow, Unmoved, RingMoves

LEMMA OpenKeeps ==
  ASSUME SearchInv, NEW r \in Rings, Open(r)
  PROVE  SearchInv'
<1>1. PICK i \in OpensUnder(r) :
        /\ Adopt(r, i)
        /\ heard' = heard \cup ({r} \cap ({"client"} \X Pipelines))
        /\ receiving' = [receiving EXCEPT ![r] =
               IF Siblings(r) = {} THEN NoPacket ELSE [receiving[r] EXCEPT !.found = i]]
  BY DEF Open
<1>2. i \in 1..receiving[r].n /\ keys[r[1]][i] = receiving[r].context /\ receiving[r] # NoPacket
  BY <1>1 DEF OpensUnder, Open, Opening
<1>3. Has(r, i) /\ i \in Nat \ {0} /\ IsShared(r, i)
  BY <1>2, RingNow DEF Has, IsShared, Openable, Packets
<1>4. \E packet \in Packets : receiving' = [receiving EXCEPT ![r] = packet] /\ Openable(r, packet)
  <2>1. CASE Siblings(r) = {}
    BY <1>1, <2>1, NoPacketOpenable
  <2>2. CASE Siblings(r) # {}
    <3> DEFINE packet == [receiving[r] EXCEPT !.found = i]
    <3>1. packet \in Packets /\ packet.n = receiving[r].n /\ packet.found = i /\ packet.context = receiving[r].context
      BY <1>3, RingNow DEF Packets
    <3>2. receiving' = [receiving EXCEPT ![r] = packet]
      BY <1>1, <2>2
    <3> HIDE DEF packet
    <3>3. Openable(r, packet)
      BY <1>2, <1>3, <3>1, RingNow DEF Openable, Has
    <3>4. QED
      BY <3>1, <3>2, <3>3
  <2>3. QED
    BY <2>1, <2>2
<1>5. heard' \in SUBSET Rings
  BY <1>1, Unmoved
<1>6. UNCHANGED <<store, search, sending, wire, troubles, crashed>>
  BY DEF Open
<1>7. QED
  BY <1>1, <1>3, <1>4, <1>5, <1>6, AdoptingKeeps

\* A sibling is a ring over the same store: what one has, the other has.
LEMMA TellingKeeps ==
  ASSUME SearchInv, NEW r \in Rings, TellSibling(r)
  PROVE  SearchInv'
<1>1. PICK q \in Siblings(r) : Adopt(q, receiving[r].found)
  BY DEF TellSibling
<1>2. q \in Rings /\ q[1] = r[1]
  BY DEF Siblings
<1>3. /\ receiving[r].found \in Nat \ {0} /\ Has(q, receiving[r].found) /\ IsShared(q, receiving[r].found)
  BY <1>2, RingNow DEF TellSibling, Openable, Has, IsShared, Packets
<1>4. UNCHANGED <<store, search, sending, wire, troubles, crashed>> /\ heard' \in SUBSET Rings
      /\ receiving' = [receiving EXCEPT ![r] = NoPacket]
  BY Unmoved DEF TellSibling
<1>5. QED
  BY <1>1, <1>2, <1>3, <1>4, NoPacketOpenable, AdoptingKeeps

LEMMA RingKeeps == SearchInv /\ [RingNext]_ringVars => SearchInv'
<1> SUFFICES ASSUME SearchInv, [RingNext]_ringVars PROVE SearchInv'
  OBVIOUS
<1>1. CASE UNCHANGED ringVars
  BY <1>1 DEF ringVars, store, SearchInv, RingTypeOK, SnapshotOk, WireOk, PacketOk, LockOk, KnownTo
<1>2. CASE RingNext
  BY <1>2, StoreMoves, SendsKeep, WiresKeep, OpeningKeeps, OpenKeeps, TellingKeeps DEF RingNext
<1>3. QED
  BY <1>1, <1>2

LEMMA SearchInvShows == SearchInv => RingTypeOK /\ LockedIsShared
  BY DEF SearchInv, LockOk, LockedIsShared, KnownTo

\* A ring holds on to a context only if the other side has derived it too, for any contexts and
\* any number of troubles: it can be answered under what it sends (keyRing.adopt).
THEOREM SettledIsShared == RingSpec => []LockedIsShared
<1>1. RingSpec => []SearchInv
  BY RingStarts, RingKeeps, PTL DEF RingSpec
<1>2. QED
  BY <1>1, SearchInvShows, PTL
----------------------------------------------------------------------------
(* The parts side by side: a step of one is a stutter of the others.       *)

PartsInv == TypeOK /\ DnsInv /\ SearchInv

LEMMA PartsStep ==
  ASSUME [PartsNext]_partsVars
  PROVE  [Next]_vars /\ [DnsNext]_dnsVars /\ [RingNext]_ringVars
<1>1. CASE UNCHANGED partsVars
  BY <1>1 DEF partsVars
<1>2. CASE PartsNext
  BY <1>2 DEF PartsNext
<1>3. QED
  BY <1>1, <1>2

\* The window, the resolver and the key rings keep their types, whichever part a behaviour is
\* about and however large its constants: no index of a ring leaves its keys, and no number
\* accepted by a window exceeds the newest one.
THEOREM PartsTyped == PartsSpec => []TypesOK
<1>1. PartsInit => PartsInv
  BY TypeInit, InvInit, RingStarts DEF PartsInit, PartsInv
<1>2. PartsInv /\ [PartsNext]_partsVars => PartsInv'
  BY PartsStep, TypeNext, InvNext, RingKeeps DEF PartsInv
<1>3. PartsInv => TypesOK
  BY SearchInvShows DEF PartsInv, DnsInv, TypesOK
<1>4. QED
  BY <1>1, <1>2, <1>3, PTL DEF PartsSpec
==============================================================================
