---------------------------- MODULE DnsResolver ----------------------------
(***************************************************************************)
(* The resolver of the module process (shared/dns/dns_resolver.go): a      *)
(* cache, one query at a time for a name, and lists of servers that the    *)
(* host replaces whenever the network changes.  Networks are numbered in   *)
(* the order the device meets them; 0 stands for "no list from the host".  *)
(***************************************************************************)
EXTENDS Naturals, FiniteSets

CONSTANTS
    Callers,      \* goroutines that look names up
    Hosts,        \* names
    LastNetwork   \* bound on the changes of network

ASSUME ResolverAssumption == LastNetwork \in Nat \ {0} /\ "nobody" \notin Callers

VARIABLES
    servers,      \* the network whose servers are in use (r.servers)
    cache,        \* per name: the network it was resolved in and whether it is fresh
    inFlight,     \* per name: the caller whose query is registered (r.inFlight)
    lookup,       \* what each caller is doing
    answer        \* the last answer given to a caller (a history variable)

dnsVars == <<servers, cache, inFlight, lookup, answer>>

Networks == 1..LastNetwork
Nobody == "nobody"
NoEntry == [from |-> 0, fresh |-> FALSE]
Refused == 0

Entry == [from : Networks \cup {0}, fresh : BOOLEAN]

\* at: idle, claimed (registered, servers not read yet), asking, done (channel not closed
\* yet), waiting (for owner's channel), woken.  since: the list in use when the lookup
\* began.  failed: a query made for this lookup got no answer.  told: what the owner got.
Lookup ==
    [at     : {"idle", "claimed", "asking", "done", "waiting", "woken"},
     host   : Hosts \cup {Nobody},
     owner  : Callers \cup {Nobody},
     asked  : Networks \cup {0},
     since  : Networks \cup {0},
     failed : BOOLEAN,
     got    : Networks \cup {Refused}]

Idle ==
    [at |-> "idle", host |-> Nobody, owner |-> Nobody, asked |-> 0,
     since |-> 0, failed |-> FALSE, got |-> Refused]

\* An answer: the network its address is from, the list in use when the lookup began,
\* whether a query failed for it, and what the owner got whose query it was.
Answer ==
    [from : Networks \cup {Refused}, since : Networks \cup {0},
     failed : BOOLEAN, told : Networks \cup {Refused}]

NoAnswer == [from |-> Refused, since |-> 0, failed |-> TRUE, told |-> Refused]

DnsTypeOK ==
    /\ servers \in Networks \cup {0}
    /\ cache \in [Hosts -> Entry]
    /\ inFlight \in [Hosts -> Callers \cup {Nobody}]
    /\ lookup \in [Callers -> Lookup]
    /\ answer \in Answer

DnsInit ==
    /\ servers \in {0, 1}
    /\ cache = [h \in Hosts |-> NoEntry]
    /\ inFlight = [h \in Hosts |-> Nobody]
    /\ lookup = [c \in Callers |-> Idle]
    /\ answer = NoAnswer

\* cachedLocked: is there an entry, and is it fresh or is an old one good enough?
Usable(h, allowStale) == cache[h].from # 0 /\ (cache[h].fresh \/ allowStale)

Answered(c, from, since, failed, told) ==
    /\ lookup' = [lookup EXCEPT ![c] = Idle]
    /\ answer' = [from |-> from, since |-> since, failed |-> failed, told |-> told]
----------------------------------------------------------------------------
(* LookupHost *)

\* No list from the host: the servers of the system are asked, and nothing is kept.
AskSystem(c) ==
    /\ lookup[c].at = "idle" /\ servers = 0
    /\ Answered(c, Refused, 0, TRUE, Refused)
    /\ UNCHANGED <<servers, cache, inFlight>>

AnswerFromCache(c, h) ==
    /\ lookup[c].at = "idle" /\ servers # 0
    /\ Usable(h, FALSE)
    /\ Answered(c, cache[h].from, servers, FALSE, cache[h].from)
    /\ UNCHANGED <<servers, cache, inFlight>>

\* A lookup that does not end at once.
Begun(at, h, owner) ==
    [at |-> at, host |-> h, owner |-> owner, asked |-> 0,
     since |-> servers, failed |-> FALSE, got |-> Refused]

\* Somebody is resolving this name already: wait for the closing of the channel.
Join(c, h) ==
    /\ lookup[c].at = "idle" /\ servers # 0
    /\ ~Usable(h, FALSE) /\ inFlight[h] # Nobody
    /\ lookup' = [lookup EXCEPT ![c] = Begun("waiting", h, inFlight[h])]
    /\ UNCHANGED <<servers, cache, inFlight, answer>>

\* Mutant: a query goes out without being registered.
NotRegistered(c, h) == inFlight
Registered(c, h) == [inFlight EXCEPT ![h] = c]

Claim(c, h) ==
    /\ lookup[c].at = "idle" /\ servers # 0
    /\ ~Usable(h, FALSE) /\ inFlight[h] = Nobody
    /\ lookup' = [lookup EXCEPT ![c] = Begun("claimed", h, Nobody)]
    /\ inFlight' = Registered(c, h)
    /\ UNCHANGED <<servers, cache, answer>>

\* queryAll reads the list once, under a lock of its own.
TakeServers(c) ==
    /\ lookup[c].at = "claimed"
    /\ lookup' = [lookup EXCEPT ![c].at = "asking", ![c].asked = servers]
    /\ UNCHANGED <<servers, cache, inFlight, answer>>

\* A server of the list answered; the entry is stored as fresh.
QuerySucceeds(c) ==
    LET l == lookup[c] IN
    /\ l.at = "asking"
    /\ cache' = [cache EXCEPT ![l.host] = [from |-> l.asked, fresh |-> TRUE]]
    /\ inFlight' = [inFlight EXCEPT ![l.host] = Nobody]
    /\ lookup' = [lookup EXCEPT ![c].at = "done", ![c].got = l.asked]
    /\ UNCHANGED <<servers, answer>>

\* No server answered: an old entry is better than nothing, and stays as old as it is.
Fallback(h) == IF Usable(h, TRUE) THEN cache[h].from ELSE Refused

QueryFails(c) ==
    LET l == lookup[c] IN
    /\ l.at = "asking"
    /\ inFlight' = [inFlight EXCEPT ![l.host] = Nobody]
    /\ lookup' = [lookup EXCEPT ![c].at = "done", ![c].failed = TRUE,
                                ![c].got = Fallback(l.host)]
    /\ UNCHANGED <<servers, cache, answer>>

\* close(ch) wakes everyone who waits for it; the lock is not held any more.
\* Mutant: the channel is closed only when the query brought something.
WakesOnSuccess(c, d) ==
    lookup[d].at = "waiting" /\ lookup[d].owner = c /\ ~lookup[c].failed
Wakes(c, d) == lookup[d].at = "waiting" /\ lookup[d].owner = c

CloseChannel(c) ==
    LET l == lookup[c] IN
    /\ l.at = "done"
    /\ lookup' = [d \in Callers |->
           IF d = c THEN Idle
           ELSE IF Wakes(c, d)
             THEN [lookup[d] EXCEPT !.at = "woken", !.got = l.got, !.failed = l.failed]
             ELSE lookup[d]]
    /\ answer' = [from |-> l.got, since |-> l.since, failed |-> l.failed, told |-> l.got]
    /\ UNCHANGED <<servers, cache, inFlight>>

\* A waiter takes whatever is in the cache by now, fresh or not.
\* Mutant: a waiter trusts nothing that has grown old.
WaiterFindsFresh(h) == IF Usable(h, FALSE) THEN cache[h].from ELSE Refused
WaiterFinds(h) == IF Usable(h, TRUE) THEN cache[h].from ELSE Refused

ReadAfterWait(c) ==
    LET l == lookup[c] IN
    /\ l.at = "woken"
    /\ Answered(c, WaiterFinds(l.host), l.since, l.failed, l.got)
    /\ UNCHANGED <<servers, cache, inFlight>>

(* The host and the clock *)

SetServers ==
    /\ servers < LastNetwork
    /\ servers' = servers + 1
    /\ cache' = [h \in Hosts |-> [cache[h] EXCEPT !.fresh = FALSE]]
    /\ UNCHANGED <<inFlight, lookup, answer>>

Expire(h) ==
    /\ cache[h].fresh
    /\ cache' = [cache EXCEPT ![h].fresh = FALSE]
    /\ UNCHANGED <<servers, inFlight, lookup, answer>>

DnsNext ==
    \/ \E c \in Callers, h \in Hosts : AnswerFromCache(c, h) \/ Join(c, h) \/ Claim(c, h)
    \/ \E c \in Callers :
         \/ AskSystem(c) \/ TakeServers(c) \/ QuerySucceeds(c) \/ QueryFails(c)
         \/ CloseChannel(c) \/ ReadAfterWait(c)
    \/ \E h \in Hosts : Expire(h)
    \/ SetServers

\* A query ends, with an answer or at its deadline, and a goroutine that can go on does.
Proceeds(c) ==
    TakeServers(c) \/ QuerySucceeds(c) \/ QueryFails(c) \/ CloseChannel(c) \/ ReadAfterWait(c)

DnsFairness == \A c \in Callers : WF_dnsVars(Proceeds(c))

DnsSpec == DnsInit /\ [][DnsNext]_dnsVars /\ DnsFairness
----------------------------------------------------------------------------
\* At most one query for a name is registered or under way, and it is the registered one
\* (inFlight, "single-flight").
SingleFlight ==
    \A c \in Callers, h \in Hosts :
        inFlight[h] = c <=> lookup[c].at \in {"claimed", "asking"} /\ lookup[c].host = h

\* Whoever waited for somebody else's query gets an address when that query brought one,
\* whatever happened to the cache in between (LookupHost: "the outcome of a waiter must
\* be that of the owner").
WaitersShare == answer.told # Refused => answer.from # Refused

\* Every lookup comes back to its caller.
ReturnsTo(c) == lookup[c].at # "idle" ~> lookup[c].at = "idle"
Returns == \A c \in Callers : ReturnsTo(c)

\* A lookup that begins after the change of network gets an address of a former network
\* only when its own query failed (the comment of SetServers: entries of the former
\* network are not trusted, "so the next resolve must go to the network").
NewNetworkIsAsked ==
    answer.from # Refused /\ answer.from < answer.since => answer.failed
=============================================================================
