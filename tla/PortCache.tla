------------------------------ MODULE PortCache ------------------------------
(***************************************************************************)
(* port_cache.rs: the process-wide cache of TCP reachability, and the      *)
(* pre-run port checks of the runs that share it.                          *)
(*                                                                         *)
(* get_state holds the lock twice, around the lookup and around the store, *)
(* and connects between the two with the lock released, so the runs        *)
(* interleave there.  An endpoint is reachable at a moment when a connect  *)
(* made at that moment succeeds; reachability changes at any time.         *)
(***************************************************************************)
EXTENDS Integers, FiniteSets, Sequences

CONSTANTS
    Runs,         \* executor runs; each one repeats its check
    Keys,         \* normalised (host, port) pairs
    EndpointsOf,  \* run |-> the endpoints of its check, in order
    MaxEntries,   \* MAX_CACHE_ENTRIES
    TTL,          \* CACHE_TTL
    Timeout,      \* CONNECT_TIMEOUT
    MaxLag,       \* bound: the wait of a run for the lock
    MaxTime,      \* bound: when the last check may begin
    MaxChanges,   \* bound: the changes of reachability
    None          \* no entry, no closed endpoint

ASSUME CacheAssumption ==
    /\ EndpointsOf \in [Runs -> Seq(Keys)]
    /\ MaxEntries \in Nat \ {0}
    /\ TTL \in Nat \ {0}
    /\ Timeout \in Nat /\ MaxLag \in Nat
    /\ MaxTime \in Nat /\ MaxChanges \in Nat
    /\ None \notin Keys

VARIABLES
    now,        \* the monotonic clock
    reachable,  \* the endpoints a connect would reach now
    changes,    \* how often reachability changed
    held,       \* history: when each endpoint was last open, last closed
    entries,    \* the cached endpoints, each with state and checked_at
    run         \* what each run is doing

vars == <<now, reachable, changes, held, entries, run>>

States == {"open", "closed"}
Entry == [state : States, checked_at : Nat]

\* `since` is when the run came to its stage, `answer` the outcome of a connect.
Run == [stage : {"idle", "lookup", "connect", "store"},
        checks : Seq([key : Keys, state : States]),
        first_closed : Keys \cup {None},
        since : Nat,
        answer : States]

IdleRun == [stage |-> "idle", checks |-> << >>, first_closed |-> None,
            since |-> 0, answer |-> "closed"]

StateOf(k) == IF k \in reachable THEN "open" ELSE "closed"

\* The longest that an answer can lag behind the network.
Window == TTL + Timeout + MaxLag

Init ==
    /\ now = 0
    /\ reachable \in SUBSET Keys
    /\ changes = 0
    /\ held = [k \in Keys |-> [s \in States |-> IF s = StateOf(k) THEN 0 ELSE - Window - 1]]
    /\ entries = [k \in {} |-> [state |-> "closed", checked_at |-> 0]]
    /\ run = [r \in Runs |-> IdleRun]

-----------------------------------------------------------------------------
(* check_for_run: one endpoint after the other.                            *)
Key(r) == EndpointsOf[r][Len(run[r].checks) + 1]

\* Bounds: a run begins one check per tick, and none after MaxTime.
Begin(r) ==
    /\ run[r].stage = "idle"
    /\ now > run[r].since
    /\ now <= MaxTime
    /\ run' = [run EXCEPT ![r] = [IdleRun EXCEPT !.stage = "lookup", !.since = now]]
    /\ UNCHANGED <<now, reachable, changes, held, entries>>

\* A check of all endpoints returns.
Return(r) ==
    /\ run[r].stage = "lookup"
    /\ Len(run[r].checks) = Len(EndpointsOf[r])
    /\ run' = [run EXCEPT ![r] = [IdleRun EXCEPT !.since = now]]
    /\ UNCHANGED <<now, reachable, changes, held, entries>>

\* Fault: the last closed endpoint is kept, not the first.
AnsweredLast(r, state) ==
    [run EXCEPT ![r] = [run[r] EXCEPT
        !.stage = "lookup", !.since = now, !.answer = "closed",
        !.checks = Append(run[r].checks, [key |-> Key(r), state |-> state]),
        !.first_closed = IF state = "closed" THEN Key(r) ELSE run[r].first_closed]]

\* The run that has one more answer: is_open, and the body of the loop over
\* the endpoints.
Answered(r, state) ==
    [run EXCEPT ![r] = [run[r] EXCEPT
        !.stage = "lookup", !.since = now, !.answer = "closed",
        !.checks = Append(run[r].checks, [key |-> Key(r), state |-> state]),
        !.first_closed = IF state = "closed" /\ run[r].first_closed = None
                         THEN Key(r) ELSE run[r].first_closed]]

-----------------------------------------------------------------------------
(* get_state.                                                              *)
\* Fault: the age of an entry is not asked.
FreshAlways(k) == k \in DOMAIN entries

Fresh(k) == k \in DOMAIN entries /\ now - entries[k].checked_at < TTL

AtLookup(r) == run[r].stage = "lookup" /\ Len(run[r].checks) < Len(EndpointsOf[r])

\* The first lock section.
Hit(r) ==
    /\ AtLookup(r) /\ Fresh(Key(r))
    /\ run' = Answered(r, entries[Key(r)].state)
    /\ UNCHANGED <<now, reachable, changes, held, entries>>

Miss(r) ==
    /\ AtLookup(r) /\ ~ Fresh(Key(r))
    /\ run' = [run EXCEPT ![r].stage = "connect", ![r].since = now]
    /\ UNCHANGED <<now, reachable, changes, held, entries>>

\* probe_tcp.
ConnectEnds(r, state) ==
    /\ run' = [run EXCEPT ![r].stage = "store", ![r].since = now, ![r].answer = state]
    /\ UNCHANGED <<now, reachable, changes, held, entries>>

Connected(r) ==
    /\ run[r].stage = "connect" /\ Key(r) \in reachable
    /\ ConnectEnds(r, "open")

Refused(r) ==
    /\ run[r].stage = "connect" /\ Key(r) \notin reachable
    /\ ConnectEnds(r, "closed")

\* Fault: the connect has no timeout.
NeverTimesOut(r) == FALSE /\ ConnectEnds(r, "closed")

\* A connect that gets no answer met an unreachable endpoint while it waited.
TimesOut(r) ==
    /\ run[r].stage = "connect"
    /\ now = run[r].since + Timeout
    /\ held[Key(r)]["closed"] >= run[r].since
    /\ ConnectEnds(r, "closed")

\* The oldest entries; the scan returns one of them.
Oldest == {k \in DOMAIN entries :
              \A j \in DOMAIN entries : entries[k].checked_at <= entries[j].checked_at}

\* Faults: off by one; the newest entry goes.
EvictableLate(k) == IF Cardinality(DOMAIN entries) > MaxEntries THEN Oldest ELSE {None}
EvictableNewest(k) ==
    IF Cardinality(DOMAIN entries) >= MaxEntries /\ k \notin DOMAIN entries
    THEN {j \in DOMAIN entries :
             \A i \in DOMAIN entries : entries[i].checked_at <= entries[j].checked_at}
    ELSE {None}

\* What a store of k may evict: None, or an oldest entry of a full cache.
Evictable(k) ==
    IF Cardinality(DOMAIN entries) >= MaxEntries /\ k \notin DOMAIN entries
    THEN Oldest
    ELSE {None}

\* The second lock section: evict, insert with the time of the insertion.
Store(r) ==
    /\ run[r].stage = "store"
    /\ \E victim \in Evictable(Key(r)) :
          entries' = [k \in (DOMAIN entries \ {victim}) \cup {Key(r)} |->
                         IF k = Key(r)
                         THEN [state |-> run[r].answer, checked_at |-> now]
                         ELSE entries[k]]
    /\ run' = Answered(r, run[r].answer)
    /\ UNCHANGED <<now, reachable, changes, held>>

-----------------------------------------------------------------------------
(* The environment.                                                        *)
\* Every state that an endpoint has at a moment is recorded for that moment.
Change(k) ==
    /\ changes < MaxChanges
    /\ changes' = changes + 1
    /\ reachable' = (reachable \ {k}) \cup ({k} \ reachable)
    /\ held' = [held EXCEPT ![k] = [s \in States |-> now]]
    /\ UNCHANGED <<now, entries, run>>

\* Fault: a connect may take longer than its timeout.
TickUntimed ==
    /\ now <= MaxTime \/ \E r \in Runs : run[r].stage # "idle"
    /\ \A r \in Runs :
          run[r].stage \in {"lookup", "store"} => now < run[r].since + MaxLag
    /\ now' = now + 1
    /\ held' = [k \in Keys |-> [held[k] EXCEPT ![StateOf(k)] = now + 1]]
    /\ UNCHANGED <<reachable, changes, entries, run>>

\* A connect ends by its timeout; a lock section waits for at most MaxLag.
Tick ==
    /\ now <= MaxTime \/ \E r \in Runs : run[r].stage # "idle"
    /\ \A r \in Runs :
          /\ run[r].stage = "connect" => now < run[r].since + Timeout
          /\ run[r].stage \in {"lookup", "store"} => now < run[r].since + MaxLag
    /\ now' = now + 1
    /\ held' = [k \in Keys |-> [held[k] EXCEPT ![StateOf(k)] = now + 1]]
    /\ UNCHANGED <<reachable, changes, entries, run>>

\* Bound: after MaxTime no check begins any more.
Rest == now > MaxTime /\ (\A r \in Runs : run[r].stage = "idle") /\ UNCHANGED vars

-----------------------------------------------------------------------------
\* The steps of a run that has begun; a refusal is up to the network.
Proceed(r) == Hit(r) \/ Miss(r) \/ Connected(r) \/ TimesOut(r) \/ Store(r) \/ Return(r)

Next ==
    \/ \E r \in Runs : Begin(r) \/ Proceed(r) \/ Refused(r)
    \/ \E k \in Keys : Change(k)
    \/ Tick \/ Rest

Spec == Init /\ [][Next]_vars

\* What happens without the network: a connect has an answer when its timer fires.
Due(r) == now = run[r].since + Timeout /\ (Connected(r) \/ TimesOut(r))
Owed(r) == Hit(r) \/ Miss(r) \/ Due(r) \/ Store(r) \/ Return(r)

\* The runtime polls every run that can go on, and the clock advances.
FairSpec == Spec /\ (\A r \in Runs : WF_vars(Owed(r))) /\ WF_vars(Tick)

-----------------------------------------------------------------------------
(* Properties.                                                             *)

\* Every variable keeps its type.
TypeOK ==
    /\ now \in Nat
    /\ reachable \subseteq Keys
    /\ changes \in Nat
    /\ held \in [Keys -> [States -> Int]]
    /\ DOMAIN entries \subseteq Keys
    /\ entries \in [DOMAIN entries -> Entry]
    /\ run \in [Runs -> Run]

\* An entry, and the answer that waits to be stored, is no older than the
\* connect and the waits for the lock on its way into the cache: what FreshAnswers
\* rests on, inductive together with TypeOK.
Timely ==
    /\ \A k \in Keys : held[k][StateOf(k)] = now /\ \A s \in States : held[k][s] <= now
    /\ \A k \in DOMAIN entries :
          /\ entries[k].checked_at <= now
          /\ held[k][entries[k].state] >= entries[k].checked_at - Timeout - MaxLag
    /\ \A r \in Runs :
          /\ run[r].since <= now
          /\ run[r].stage = "lookup" => Len(run[r].checks) <= Len(EndpointsOf[r])
          /\ run[r].stage \in {"connect", "store"} =>
                Len(run[r].checks) < Len(EndpointsOf[r])
          /\ run[r].stage = "connect" => now <= run[r].since + Timeout
          /\ run[r].stage = "store" =>
                /\ now <= run[r].since + MaxLag
                /\ held[Key(r)][run[r].answer] >= run[r].since - Timeout

\* The cache never outgrows its cap, although the runs that store concurrently
\* looked it up before the others stored.
Capacity == Cardinality(DOMAIN entries) <= MaxEntries

\* The answer a run gets, from the cache or from its own connect, was the state
\* of the endpoint within the last TTL, plus what a connect and the wait for the
\* lock take: checked_at is the time of the store, not of the observation.
FreshAnswers ==
    [][\A r \in Runs :
          Len(run'[r].checks) > Len(run[r].checks) =>
              LET c == run'[r].checks[Len(run'[r].checks)] IN
              now - held[c.key][c.state] < Window]_vars

\* An entry disappears only for a new endpoint in a full cache, and no entry
\* that stays was checked before it.
EvictsOldest ==
    [][\A k \in DOMAIN entries \ DOMAIN entries' :
          /\ Cardinality(DOMAIN entries) = MaxEntries
          /\ \A j \in DOMAIN entries' : entries'[j].checked_at >= entries[k].checked_at]_vars

\* The check that a run returns has an answer for each of its endpoints, in
\* order, and the endpoint it reports as closed is the first that it found so.
ChecksComplete ==
    \A r \in Runs :
        LET checks == run[r].checks
            closed == {n \in 1..Len(checks) : checks[n].state = "closed"} IN
        /\ Len(checks) <= Len(EndpointsOf[r])
        /\ \A n \in 1..Len(checks) : checks[n].key = EndpointsOf[r][n]
        /\ IF closed = {}
           THEN run[r].first_closed = None
           ELSE \E n \in closed : /\ \A m \in closed : n <= m
                                  /\ run[r].first_closed = checks[n].key

\* Every check that begins returns, whatever the network and the other runs do.
EveryCheckReturns == \A r \in Runs : run[r].stage # "idle" ~> run[r].stage = "idle"
=============================================================================
