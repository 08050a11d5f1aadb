--------------------------- MODULE PortCacheProofs ---------------------------
(***************************************************************************)
(* What TLAPS proves about PortCache, for any number of runs and           *)
(* endpoints, any cap, any times and any behaviour of the network.         *)
(***************************************************************************)
EXTENDS PortCache, FiniteSetTheorems, TLAPS

-----------------------------------------------------------------------------
(* Types.                                                                  *)

LEMMA StateOfType == ASSUME NEW k PROVE StateOf(k) \in States
  BY DEF StateOf, States

LEMMA WindowType == Window \in Nat
  BY CacheAssumption DEF Window

LEMMA IdleType == IdleRun \in Run
  BY DEF IdleRun, Run, States

\* A run below the end of its endpoints looks at one of the keys.
LEMMA KeyType ==
    ASSUME TypeOK, NEW r \in Runs, Len(run[r].checks) < Len(EndpointsOf[r])
    PROVE  Key(r) \in Keys
  <1>1. run[r].checks \in Seq([key : Keys, state : States]) /\ EndpointsOf[r] \in Seq(Keys)
    BY CacheAssumption DEF TypeOK, Run
  <1> QED
    BY <1>1 DEF Key

LEMMA AnsweredType ==
    ASSUME TypeOK, NEW r \in Runs, Len(run[r].checks) < Len(EndpointsOf[r]), NEW s \in States
    PROVE  Answered(r, s) \in [Runs -> Run]
  <1>1. Key(r) \in Keys
    BY KeyType
  <1>2. run[r] \in Run /\ now \in Nat
    BY DEF TypeOK
  <1>3. Append(run[r].checks, [key |-> Key(r), state |-> s]) \in Seq([key : Keys, state : States])
    BY <1>1, <1>2 DEF Run
  <1>4. [run[r] EXCEPT
            !.stage = "lookup", !.since = now, !.answer = "closed",
            !.checks = Append(run[r].checks, [key |-> Key(r), state |-> s]),
            !.first_closed = IF s = "closed" /\ run[r].first_closed = None
                             THEN Key(r) ELSE run[r].first_closed] \in Run
    BY <1>1, <1>2, <1>3 DEF Run, States
  <1> QED
    BY <1>4 DEF Answered, TypeOK

\* The entries after a store.
LEMMA StoreType ==
    ASSUME TypeOK, Timely, NEW r \in Runs, Store(r)
    PROVE  /\ DOMAIN entries' \subseteq Keys
           /\ entries' \in [DOMAIN entries' -> Entry]
           /\ run' \in [Runs -> Run]
  <1>1. Len(run[r].checks) < Len(EndpointsOf[r])
    BY DEF Timely, Store
  <1>2. Key(r) \in Keys
    BY <1>1, KeyType
  <1>3. run[r].answer \in States /\ now \in Nat
    BY DEF TypeOK, Run
  <1>4. PICK victim \in Evictable(Key(r)) :
          entries' = [k \in (DOMAIN entries \ {victim}) \cup {Key(r)} |->
                         IF k = Key(r)
                         THEN [state |-> run[r].answer, checked_at |-> now]
                         ELSE entries[k]]
    BY DEF Store
  <1>5. [state |-> run[r].answer, checked_at |-> now] \in Entry
    BY <1>3 DEF Entry
  <1>6. \A k \in DOMAIN entries : entries[k] \in Entry
    BY DEF TypeOK
  <1>7. run' \in [Runs -> Run]
    BY <1>1, <1>3, AnsweredType DEF Store
  <1> QED
    BY <1>2, <1>4, <1>5, <1>6, <1>7 DEF TypeOK

LEMMA InitType == Init => TypeOK
  <1> SUFFICES ASSUME Init PROVE TypeOK
    OBVIOUS
  <1>1. held \in [Keys -> [States -> Int]]
    BY WindowType DEF Init
  <1>2. run \in [Runs -> Run]
    BY IdleType DEF Init
  <1> QED
    BY <1>1, <1>2 DEF Init, TypeOK

LEMMA NextType ==
    ASSUME TypeOK, Timely, [Next]_vars
    PROVE  TypeOK'
  <1>1. ASSUME NEW r \in Runs, Begin(r) PROVE TypeOK'
    <2>1. [IdleRun EXCEPT !.stage = "lookup", !.since = now] \in Run
      BY IdleType DEF Run, TypeOK
    <2> QED
      BY <1>1, <2>1 DEF Begin, TypeOK
  <1>2. ASSUME NEW r \in Runs, Return(r) PROVE TypeOK'
    <2>1. [IdleRun EXCEPT !.since = now] \in Run
      BY IdleType DEF Run, TypeOK
    <2> QED
      BY <1>2, <2>1 DEF Return, TypeOK
  <1>3. ASSUME NEW r \in Runs, Hit(r) PROVE TypeOK'
    <2>1. entries[Key(r)].state \in States
      BY <1>3 DEF Hit, Fresh, TypeOK, Entry
    <2>2. run' \in [Runs -> Run]
      BY <1>3, <2>1, AnsweredType DEF Hit, AtLookup
    <2> QED
      BY <1>3, <2>2 DEF Hit, TypeOK
  <1>4. ASSUME NEW r \in Runs, Miss(r) PROVE TypeOK'
    <2> DEFINE next == [run[r] EXCEPT !.stage = "connect", !.since = now]
    <2>1. next \in Run
      BY DEF TypeOK, Run
    <2>2. run' = [run EXCEPT ![r] = next]
      BY <1>4 DEF Miss, TypeOK
    <2> HIDE DEF next
    <2>3. run' \in [Runs -> Run]
      BY <2>1, <2>2 DEF TypeOK
    <2> QED
      BY <1>4, <2>3 DEF Miss, TypeOK
  <1>5. ASSUME NEW r \in Runs, NEW s \in States, ConnectEnds(r, s) PROVE TypeOK'
    <2> DEFINE next == [run[r] EXCEPT !.stage = "store", !.since = now, !.answer = s]
    <2>1. next \in Run
      BY DEF TypeOK, Run
    <2>2. run' = [run EXCEPT ![r] = next]
      BY <1>5 DEF ConnectEnds, TypeOK
    <2> HIDE DEF next
    <2>3. run' \in [Runs -> Run]
      BY <2>1, <2>2 DEF TypeOK
    <2> QED
      BY <1>5, <2>3 DEF ConnectEnds, TypeOK
  <1>6. ASSUME NEW r \in Runs, Connected(r) \/ Refused(r) \/ TimesOut(r) PROVE TypeOK'
    BY <1>5, <1>6 DEF Connected, Refused, TimesOut, States
  <1>7. ASSUME NEW r \in Runs, Store(r) PROVE TypeOK'
    BY <1>7, StoreType DEF Store, TypeOK
  <1>8. ASSUME NEW k \in Keys, Change(k) PROVE TypeOK'
    BY <1>8 DEF Change, TypeOK
  <1>9. CASE Tick
    <2>1. \A k \in Keys : [held[k] EXCEPT ![StateOf(k)] = now + 1] \in [States -> Int]
      BY StateOfType DEF TypeOK
    <2> QED
      BY <1>9, <2>1 DEF Tick, TypeOK
  <1>10. CASE UNCHANGED vars
    BY <1>10 DEF vars, TypeOK
  <1> QED
    BY <1>1, <1>2, <1>3, <1>4, <1>6, <1>7, <1>8, <1>9, <1>10 DEF Next, Proceed, Rest

-----------------------------------------------------------------------------
(* Freshness.                                                              *)

\* The parts of Timely: the history, one entry, one run.
HistoryTimely ==
    \A k \in Keys : held[k][StateOf(k)] = now /\ \A s \in States : held[k][s] <= now
EntryTimely(k) ==
    /\ entries[k].checked_at <= now
    /\ held[k][entries[k].state] >= entries[k].checked_at - Timeout - MaxLag
RunTimely(r) ==
    /\ run[r].since <= now
    /\ run[r].stage = "lookup" => Len(run[r].checks) <= Len(EndpointsOf[r])
    /\ run[r].stage \in {"connect", "store"} => Len(run[r].checks) < Len(EndpointsOf[r])
    /\ run[r].stage = "connect" => now <= run[r].since + Timeout
    /\ run[r].stage = "store" =>
          /\ now <= run[r].since + MaxLag
          /\ held[Key(r)][run[r].answer] >= run[r].since - Timeout

LEMMA TimelyParts ==
    Timely <=> /\ HistoryTimely
               /\ \A k \in DOMAIN entries : EntryTimely(k)
               /\ \A r \in Runs : RunTimely(r)
  BY DEF Timely, HistoryTimely, EntryTimely, RunTimely

LEMMA TimelyNext ==
    ASSUME HistoryTimely',
           \A k \in DOMAIN entries' : EntryTimely(k)',
           \A r \in Runs : RunTimely(r)'
    PROVE  Timely'
  BY DEF Timely, HistoryTimely, EntryTimely, RunTimely

LEMMA InitTimely == Init => Timely
  <1> SUFFICES ASSUME Init PROVE Timely
    OBVIOUS
  <1>1. HistoryTimely
    BY WindowType, StateOfType DEF Init, HistoryTimely
  <1>2. \A k \in DOMAIN entries : EntryTimely(k)
    BY DEF Init
  <1>3. \A r \in Runs : RunTimely(r)
    BY DEF Init, IdleRun, RunTimely
  <1> QED
    BY <1>1, <1>2, <1>3, TimelyParts

\* A step of run r leaves the other runs timely.
LEMMA OthersTimely ==
    ASSUME TypeOK, Timely, NEW r \in Runs, NEW x, run' = [run EXCEPT ![r] = x],
           now' = now, held' = held, NEW q \in Runs \ {r}
    PROVE  RunTimely(q)'
  <1>1. run'[q] = run[q]
    BY DEF TypeOK
  <1>2. RunTimely(q)
    BY TimelyParts
  <1> QED
    BY <1>1, <1>2 DEF RunTimely, Key

\* After an answer, run r looks at its next endpoint.
LEMMA AnsweredTimely ==
    ASSUME TypeOK, NEW r \in Runs, Len(run[r].checks) < Len(EndpointsOf[r]), NEW s \in States,
           run' = Answered(r, s), now' = now
    PROVE  RunTimely(r)'
  <1>1. run[r].checks \in Seq([key : Keys, state : States]) /\ now \in Nat
    BY DEF TypeOK, Run
  <1>2. [key |-> Key(r), state |-> s] \in [key : Keys, state : States]
    BY KeyType
  <1>3. Len(Append(run[r].checks, [key |-> Key(r), state |-> s])) = Len(run[r].checks) + 1
    BY <1>1, <1>2
  <1>4. EndpointsOf[r] \in Seq(Keys)
    BY CacheAssumption
  <1>5. /\ run'[r].stage = "lookup" /\ run'[r].since = now
        /\ run'[r].checks = Append(run[r].checks, [key |-> Key(r), state |-> s])
    BY DEF Answered, TypeOK, Run
  <1> QED
    BY <1>1, <1>3, <1>4, <1>5 DEF RunTimely

LEMMA TimelyInductive ==
    ASSUME TypeOK, Timely, [Next]_vars
    PROVE  Timely'
  <1>0. /\ HistoryTimely
        /\ \A k \in DOMAIN entries : EntryTimely(k)
        /\ \A r \in Runs : RunTimely(r)
    BY TimelyParts
  <1>1. TypeOK'
    BY NextType
  <1>2. ASSUME now' = now, held' = held, reachable' = reachable
        PROVE  HistoryTimely'
    BY <1>0, <1>2 DEF HistoryTimely, StateOf
  <1>3. ASSUME now' = now, held' = held, entries' = entries
        PROVE  \A k \in DOMAIN entries' : EntryTimely(k)'
    BY <1>0, <1>3 DEF EntryTimely
  <1>4. ASSUME NEW r \in Runs, Begin(r) \/ Return(r) PROVE Timely'
    <2>1. /\ run'[r].stage \in {"idle", "lookup"} /\ run'[r].since = now
          /\ run'[r].checks = << >> /\ now' = now /\ now \in Nat
      BY <1>4 DEF Begin, Return, TypeOK, IdleRun
    <2>2. RunTimely(r)'
      BY <2>1, CacheAssumption DEF RunTimely
    <2>3. \A q \in Runs \ {r} : RunTimely(q)'
      BY <1>4, OthersTimely DEF Begin, Return
    <2>4. now' = now /\ held' = held /\ reachable' = reachable /\ entries' = entries
      BY <1>4 DEF Begin, Return
    <2> QED
      BY <1>2, <1>3, <2>2, <2>3, <2>4, TimelyNext
  <1>5. ASSUME NEW r \in Runs, Hit(r) PROVE Timely'
    <2>1. entries[Key(r)].state \in States
      BY <1>5 DEF Hit, Fresh, TypeOK, Entry
    <2>2. now' = now /\ held' = held /\ reachable' = reachable /\ entries' = entries
      BY <1>5 DEF Hit
    <2>3. RunTimely(r)'
      BY <1>5, <2>1, AnsweredTimely DEF Hit, AtLookup
    <2>4. \A q \in Runs \ {r} : RunTimely(q)'
      BY <1>5, OthersTimely DEF Hit, Answered
    <2> QED
      BY <1>2, <1>3, <2>2, <2>3, <2>4, TimelyNext
  <1>6. ASSUME NEW r \in Runs, Miss(r) PROVE Timely'
    <2>1. now' = now /\ held' = held /\ reachable' = reachable /\ entries' = entries
      BY <1>6 DEF Miss
    <2>2. RunTimely(r)'
      BY <1>6, CacheAssumption DEF Miss, AtLookup, RunTimely, TypeOK, Run
    <2>3. \A q \in Runs \ {r} : RunTimely(q)'
      BY <1>6, OthersTimely DEF Miss
    <2> QED
      BY <1>2, <1>3, <2>1, <2>2, <2>3, TimelyNext
  <1>7. ASSUME NEW r \in Runs, Connected(r) \/ Refused(r) \/ TimesOut(r) PROVE Timely'
    <2>1. now' = now /\ held' = held /\ reachable' = reachable /\ entries' = entries
      BY <1>7 DEF Connected, Refused, TimesOut, ConnectEnds
    <2>2. PICK s \in States :
            /\ run[r].stage = "connect"
            /\ s = StateOf(Key(r)) \/ (now = run[r].since + Timeout
                                       /\ held[Key(r)][s] >= run[r].since)
            /\ run' = [run EXCEPT ![r].stage = "store", ![r].since = now, ![r].answer = s]
      BY <1>7 DEF Connected, Refused, TimesOut, ConnectEnds, States, StateOf
    <2>3. Len(run[r].checks) < Len(EndpointsOf[r])
      BY <1>0, <2>2 DEF RunTimely
    <2>4. Key(r) \in Keys
      BY <2>3, KeyType
    <2>5. held[Key(r)][s] >= now - Timeout
      <3>1. now \in Nat /\ run[r].since \in Nat /\ held[Key(r)][s] \in Int /\ Timeout \in Nat
        BY <2>4, CacheAssumption DEF TypeOK, Run
      <3> QED
        BY <1>0, <2>2, <2>4, <3>1 DEF HistoryTimely
    <2>6. /\ run'[r].stage = "store" /\ run'[r].since = now /\ run'[r].answer = s
          /\ run'[r].checks = run[r].checks
      BY <2>2 DEF TypeOK, Run
    <2>7. Key(r)' = Key(r)
      BY <2>6 DEF Key
    <2>8. RunTimely(r)'
      BY <2>1, <2>3, <2>5, <2>6, <2>7, CacheAssumption DEF RunTimely, TypeOK
    <2>9. \A q \in Runs \ {r} : RunTimely(q)'
      BY <2>1, <2>2, OthersTimely
    <2> QED
      BY <1>2, <1>3, <2>1, <2>8, <2>9, TimelyNext
  <1>8. ASSUME NEW r \in Runs, Store(r) PROVE Timely'
    <2>1. now' = now /\ held' = held /\ reachable' = reachable
      BY <1>8 DEF Store
    <2>2. run[r].stage = "store" /\ run' = Answered(r, run[r].answer)
      BY <1>8 DEF Store
    <2>3. Len(run[r].checks) < Len(EndpointsOf[r]) /\ run[r].answer \in States
      BY <1>0, <2>2 DEF RunTimely, TypeOK, Run
    <2>4. Key(r) \in Keys
      BY <2>3, KeyType
    <2>5. PICK victim :
            entries' = [k \in (DOMAIN entries \ {victim}) \cup {Key(r)} |->
                           IF k = Key(r)
                           THEN [state |-> run[r].answer, checked_at |-> now]
                           ELSE entries[k]]
      BY <1>8 DEF Store
    <2>6. ASSUME NEW k, k = Key(r) PROVE EntryTimely(k)'
      <3>1. entries'[k] = [state |-> run[r].answer, checked_at |-> now]
        BY <2>5, <2>6
      <3>2. /\ now \in Nat /\ run[r].since \in Nat /\ Timeout \in Nat /\ MaxLag \in Nat
            /\ held[k][run[r].answer] \in Int
        BY <2>3, <2>4, <2>6, CacheAssumption DEF TypeOK, Run
      <3>3. held[k][run[r].answer] >= now - Timeout - MaxLag
        BY <1>0, <2>2, <2>6, <3>2 DEF RunTimely
      <3> QED
        BY <2>1, <3>1, <3>2, <3>3 DEF EntryTimely
    <2>7. \A k \in DOMAIN entries' \ {Key(r)} : EntryTimely(k)'
      BY <1>0, <2>1, <2>5 DEF EntryTimely
    <2>8. RunTimely(r)'
      BY <2>1, <2>2, <2>3, AnsweredTimely
    <2>9. \A q \in Runs \ {r} : RunTimely(q)'
      BY <2>1, <2>2, OthersTimely DEF Answered
    <2> QED
      BY <1>2, <2>1, <2>6, <2>7, <2>8, <2>9, TimelyNext
  <1>9. ASSUME NEW k \in Keys, Change(k) PROVE Timely'
    <2>1. now' = now /\ entries' = entries /\ run' = run
      BY <1>9 DEF Change
    <2>2. \A j \in Keys, s \in States : held'[j][s] = (IF j = k THEN now ELSE held[j][s])
      BY <1>9 DEF Change, TypeOK
    <2>3. \A j \in Keys, s \in States : held'[j][s] >= held[j][s] /\ held'[j][s] <= now
      BY <1>0, <2>2 DEF HistoryTimely, TypeOK
    <2>4. \A j \in Keys \ {k} : StateOf(j)' = StateOf(j)
      BY <1>9 DEF Change, StateOf
    <2>5. HistoryTimely'
      BY <1>0, <2>1, <2>2, <2>3, <2>4, StateOfType DEF HistoryTimely, States, StateOf
    <2>6. \A j \in DOMAIN entries' : EntryTimely(j)'
      <3> SUFFICES ASSUME NEW j \in DOMAIN entries PROVE EntryTimely(j)'
        BY <2>1
      <3>1. j \in Keys /\ entries[j].state \in States /\ entries[j].checked_at \in Nat
        BY DEF TypeOK, Entry
      <3>2. held'[j][entries[j].state] >= held[j][entries[j].state]
        BY <2>3, <3>1
      <3>3. held[j][entries[j].state] \in Int /\ held'[j][entries[j].state] \in Int
        BY <1>1, <3>1 DEF TypeOK
      <3> QED
        BY <1>0, <2>1, <3>1, <3>2, <3>3, CacheAssumption DEF EntryTimely
    <2>7. \A r \in Runs : RunTimely(r)'
      <3> SUFFICES ASSUME NEW r \in Runs PROVE RunTimely(r)'
        OBVIOUS
      <3>1. RunTimely(r) /\ Key(r)' = Key(r)
        BY <1>0, <2>1 DEF Key
      <3>2. ASSUME run[r].stage = "store"
            PROVE  held'[Key(r)][run[r].answer] >= run[r].since - Timeout
        <4>1. Key(r) \in Keys /\ run[r].answer \in States /\ run[r].since \in Nat
          BY <3>1, <3>2, KeyType DEF RunTimely, TypeOK, Run
        <4>2. /\ held'[Key(r)][run[r].answer] >= held[Key(r)][run[r].answer]
              /\ held[Key(r)][run[r].answer] \in Int /\ held'[Key(r)][run[r].answer] \in Int
          BY <1>1, <2>3, <4>1 DEF TypeOK
        <4>3. held[Key(r)][run[r].answer] >= run[r].since - Timeout
          BY <3>1, <3>2 DEF RunTimely
        <4>4. run[r].since - Timeout \in Int
          BY <4>1, CacheAssumption
        <4> QED
          BY <4>2, <4>3, <4>4
      <3> QED
        BY <2>1, <3>1, <3>2 DEF RunTimely
    <2> QED
      BY <2>5, <2>6, <2>7, TimelyNext
  <1>10. CASE Tick
    <2>1. now' = now + 1 /\ reachable' = reachable /\ entries' = entries /\ run' = run
      BY <1>10 DEF Tick
    <2>2. \A j \in Keys, s \in States :
            held'[j][s] = (IF s = StateOf(j) THEN now + 1 ELSE held[j][s])
      BY <1>10 DEF Tick, TypeOK
    <2>3. \A j \in Keys, s \in States : held'[j][s] >= held[j][s] /\ held'[j][s] <= now + 1
      BY <1>0, <2>2 DEF HistoryTimely, TypeOK
    <2>4. HistoryTimely'
      BY <2>1, <2>2, <2>3, StateOfType DEF HistoryTimely, StateOf
    <2>5. \A j \in DOMAIN entries' : EntryTimely(j)'
      <3> SUFFICES ASSUME NEW j \in DOMAIN entries PROVE EntryTimely(j)'
        BY <2>1
      <3>1. /\ j \in Keys /\ entries[j].state \in States /\ entries[j].checked_at \in Nat
            /\ now \in Nat
        BY DEF TypeOK, Entry
      <3>2. held'[j][entries[j].state] >= held[j][entries[j].state]
        BY <2>3, <3>1
      <3>3. held[j][entries[j].state] \in Int /\ held'[j][entries[j].state] \in Int
        BY <1>1, <3>1 DEF TypeOK
      <3> QED
        BY <1>0, <2>1, <3>1, <3>2, <3>3, CacheAssumption DEF EntryTimely
    <2>6. \A r \in Runs : RunTimely(r)'
      <3> SUFFICES ASSUME NEW r \in Runs PROVE RunTimely(r)'
        OBVIOUS
      <3>1. RunTimely(r) /\ Key(r)' = Key(r) /\ now \in Nat /\ run[r].since \in Nat
        BY <1>0, <2>1 DEF Key, TypeOK, Run
      <3>2. ASSUME run[r].stage = "store"
            PROVE  held'[Key(r)][run[r].answer] >= run[r].since - Timeout
        <4>1. Key(r) \in Keys /\ run[r].answer \in States
          BY <3>1, <3>2, KeyType DEF RunTimely, TypeOK, Run
        <4>2. /\ held'[Key(r)][run[r].answer] >= held[Key(r)][run[r].answer]
              /\ held[Key(r)][run[r].answer] \in Int /\ held'[Key(r)][run[r].answer] \in Int
          BY <1>1, <2>3, <4>1 DEF TypeOK
        <4>3. held[Key(r)][run[r].answer] >= run[r].since - Timeout
          BY <3>1, <3>2 DEF RunTimely
        <4>4. run[r].since - Timeout \in Int
          BY <3>1, CacheAssumption
        <4> QED
          BY <4>2, <4>3, <4>4
      <3>3. /\ run[r].stage = "connect" => now + 1 <= run[r].since + Timeout
            /\ run[r].stage = "store" => now + 1 <= run[r].since + MaxLag
        BY <1>10, <3>1, CacheAssumption DEF Tick
      <3> QED
        BY <2>1, <3>1, <3>2, <3>3 DEF RunTimely
    <2> QED
      BY <2>4, <2>5, <2>6, TimelyNext
  <1>11. CASE UNCHANGED vars
    BY <1>11 DEF vars, Timely, StateOf, Key
  <1> QED
    BY <1>4, <1>5, <1>6, <1>7, <1>8, <1>9, <1>10, <1>11 DEF Next, Proceed, Rest

LEMMA Invariant == Spec => [](TypeOK /\ Timely)
  <1>1. Init => TypeOK /\ Timely
    BY InitType, InitTimely
  <1>2. TypeOK /\ Timely /\ [Next]_vars => (TypeOK /\ Timely)'
    BY NextType, TimelyInductive
  <1> QED
    BY <1>1, <1>2, PTL DEF Spec

\* Entries and waiting answers are never older than their way into the cache.
THEOREM EntriesTimely == Spec => []Timely
  BY Invariant, PTL

\* No answer, cached or new, is older than the time to live plus one connect
\* and one wait for the lock, whatever the runs and the network do.
THEOREM AnswersFresh == Spec => FreshAnswers
  <1> DEFINE Good(r) ==
        Len(run'[r].checks) > Len(run[r].checks) =>
            LET c == run'[r].checks[Len(run'[r].checks)] IN
            now - held[c.key][c.state] < Window
  <1>1. ASSUME TypeOK, Timely, NEW r \in Runs, NEW s \in States,
               Len(run[r].checks) < Len(EndpointsOf[r]),
               run' = Answered(r, s), now - held[Key(r)][s] < Window
        PROVE  \A q \in Runs : Good(q)
    <2>1. run[r].checks \in Seq([key : Keys, state : States])
      BY <1>1 DEF TypeOK, Run
    <2>2. [key |-> Key(r), state |-> s] \in [key : Keys, state : States]
      BY <1>1, KeyType
    <2>3. run'[r].checks = Append(run[r].checks, [key |-> Key(r), state |-> s])
      BY <1>1 DEF Answered, TypeOK, Run
    <2>4. run'[r].checks[Len(run'[r].checks)] = [key |-> Key(r), state |-> s]
      BY <2>1, <2>2, <2>3
    <2>5. Good(r)
      BY <1>1, <2>4
    <2>6. ASSUME NEW q \in Runs \ {r} PROVE Good(q)
      <3>1. run'[q] = run[q] /\ Len(run[q].checks) \in Nat
        BY <1>1, <2>6 DEF Answered, TypeOK, Run
      <3> QED
        BY <3>1
    <2> QED
      BY <2>5, <2>6
  <1>2. ASSUME TypeOK, Timely, NEW r \in Runs, Hit(r) PROVE \A q \in Runs : Good(q)
    <2>1. /\ Key(r) \in DOMAIN entries /\ now - entries[Key(r)].checked_at < TTL
          /\ Len(run[r].checks) < Len(EndpointsOf[r])
          /\ run' = Answered(r, entries[Key(r)].state)
      BY <1>2 DEF Hit, Fresh, AtLookup
    <2>2. /\ entries[Key(r)].state \in States /\ entries[Key(r)].checked_at \in Nat
          /\ Key(r) \in Keys /\ now \in Nat
          /\ held[Key(r)][entries[Key(r)].state] \in Int
      BY <1>2, <2>1 DEF TypeOK, Entry
    <2>3. held[Key(r)][entries[Key(r)].state] >= entries[Key(r)].checked_at - Timeout - MaxLag
      BY <1>2, <2>1 DEF Timely
    <2>4. now - held[Key(r)][entries[Key(r)].state] < Window
      BY <2>1, <2>2, <2>3, CacheAssumption DEF Window
    <2> QED
      BY <1>1, <1>2, <2>1, <2>2, <2>4
  <1>3. ASSUME TypeOK, Timely, NEW r \in Runs, Store(r) PROVE \A q \in Runs : Good(q)
    <2>1. /\ run[r].stage = "store" /\ run' = Answered(r, run[r].answer)
          /\ run[r].answer \in States /\ run[r].since \in Nat /\ now \in Nat
      BY <1>3 DEF Store, TypeOK, Run
    <2>2. /\ Len(run[r].checks) < Len(EndpointsOf[r])
          /\ now <= run[r].since + MaxLag
          /\ held[Key(r)][run[r].answer] >= run[r].since - Timeout
      BY <1>3, <2>1 DEF Timely
    <2>3. held[Key(r)][run[r].answer] \in Int
      BY <1>3, <2>1, <2>2, KeyType DEF TypeOK
    <2>4. now - held[Key(r)][run[r].answer] < Window
      BY <2>1, <2>2, <2>3, CacheAssumption DEF Window
    <2> QED
      BY <1>1, <1>3, <2>1, <2>2, <2>4
  <1>4. ASSUME TypeOK, NEW r \in Runs, NEW x,
               run' = [run EXCEPT ![r] = x], x.checks = run[r].checks \/ x.checks = << >>
        PROVE  \A q \in Runs : Good(q)
    <2>1. ASSUME NEW q \in Runs PROVE run'[q].checks = run[q].checks \/ run'[q].checks = << >>
      BY <1>4, <2>1 DEF TypeOK
    <2>2. \A q \in Runs : Len(run[q].checks) \in Nat
      BY <1>4 DEF TypeOK, Run
    <2> QED
      BY <2>1, <2>2
  <1>5. ASSUME TypeOK, NEW r \in Runs,
               Begin(r) \/ Return(r) \/ Miss(r) \/ Connected(r) \/ Refused(r) \/ TimesOut(r)
        PROVE  \A q \in Runs : Good(q)
    <2>1. run[r] \in Run /\ IdleRun \in Run
      BY <1>5, IdleType DEF TypeOK
    <2>2. CASE Begin(r) \/ Return(r)
      BY <1>4, <1>5, <2>1, <2>2 DEF Begin, Return, IdleRun
    <2>3. CASE Miss(r)
      <3>1. run' = [run EXCEPT ![r] = [run[r] EXCEPT !.stage = "connect", !.since = now]]
        BY <1>5, <2>3 DEF Miss, TypeOK
      <3>2. [run[r] EXCEPT !.stage = "connect", !.since = now].checks = run[r].checks
        BY <2>1 DEF Run
      <3> QED
        BY <1>4, <1>5, <3>1, <3>2
    <2>4. ASSUME NEW s, ConnectEnds(r, s) PROVE \A q \in Runs : Good(q)
      <3>1. run' = [run EXCEPT ![r] =
                       [run[r] EXCEPT !.stage = "store", !.since = now, !.answer = s]]
        BY <1>5, <2>4 DEF ConnectEnds, TypeOK
      <3>2. [run[r] EXCEPT !.stage = "store", !.since = now, !.answer = s].checks = run[r].checks
        BY <2>1 DEF Run
      <3> QED
        BY <1>4, <1>5, <3>1, <3>2
    <2> QED
      BY <1>5, <2>2, <2>3, <2>4 DEF Connected, Refused, TimesOut
  <1>6. ASSUME TypeOK, run' = run PROVE \A q \in Runs : Good(q)
    BY <1>6 DEF TypeOK, Run
  <1>7. TypeOK /\ Timely /\ [Next]_vars => [\A r \in Runs : Good(r)]_vars
    BY <1>2, <1>3, <1>5, <1>6 DEF Next, Proceed, Change, Tick, Rest, vars
  <1> QED
    BY <1>7, Invariant, PTL DEF Spec, FreshAnswers

-----------------------------------------------------------------------------
(* Capacity.                                                               *)

\* The cache is a finite map within its cap.
Bounded == IsFiniteSet(DOMAIN entries) /\ Capacity

LEMMA StoreBounded ==
    ASSUME Bounded, NEW r \in Runs, Store(r)
    PROVE  Bounded'
  <1> DEFINE D == DOMAIN entries
             k == Key(r)
  <1>1. PICK victim \in Evictable(k) : DOMAIN entries' = (D \ {victim}) \cup {k}
    BY DEF Store
  <1>2. IsFiniteSet(D) /\ Cardinality(D) \in Nat /\ Cardinality(D) <= MaxEntries
    BY FS_CardinalityType DEF Bounded, Capacity
  <1>3. /\ IsFiniteSet(D \ {victim})
        /\ Cardinality(D \ {victim}) = IF victim \in D THEN Cardinality(D) - 1 ELSE Cardinality(D)
    BY <1>2, FS_RemoveElement
  <1>4. /\ IsFiniteSet((D \ {victim}) \cup {k})
        /\ Cardinality((D \ {victim}) \cup {k}) =
              IF k \in D \ {victim} THEN Cardinality(D \ {victim})
              ELSE Cardinality(D \ {victim}) + 1
    BY <1>3, FS_AddElement
  <1>5. Cardinality((D \ {victim}) \cup {k}) <= MaxEntries
    <2>1. CASE Cardinality(D) >= MaxEntries /\ k \notin D
      <3>1. victim \in D
        BY <1>1, <2>1 DEF Evictable, Oldest
      <3> QED
        BY <1>2, <1>3, <1>4, <2>1, <3>1, CacheAssumption
    <2>2. CASE k \in D
      BY <1>2, <1>3, <1>4, <2>2, CacheAssumption
    <2>3. CASE ~ (Cardinality(D) >= MaxEntries) /\ k \notin D
      BY <1>2, <1>3, <1>4, <2>3, CacheAssumption
    <2> QED
      BY <2>1, <2>2, <2>3
  <1> QED
    BY <1>1, <1>4, <1>5 DEF Bounded, Capacity

LEMMA BoundedInvariant == Spec => []Bounded
  <1>1. Init => Bounded
    <2> SUFFICES ASSUME Init PROVE Bounded
      OBVIOUS
    <2>1. DOMAIN entries = {}
      BY DEF Init
    <2> QED
      BY <2>1, FS_EmptySet, CacheAssumption DEF Bounded, Capacity
  <1>2. ASSUME Bounded, [Next]_vars PROVE Bounded'
    <2>1. ASSUME NEW r \in Runs, Store(r) PROVE Bounded'
      BY <1>2, <2>1, StoreBounded
    <2>2. CASE entries' = entries
      BY <1>2, <2>2 DEF Bounded, Capacity
    <2> QED
      BY <1>2, <2>1, <2>2
      DEF Next, Proceed, Begin, Return, Hit, Miss, Connected, Refused, TimesOut, ConnectEnds,
          Change, Tick, Rest, vars
  <1> QED
    BY <1>1, <1>2, PTL DEF Spec

\* The cache never outgrows its cap, however many runs store at once.
THEOREM CapacityHolds == Spec => []Capacity
  <1>1. Bounded => Capacity
    BY DEF Bounded
  <1> QED
    BY <1>1, BoundedInvariant, PTL

\* Only a full cache loses an entry, and no older one stays behind.
THEOREM OldestEvicted == Spec => EvictsOldest
  <1> DEFINE Old(k) ==
        /\ Cardinality(DOMAIN entries) = MaxEntries
        /\ \A j \in DOMAIN entries' : entries'[j].checked_at >= entries[k].checked_at
  <1>1. ASSUME TypeOK, Timely, Bounded, NEW r \in Runs, Store(r),
               NEW k \in DOMAIN entries \ DOMAIN entries'
        PROVE  Old(k)
    <2>1. PICK victim \in Evictable(Key(r)) :
            entries' = [i \in (DOMAIN entries \ {victim}) \cup {Key(r)} |->
                           IF i = Key(r)
                           THEN [state |-> run[r].answer, checked_at |-> now]
                           ELSE entries[i]]
      BY <1>1 DEF Store
    <2>2. k = victim /\ k # Key(r)
      BY <2>1
    <2>3. k # None
      BY <1>1, CacheAssumption DEF TypeOK
    <2>4. Cardinality(DOMAIN entries) >= MaxEntries /\ k \in Oldest
      BY <2>1, <2>2, <2>3 DEF Evictable
    <2>5. Cardinality(DOMAIN entries) = MaxEntries
      <3>1. Cardinality(DOMAIN entries) \in Nat /\ Cardinality(DOMAIN entries) <= MaxEntries
        BY <1>1, FS_CardinalityType DEF Bounded, Capacity
      <3> QED
        BY <2>4, <3>1, CacheAssumption
    <2>6. ASSUME NEW j \in DOMAIN entries'
          PROVE  entries'[j].checked_at >= entries[k].checked_at
      <3>1. CASE j = Key(r)
        BY <1>1, <2>1, <2>6, <3>1 DEF Timely, TypeOK, Entry
      <3>2. CASE j # Key(r)
        BY <1>1, <2>1, <2>4, <2>6, <3>2 DEF Oldest, TypeOK, Entry
      <3> QED
        BY <3>1, <3>2
    <2> QED
      BY <2>5, <2>6
  <1>2. TypeOK /\ Timely /\ Bounded /\ [Next]_vars =>
          [\A k \in DOMAIN entries \ DOMAIN entries' : Old(k)]_vars
    <2>1. ASSUME TypeOK, Timely, Bounded, [Next]_vars, NEW k \in DOMAIN entries \ DOMAIN entries'
          PROVE  Old(k)
      <3>1. PICK r \in Runs : Store(r)
        BY <2>1 DEF Next, Proceed, Begin, Return, Hit, Miss, Connected, Refused, TimesOut,
                    ConnectEnds, Change, Tick, Rest, vars
      <3> QED
        BY <1>1, <2>1, <3>1
    <2> QED
      BY <2>1
  <1> QED
    BY <1>2, Invariant, BoundedInvariant, PTL DEF Spec, EvictsOldest
-----------------------------------------------------------------------------
(* ChecksComplete is inductive once a run below the end of its endpoints   *)
(* is known to stay there, which is part of Timely.                        *)

\* ChecksComplete, for one run.
Complete(r, checks, first) ==
    LET closed == {n \in 1..Len(checks) : checks[n].state = "closed"} IN
    /\ Len(checks) <= Len(EndpointsOf[r])
    /\ \A n \in 1..Len(checks) : checks[n].key = EndpointsOf[r][n]
    /\ IF closed = {}
       THEN first = None
       ELSE \E n \in closed : (\A m \in closed : n <= m) /\ first = checks[n].key

LEMMA CompleteParts ==
    ChecksComplete <=> \A r \in Runs : Complete(r, run[r].checks, run[r].first_closed)
  BY DEF ChecksComplete, Complete

LEMMA CompletePrimed ==
    ChecksComplete' <=> \A r \in Runs : Complete(r, run'[r].checks, run'[r].first_closed)
  BY DEF ChecksComplete, Complete

LEMMA NoneComplete == ASSUME NEW r \in Runs PROVE Complete(r, << >>, None)
  BY CacheAssumption DEF Complete

LEMMA OneMoreComplete ==
    ASSUME NEW r \in Runs, NEW checks \in Seq([key : Keys, state : States]), NEW first,
           Complete(r, checks, first), Len(checks) < Len(EndpointsOf[r]), NEW s \in States
    PROVE  Complete(r,
                    Append(checks, [key |-> EndpointsOf[r][Len(checks) + 1], state |-> s]),
                    IF s = "closed" /\ first = None
                    THEN EndpointsOf[r][Len(checks) + 1] ELSE first)
  <1> DEFINE new == [key |-> EndpointsOf[r][Len(checks) + 1], state |-> s]
             longer == Append(checks, new)
             before == {n \in 1..Len(checks) : checks[n].state = "closed"}
             after == {n \in 1..Len(longer) : longer[n].state = "closed"}
  <1>1. EndpointsOf[r] \in Seq(Keys) /\ Len(checks) \in Nat /\ None \notin Keys
    BY CacheAssumption
  <1>2. new.key \in Keys
    BY <1>1
  <1>3. /\ Len(longer) = Len(checks) + 1
        /\ longer[Len(checks) + 1] = new
        /\ \A n \in 1..Len(checks) : longer[n] = checks[n]
    BY <1>1, <1>2
  <1>4. \A n \in 1..Len(longer) : longer[n].key = EndpointsOf[r][n]
    BY <1>1, <1>3 DEF Complete
  <1>5. after = IF s = "closed" THEN before \cup {Len(checks) + 1} ELSE before
    <2>1. new.state = s /\ 1..Len(longer) = (1..Len(checks)) \cup {Len(checks) + 1}
      BY <1>1, <1>3
    <2>2. longer[Len(checks) + 1].state = s
      BY <1>3, <2>1
    <2> HIDE DEF longer, new
    <2>3. ASSUME NEW n \in 1..Len(checks) PROVE n \in after <=> n \in before
      BY <1>3, <2>1
    <2>4. Len(checks) + 1 \in after <=> s = "closed"
      BY <2>1, <2>2
    <2> QED BY <1>1, <2>1, <2>3, <2>4
  <1>6. \A n \in before : checks[n].key \in Keys /\ longer[n] = checks[n] /\ n \in Nat
    <2> HIDE DEF longer, new
    <2> SUFFICES ASSUME NEW n \in 1..Len(checks)
                 PROVE  checks[n].key \in Keys /\ longer[n] = checks[n] /\ n \in Nat
      OBVIOUS
    <2>1. checks[n] \in [key : Keys, state : States]
      <3> HIDE DEF before, after
      <3>1. \A S : \A t \in Seq(S) : \A i \in 1..Len(t) : t[i] \in S
        OBVIOUS
      <3> QED BY <3>1
    <2> QED BY <1>1, <1>3, <2>1
  <1>0. \A n \in 1..Len(longer) : n \in Int
    OBVIOUS
  <1> DEFINE kept == IF s = "closed" /\ first = None THEN new.key ELSE first
  <1> SUFFICES Complete(r, longer, kept)
    OBVIOUS
  <1> HIDE DEF longer, new, before, after
  <1>7. CASE before = {} /\ s # "closed"
    <2>1. first = None /\ after = {}
      BY <1>5, <1>7 DEF Complete, before
    <2> QED BY <1>1, <1>3, <1>4, <1>7, <2>1 DEF Complete, after
  <1>8. CASE before = {} /\ s = "closed"
    <2>1. first = None /\ after = {Len(checks) + 1}
      BY <1>5, <1>8 DEF Complete, before
    <2>2. kept = longer[Len(checks) + 1].key
      BY <1>3, <1>8, <2>1
    <2>3. \E n \in after : (\A m \in after : n <= m) /\ kept = longer[n].key
      BY <1>1, <2>1, <2>2
    <2> QED BY <1>1, <1>3, <1>4, <2>1, <2>3 DEF Complete, after
  <1>9. CASE before # {}
    <2>1. PICK n \in before : (\A m \in before : n <= m) /\ first = checks[n].key
      BY <1>9 DEF Complete, before
    <2>2. first # None /\ first = longer[n].key /\ n \in after
      BY <1>1, <1>5, <1>6, <2>1
    <2>3. \A m \in after : n <= m
      BY <1>1, <1>5, <2>1 DEF before
    <2>4. \E k \in after : (\A m \in after : k <= m) /\ kept = longer[k].key
      BY <2>2, <2>3
    <2>5. after # {}
      BY <2>2
    <2>6. Len(longer) <= Len(EndpointsOf[r])
      BY <1>1, <1>3
    <2> HIDE DEF kept
    <2> QED BY <1>4, <2>4, <2>5, <2>6 DEF Complete, after
  <1> QED BY <1>7, <1>8, <1>9

\* What an answer leaves of the checks of run r.
LEMMA AnsweredComplete ==
    ASSUME TypeOK, ChecksComplete, NEW r \in Runs, NEW s \in States,
           Len(run[r].checks) < Len(EndpointsOf[r]), run' = Answered(r, s)
    PROVE  ChecksComplete'
  <1>1. \A q \in Runs : Complete(q, run[q].checks, run[q].first_closed)
    BY CompleteParts
  <1>2. run[r].checks \in Seq([key : Keys, state : States])
    BY DEF TypeOK, Run
  <1>3. /\ run'[r].checks = Append(run[r].checks,
                [key |-> EndpointsOf[r][Len(run[r].checks) + 1], state |-> s])
        /\ run'[r].first_closed = IF s = "closed" /\ run[r].first_closed = None
                                  THEN EndpointsOf[r][Len(run[r].checks) + 1]
                                  ELSE run[r].first_closed
    BY DEF Answered, Key, TypeOK, Run
  <1>4. Complete(r, run'[r].checks, run'[r].first_closed)
    BY <1>1, <1>2, <1>3, OneMoreComplete
  <1>5. \A q \in Runs \ {r} : run'[q] = run[q]
    BY DEF Answered, TypeOK
  <1> QED BY <1>1, <1>4, <1>5, CompletePrimed

\* A step that leaves the checks of every run, or forgets those of one.
LEMMA SameChecks ==
    ASSUME ChecksComplete, NEW r,
           \A q \in Runs \ {r} : run'[q] = run[q],
           \/ run'[r].checks = run[r].checks /\ run'[r].first_closed = run[r].first_closed
           \/ run'[r].checks = << >> /\ run'[r].first_closed = None
    PROVE  ChecksComplete'
  BY CompleteParts, CompletePrimed, NoneComplete

LEMMA CompleteInductive ==
    ASSUME TypeOK, Timely, ChecksComplete, [Next]_vars
    PROVE  ChecksComplete'
  <1>1. ASSUME NEW r \in Runs, Begin(r) \/ Return(r) PROVE ChecksComplete'
    <2>1. run'[r].checks = << >> /\ run'[r].first_closed = None
      BY <1>1 DEF Begin, Return, IdleRun, TypeOK
    <2>2. \A q \in Runs \ {r} : run'[q] = run[q]
      BY <1>1 DEF Begin, Return, TypeOK
    <2> QED BY <2>1, <2>2, SameChecks
  <1>2. ASSUME NEW r \in Runs, Hit(r) PROVE ChecksComplete'
    <2>1. entries[Key(r)].state \in States
      BY <1>2 DEF Hit, Fresh, TypeOK, Entry
    <2> QED BY <1>2, <2>1, AnsweredComplete DEF Hit, AtLookup
  <1>3. ASSUME NEW r \in Runs, Store(r) PROVE ChecksComplete'
    <2>1. run[r].answer \in States
      BY DEF TypeOK, Run
    <2>2. Len(run[r].checks) < Len(EndpointsOf[r])
      BY <1>3 DEF Timely, Store
    <2> QED BY <1>3, <2>1, <2>2, AnsweredComplete DEF Store
  <1>4. ASSUME NEW r \in Runs, Miss(r) PROVE ChecksComplete'
    BY <1>4, SameChecks DEF Miss, TypeOK, Run
  <1>5. ASSUME NEW r \in Runs, Connected(r) \/ Refused(r) \/ TimesOut(r)
        PROVE  ChecksComplete'
    <2>1. PICK s : ConnectEnds(r, s)
      BY <1>5 DEF Connected, Refused, TimesOut
    <2>2. run'[r].checks = run[r].checks /\ run'[r].first_closed = run[r].first_closed
      BY <2>1 DEF ConnectEnds, TypeOK, Run
    <2>3. \A q \in Runs \ {r} : run'[q] = run[q]
      BY <2>1 DEF ConnectEnds, TypeOK
    <2> QED BY <2>2, <2>3, SameChecks
  <1>6. ASSUME run' = run PROVE ChecksComplete'
    BY <1>6, CompleteParts, CompletePrimed
  <1> QED
    BY <1>1, <1>2, <1>3, <1>4, <1>5, <1>6 DEF Next, Proceed, Change, Tick, Rest, vars

\* The checks of a run are its endpoints in order, and its skip reason is the
\* first closed one among them, however the locks and connects of other runs
\* come in between.
THEOREM SkipsAreExplained == Spec => []ChecksComplete
  <1>1. Init => ChecksComplete
    BY CompleteParts, NoneComplete DEF Init, IdleRun
  <1>2. TypeOK /\ Timely /\ ChecksComplete /\ [Next]_vars => ChecksComplete'
    BY CompleteInductive
  <1> QED
    BY <1>1, <1>2, Invariant, PTL DEF Spec
=============================================================================
