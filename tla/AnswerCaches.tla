----------------------------- MODULE AnswerCaches -----------------------------
(***************************************************************************)
(* The caches of the data service (src/getAssets.py, src/getData.py) under *)
(* the threads of its one worker process.  The wrapper of ttl_cache works  *)
(* on a dictionary without a lock, and the time of a result is the begin   *)
(* of its call.  A function that fails returns a value like any other,     *)
(* which is cached too.                                                    *)
(***************************************************************************)
EXTENDS Integers, Sequences, FiniteSets

CONSTANTS
    Threads,    \* the threads that compute answers
    Funds,      \* the ETFs that can be asked for
    Functions,  \* name |-> record of CachedFunctions
    Scenarios,  \* what is looked at together: functions that are asked for, threads that
                \* ask, ETFs, and the last tick
    Room,       \* bound: the most that a maxsize counts as
    HoursPerTick,
    LongTtl,    \* bound: the ticks that a time to live counts as at most
    MaxOutages, \* bound: reads that fail
    MaxRaces,   \* bound: exceptions of the dictionaries
    MaxRestarts \* bound: restarts of the worker

\* What a function does in a step, and who calls it.
Steps == [does : {"read"}] \union [does : {"call"}, function : DOMAIN Functions, caught : BOOLEAN]
Callers(f) == {g \in DOMAIN Functions : \E i \in DOMAIN Functions[g].body :
                   Functions[g].body[i].does = "call" /\ Functions[g].body[i].function = f}

Expires(f) == Functions[f].hours > 0

\* The calls of the functions are nested and go nowhere twice; what expires is not kept
\* by a function that does not; a tick is no longer than a time to live.
ASSUME CachesAssumption ==
    /\ IsFiniteSet(Threads) /\ IsFiniteSet(Funds)
    /\ Room \in Nat \ {0} /\ HoursPerTick \in Nat \ {0}
    /\ LongTtl \in Nat \ {0} /\ MaxRaces \in Nat
    /\ MaxOutages \in Nat /\ MaxRestarts \in Nat
    /\ \A s \in Scenarios :
           /\ s.functions \subseteq DOMAIN Functions /\ s.threads \subseteq Threads
           /\ s.funds \subseteq Funds /\ s.horizon \in Nat
    /\ \A f \in DOMAIN Functions :
           /\ Functions[f].hours \in Nat /\ Functions[f].maxsize \in Nat
           /\ Functions[f].shared \in BOOLEAN /\ Functions[f].body \in Seq(Steps)
           /\ Expires(f) => Functions[f].hours >= HoursPerTick /\ \A g \in Callers(f) : Expires(g)
           /\ \A g, h \in Callers(f) : g = h
    /\ \A S \in SUBSET DOMAIN Functions : S # {} => \E f \in S : Callers(f) \intersect S = {}

VARIABLES
    clock,
    scenario,
    stack,     \* of each thread: the calls that it is in, the request's first
    cache,     \* of each function and argument: nothing, or the result with its time
    raced,     \* exceptions of the dictionaries
    started,   \* when the worker was started
    outages, restarts

cacheVars == <<clock, scenario, stack, cache, raced, started, outages, restarts>>

Nothing == [is |-> "nothing"]
Holding == "holding"
Arguments == Funds \union {Holding}
ArgumentOf(f, fund) == IF Functions[f].shared THEN Holding ELSE fund

Ttl(f) == LET ticks == Functions[f].hours \div HoursPerTick IN IF ticks < LongTtl THEN ticks ELSE LongTtl
Size(f) == IF Functions[f].maxsize < Room THEN Functions[f].maxsize ELSE Room

Top(t) == stack[t][Len(stack[t])]
Busy(t) == stack[t] # <<>>
At(t, place) == Busy(t) /\ Top(t).at = place
SetTop(t, frame) == stack' = [stack EXCEPT ![t] = [@ EXCEPT ![Len(@)] = frame]]
GoTo(t, place) == SetTop(t, [Top(t) EXCEPT !.at = place])

Cached(f) == {a \in Arguments : cache[f][a] # Nothing}
Entry(t) == cache[Top(t).f][Top(t).arg]

\* A call that begins; "born" will be when the sources of its result were read.
NewCall(f, fund) ==
    [f |-> f, fund |-> fund, arg |-> ArgumentOf(f, fund), at |-> "look", now |-> clock,
     next |-> 1, ok |-> TRUE, born |-> {}, keys |-> {}, oldest |-> fund]

\* A call goes on after one of its own.
GoesOn(frame, ok, born) ==
    [frame EXCEPT !.next = @ + 1, !.ok = @ /\ ok, !.born = @ \union born]

\* The call of the thread is over: its caller goes on with the result, or the request
\* is answered.
Returns(t, ok, born) ==
    LET rest == SubSeq(stack[t], 1, Len(stack[t]) - 1)
        last == Len(rest)
    IN  stack' = [stack EXCEPT ![t] =
            IF rest = <<>> THEN <<>>
            ELSE [rest EXCEPT ![last] = GoesOn(rest[last], ok, born)]]

\* An exception of a dictionary: the nearest caller that has its call in a try fails,
\* and without one the request does.
Raises(t) ==
    LET frames == stack[t]
        catching == {i \in 1 .. Len(frames) - 1 :
                        Functions[frames[i].f].body[frames[i].next].caught}
        last == CHOOSE i \in catching : \A j \in catching : j <= i
    IN  /\ raced < MaxRaces /\ raced' = raced + 1
        /\ stack' = [stack EXCEPT ![t] =
               IF catching = {} THEN <<>>
               ELSE [SubSeq(frames, 1, last) EXCEPT ![last] = GoesOn(frames[last], FALSE, {})]]

Request(t) ==
    /\ t \in scenario.threads /\ ~Busy(t)
    /\ \E f \in scenario.functions, fund \in scenario.funds :
           stack' = [stack EXCEPT ![t] = <<NewCall(f, fund)>>]
    /\ UNCHANGED <<clock, scenario, cache, raced, started, outages, restarts>>

\* "key in cache"; lru_cache gives its result in the same step.
Look(t) ==
    /\ At(t, "look")
    /\ IF Entry(t) = Nothing
       THEN GoTo(t, "body")
       ELSE IF Expires(Top(t).f)
            THEN GoTo(t, "get")
            ELSE Returns(t, Entry(t).ok, Entry(t).born)
    /\ UNCHANGED <<clock, scenario, cache, raced, started, outages, restarts>>

\* "cache[key]": young enough, expired, or gone in the meantime.
Get(t) ==
    /\ At(t, "get")
    /\ \/ /\ Entry(t) = Nothing
          /\ Raises(t)
       \/ /\ Entry(t) # Nothing /\ Top(t).now - Entry(t).time < Ttl(Top(t).f)
          /\ Returns(t, Entry(t).ok, Entry(t).born) /\ UNCHANGED raced
       \/ /\ Entry(t) # Nothing /\ Top(t).now - Entry(t).time >= Ttl(Top(t).f)
          /\ GoTo(t, "delete") /\ UNCHANGED raced
    /\ UNCHANGED <<clock, scenario, cache, started, outages, restarts>>

\* "del cache[key]" of the expired entry, which another thread may have deleted.
Delete(t) ==
    /\ At(t, "delete")
    /\ IF Entry(t) = Nothing
       THEN Raises(t) /\ UNCHANGED cache
       ELSE /\ cache' = [cache EXCEPT ![Top(t).f][Top(t).arg] = Nothing]
            /\ GoTo(t, "body") /\ UNCHANGED raced
    /\ UNCHANGED <<clock, scenario, started, outages, restarts>>

\* The function is at its end, or a step of it has failed.
Computed(t) == Top(t).next > Len(Functions[Top(t).f].body) \/ ~Top(t).ok

\* The next step of the function itself.
Body(t) ==
    LET f == Top(t).f
        step == Functions[f].body[Top(t).next]
    IN  /\ At(t, "body") /\ ~Computed(t)
        /\ \/ /\ step.does = "read"
              /\ \E ok \in BOOLEAN :
                     /\ IF ok THEN UNCHANGED outages ELSE outages < MaxOutages /\ outages' = outages + 1
                     /\ SetTop(t, [Top(t) EXCEPT !.next = @ + 1, !.ok = ok, !.born = {<<f, clock>>}])
           \/ /\ step.does = "call"
              /\ stack' = [stack EXCEPT ![t] = Append(@, NewCall(step.function, Top(t).fund))]
              /\ UNCHANGED outages
        /\ UNCHANGED <<clock, scenario, cache, raced, started, restarts>>

\* A bug for Result: the time of a result is the end of its call.
Result_AtTheEnd(t) == [is |-> "result", time |-> clock, ok |-> Top(t).ok, born |-> Top(t).born]

Result(t) == [is |-> "result", time |-> Top(t).now, ok |-> Top(t).ok, born |-> Top(t).born]

\* "cache[key] = (result, now)".  lru_cache drops another one in the same step if full,
\* and leaves what another thread has stored under the key meanwhile as it is.
Store(t) ==
    LET f == Top(t).f IN
    /\ At(t, "body") /\ Computed(t)
    /\ IF Expires(f)
       THEN /\ cache' = [cache EXCEPT ![f][Top(t).arg] = Result(t)]
            /\ GoTo(t, "count")
       ELSE /\ IF Entry(t) # Nothing THEN UNCHANGED cache ELSE
               \E dropped \in SUBSET (Cached(f) \ {Top(t).arg}) :
                   /\ IF Cardinality(Cached(f) \union {Top(t).arg}) > Size(f)
                      THEN Cardinality(dropped) = 1 ELSE dropped = {}
                   /\ cache' = [cache EXCEPT ![f] =
                          [a \in Arguments |-> IF a = Top(t).arg THEN Result(t)
                                               ELSE IF a \in dropped THEN Nothing ELSE @[a]]]
            /\ Returns(t, Top(t).ok, Top(t).born)
    /\ UNCHANGED <<clock, scenario, raced, started, outages, restarts>>

\* A bug for Count: a cache that is full by one is let pass.
Count_OneTooMany(t) ==
    /\ At(t, "count")
    /\ IF Cardinality(Cached(Top(t).f)) > Size(Top(t).f) + 1
       THEN SetTop(t, [Top(t) EXCEPT !.at = "oldest", !.keys = Cached(Top(t).f)])
       ELSE Returns(t, Top(t).ok, Top(t).born)
    /\ UNCHANGED <<clock, scenario, cache, raced, started, outages, restarts>>

\* "len(cache) > maxsize": the search for the oldest entry begins.
Count(t) ==
    /\ At(t, "count")
    /\ IF Cardinality(Cached(Top(t).f)) > Size(Top(t).f)
       THEN SetTop(t, [Top(t) EXCEPT !.at = "oldest", !.keys = Cached(Top(t).f)])
       ELSE Returns(t, Top(t).ok, Top(t).born)
    /\ UNCHANGED <<clock, scenario, cache, raced, started, outages, restarts>>

\* min over the keys: it raises if the keys changed meanwhile, or has its result before.
Oldest(t) ==
    LET f == Top(t).f IN
    /\ At(t, "oldest")
    /\ \/ /\ Top(t).keys # Cached(f)
          /\ Raises(t)
       \/ /\ \E a \in Cached(f) :
                 /\ \A b \in Cached(f) : cache[f][a].time <= cache[f][b].time
                 /\ SetTop(t, [Top(t) EXCEPT !.at = "evict", !.oldest = a, !.keys = {}])
          /\ UNCHANGED raced
    /\ UNCHANGED <<clock, scenario, cache, started, outages, restarts>>

\* "del cache[oldest_key]", which another thread may have deleted.
Evict(t) ==
    LET f == Top(t).f IN
    /\ At(t, "evict")
    /\ \/ /\ cache[f][Top(t).oldest] = Nothing
          /\ Raises(t) /\ UNCHANGED cache
       \/ /\ cache[f][Top(t).oldest] # Nothing
          /\ cache' = [cache EXCEPT ![f][Top(t).oldest] = Nothing]
          /\ Returns(t, Top(t).ok, Top(t).born) /\ UNCHANGED raced
    /\ UNCHANGED <<clock, scenario, started, outages, restarts>>

CachesTick ==
    /\ clock < scenario.horizon /\ clock' = clock + 1
    /\ UNCHANGED <<scenario, stack, cache, raced, started, outages, restarts>>

\* The worker is replaced after a number of requests, or restarted.
Restart ==
    /\ restarts < MaxRestarts /\ restarts' = restarts + 1
    /\ stack' = [t \in Threads |-> <<>>]
    /\ cache' = [f \in DOMAIN Functions |-> [a \in Arguments |-> Nothing]]
    /\ started' = clock
    /\ raced' = 0
    /\ UNCHANGED <<clock, scenario, outages>>

CachesInit ==
    /\ clock = 0
    /\ scenario \in Scenarios
    /\ stack = [t \in Threads |-> <<>>]
    /\ cache = [f \in DOMAIN Functions |-> [a \in Arguments |-> Nothing]]
    /\ raced = 0 /\ started = 0 /\ outages = 0 /\ restarts = 0

CachesNext ==
    \/ \E t \in Threads :
           Request(t) \/ Look(t) \/ Get(t) \/ Delete(t) \/ Body(t) \/ Store(t)
           \/ Count(t) \/ Oldest(t) \/ Evict(t)
    \/ CachesTick \/ Restart

CachesSpec == CachesInit /\ [][CachesNext]_cacheVars

(***************************************************************************)
(* Properties.                                                             *)
(***************************************************************************)
Sources == (DOMAIN Functions) \X Nat
Results == [is : {"result"}, time : Nat, ok : BOOLEAN, born : SUBSET Sources]
Frames == [f : DOMAIN Functions, fund : Funds, arg : Arguments,
           at : {"look", "get", "delete", "body", "count", "oldest", "evict"},
           now : Nat, next : Nat \ {0}, ok : BOOLEAN, born : SUBSET Sources,
           keys : SUBSET Arguments, oldest : Arguments]

CachesTypeOK ==
    /\ clock \in Nat /\ started \in 0..clock /\ scenario \in Scenarios
    /\ stack \in [Threads -> Seq(Frames)]
    /\ cache \in [DOMAIN Functions -> [Arguments -> {Nothing} \union Results]]
    /\ raced \in 0..MaxRaces /\ outages \in 0..MaxOutages /\ restarts \in 0..MaxRestarts

\* The ticks that a source's result may wait in the caches from it up to an endpoint.
Wait[f \in DOMAIN Functions] ==
    IF Callers(f) = {} THEN Ttl(f) ELSE Ttl(f) + Wait[CHOOSE g \in Callers(f) : TRUE]

\* The request of the thread is answered.
Answers(t) == Len(stack[t]) = 1 /\ stack'[t] = <<>> /\ UNCHANGED <<raced, restarts>>

\* What an answer is made of was read less than the sum of the times to live before its
\* request came, failures included: nested caches add up and nothing more; what
\* lru_cache holds was read since the worker was started.  (The time of an entry is the
\* begin of its call, so that no result is taken for younger than it is.)
AnswersAreNotOlderThanTheCachesAllow ==
    [][\A t \in Threads : Answers(t) =>
          \A source \in (IF Top(t).at \in {"look", "get"} THEN Entry(t).born ELSE Top(t).born) :
              IF Expires(source[1])
              THEN source[2] > Top(t).now - Wait[source[1]]
              ELSE source[2] >= started]_cacheVars

\* A cache holds at most its maxsize, one more for each thread that has stored and not yet
\* evicted, and one more for each exception: an eviction that another thread's deletion
\* made raise is not made up for.  (The eviction without a lock.)
CachesAreBounded ==
    \A f \in DOMAIN Functions :
        Cardinality(Cached(f)) <=
            Size(f) + raced + Cardinality({t \in Threads : \E i \in DOMAIN stack[t] :
                          stack[t][i].f = f /\ stack[t][i].at \in {"count", "oldest", "evict"}})
=============================================================================
