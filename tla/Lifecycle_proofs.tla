-------------------------- MODULE Lifecycle_proofs --------------------------
(***************************************************************************)
(* Proofs about the limiters in their processes, for any number of workers *)
(* and concurrent checks, every limit, windows of any length, every delay  *)
(* of a pipeline that the entries of Redis outlive, and every order of     *)
(* starts, restarts and lost answers.                                      *)
(***************************************************************************)
EXTENDS Lifecycle, Induction

-----------------------------------------------------------------------------
(* Windows of the clock                                                    *)

LEMMA DivBounds ==
  ASSUME NEW a \in Nat, NEW b \in Nat \ {0}
  PROVE  /\ a \div b \in Nat
         /\ (a \div b) * b <= a
         /\ a < (a \div b) * b + b
<1>1. /\ (a \div b) \in Int /\ a % b \in 0..(b - 1)
      /\ a = b * (a \div b) + (a % b)
  OBVIOUS
<1>2. b * (a \div b) = (a \div b) * b
  BY <1>1
<1> QED BY <1>1, <1>2

LEMMA TickTypes ==
  /\ SecondsPerWindow \in Nat \ {0}
  /\ TicksPerSecond \in Nat \ {0}
  /\ TicksPerWindow \in Nat \ {0}
  /\ TicksPerSecond <= TicksPerWindow
<1>1. SecondsPerWindow \in Nat \ {0} /\ TicksPerSecond \in Nat \ {0}
  BY WindowsAssumption
<1>2. SecondsPerWindow * TicksPerSecond \in Nat \ {0}
  BY <1>1
<1>3. SecondsPerWindow * TicksPerSecond =
        (SecondsPerWindow - 1) * TicksPerSecond + TicksPerSecond
  BY <1>1
<1>4. (SecondsPerWindow - 1) * TicksPerSecond \in Nat
  BY <1>1
<1> QED BY <1>1, <1>2, <1>3, <1>4 DEF TicksPerWindow

(* A window is the span between two multiples of its length.               *)
LEMMA WindowBounds ==
  ASSUME NEW t \in Nat
  PROVE  /\ Window(t) \in Nat
         /\ Window(t) * TicksPerWindow \in Nat
         /\ Window(t) * TicksPerWindow <= t
         /\ t < Window(t) * TicksPerWindow + TicksPerWindow
<1>1. Window(t) \in Nat
  BY TickTypes, DivBounds DEF Window
<1>2. Window(t) * TicksPerWindow \in Nat
  BY <1>1, TickTypes
<1> QED BY <1>1, <1>2, TickTypes, DivBounds DEF Window

(* An order of multiples is an order of the factors.                       *)
LEMMA MultiplesInOrder ==
  ASSUME NEW v \in Nat, NEW w \in Nat, NEW n \in Nat \ {0},
         v * n < w * n + n
  PROVE  v <= w
<1> SUFFICES ASSUME v >= w + 1
             PROVE  FALSE
  OBVIOUS
<1>1. v * n = (w + 1) * n + (v - (w + 1)) * n
  OBVIOUS
<1>2. (v - (w + 1)) * n \in Nat
  OBVIOUS
<1>3. (w + 1) * n = w * n + n
  OBVIOUS
<1>4. w * n \in Nat
  OBVIOUS
<1> QED BY <1>1, <1>2, <1>3, <1>4

LEMMA WindowIs ==
  ASSUME NEW t \in Nat, NEW w \in Nat,
         w * TicksPerWindow <= t, t < w * TicksPerWindow + TicksPerWindow
  PROVE  Window(t) = w
<1> DEFINE v == Window(t)
           n == TicksPerWindow
<1>1. n \in Nat \ {0}
  BY TickTypes
<1>2. v \in Nat /\ v * n \in Nat /\ v * n <= t /\ t < v * n + n
  BY WindowBounds
<1>3. w * n \in Nat
  BY <1>1
<1> HIDE DEF v, n
<1>4. w * n <= t /\ t < w * n + n
  BY DEF n
<1>5. v * n < w * n + n /\ w * n < v * n + n
  BY <1>1, <1>2, <1>3, <1>4
<1>6. v <= w /\ w <= v
  BY <1>1, <1>2, <1>5, MultiplesInOrder
<1> QED BY <1>2, <1>6 DEF v

LEMMA WindowMonotone ==
  ASSUME NEW s \in Nat, NEW t \in Nat, s <= t
  PROVE  Window(s) <= Window(t)
<1> DEFINE v == Window(s)
           w == Window(t)
           n == TicksPerWindow
<1>1. n \in Nat \ {0}
  BY TickTypes
<1>2. /\ v \in Nat /\ v * n \in Nat /\ v * n <= s
      /\ w \in Nat /\ w * n \in Nat /\ t < w * n + n
  BY WindowBounds
<1> HIDE DEF v, w, n
<1>3. v * n < w * n + n
  BY <1>1, <1>2
<1> QED BY <1>1, <1>2, <1>3, MultiplesInOrder DEF v, w

LEMMA WindowInModel ==
  ASSUME NEW t \in 0..MaxTime
  PROVE  Window(t) \in AllWindows
<1>1. MaxTime \in Nat /\ t \in Nat /\ t <= MaxTime
  BY WindowsAssumption
<1> QED BY <1>1, WindowBounds, WindowMonotone DEF AllWindows

(* The clock goes from a window to itself or to the next.                  *)
LEMMA NextTick ==
  ASSUME NEW t \in Nat
  PROVE  Window(t + 1) = Window(t) \/ Window(t + 1) = Window(t) + 1
<1> DEFINE w == Window(t)
           n == TicksPerWindow
<1>1. n \in Nat \ {0}
  BY TickTypes
<1>2. w \in Nat /\ w * n \in Nat /\ w * n <= t /\ t < w * n + n
  BY WindowBounds
<1>3. (w + 1) * n = w * n + n
  BY <1>1, <1>2
<1> HIDE DEF w
<1>4. CASE t + 1 < w * n + n
  <2>1. w * n <= t + 1 /\ t + 1 \in Nat
    BY <1>1, <1>2
  <2>2. Window(t + 1) = w
    BY <1>2, <1>4, <2>1, WindowIs
  <2> QED BY <2>2 DEF w
<1>5. CASE ~ (t + 1 < w * n + n)
  <2>1. t + 1 = w * n + n
    BY <1>1, <1>2, <1>5
  <2>2. (w + 1) * n <= t + 1 /\ t + 1 < (w + 1) * n + n /\ w + 1 \in Nat
    BY <1>1, <1>2, <1>3, <2>1
  <2>3. Window(t + 1) = w + 1
    BY <2>2, WindowIs
  <2> QED BY <2>3 DEF w
<1> QED BY <1>4, <1>5

(* Waiting reset_in_seconds leads past the end of the window, and by less  *)
(* than a second.                                                          *)
LEMMA ResetReaches ==
  ASSUME NEW t \in Nat
  PROVE  LET then == t + ResetIn(t) * TicksPerSecond
         IN  /\ Window(then) > Window(t)
             /\ Window(then - TicksPerSecond) = Window(t)
<1> DEFINE n == TicksPerWindow
           s == SecondsPerWindow
           u == TicksPerSecond
           w == Window(t)
           m == t % n
           e == m \div u
           then == t + ResetIn(t) * u
<1>1. n \in Nat \ {0} /\ s \in Nat \ {0} /\ u \in Nat \ {0} /\ u <= n /\ n = s * u
  BY TickTypes DEF TicksPerWindow
<1>2. w \in Nat /\ w * n \in Nat
  BY WindowBounds
<1> HIDE DEF n, u, s
<1>3. m \in Nat /\ m < n /\ t = n * w + m
  <2>1. m \in 0..(n - 1) /\ t = n * (t \div n) + m
    BY <1>1
  <2>2. w = t \div n
    BY DEF Window, n
  <2> QED BY <1>1, <2>1, <2>2
<1>4. n * w = w * n
  BY <1>1, <1>2
<1> HIDE DEF w, m
<1>5. e \in Nat /\ e * u <= m /\ m < e * u + u
  BY <1>1, <1>3, DivBounds
<1>6. ResetIn(t) = s - e
  BY DEF ResetIn, SecondOfWindow, e, m, n, s, u
<1> HIDE DEF e
<1>7. (s - e) * u = s * u - e * u /\ e * u \in Nat
  BY <1>1, <1>5
<1>8. then = w * n + n + (m - e * u)
  BY <1>1, <1>2, <1>3, <1>4, <1>5, <1>6, <1>7
<1>9. (w + 1) * n = w * n + n
  BY <1>1, <1>2
<1> HIDE DEF then
<1>10. then \in Nat /\ (w + 1) * n <= then /\ then < (w + 1) * n + n
  BY <1>1, <1>2, <1>3, <1>5, <1>7, <1>8, <1>9
<1>11. Window(then) = w + 1
  BY <1>2, <1>10, WindowIs DEF n
<1>12. then - u \in Nat /\ w * n <= then - u /\ then - u < w * n + n
  BY <1>1, <1>2, <1>3, <1>5, <1>7, <1>8
<1>13. Window(then - u) = w
  BY <1>2, <1>12, WindowIs DEF n
<1>14. w + 1 > w
  BY <1>2
<1> QED BY <1>11, <1>13, <1>14 DEF then, w, u

-----------------------------------------------------------------------------
(* The inductive invariant                                                 *)

(* Nobody shares the counter of a dictionary, and none is made twice.      *)
OwnCounters ==
  /\ redis <= made
  /\ \A p \in Workers : backend[p] = "memory" =>
       /\ memory[p] <= made
       /\ memory[p] # redis
       /\ \A q \in Workers \ {p} :
            backend[q] = "memory" => memory[q] # memory[p]
  /\ \A c \in Counters, k \in Keys, w \in AllWindows :
       c > made => counted[<<c, k>>][w] = 0

(* A dictionary has what its counter counted in the last window it saw.    *)
Dictionaries ==
  \A p \in Workers, k \in Keys :
    /\ backend[p] # "memory" => windows[p][k] = NotSeen
    /\ windows[p][k].window <= Window(now)
    /\ backend[p] = "memory" =>
         /\ windows[p][k].count = counted[<<memory[p], k>>][windows[p][k].window]
         /\ \A w \in AllWindows :
              w > windows[p][k].window => counted[<<memory[p], k>>][w] = 0

(* Redis has what its counter counted, and keeps it until no pipeline of   *)
(* that window can be under way.                                           *)
EntriesLive ==
  \A k \in Keys, w \in AllWindows :
    /\ entries[<<k, w>>].count = counted[<<redis, k>>][w]
    /\ entries[<<k, w>>].count > 0 =>
         w * TicksPerWindow + Ttl * TicksPerSecond <= entries[<<k, w>>].expires

(* A pipeline is under way for MaxDelay at most, and the count that a      *)
(* request was told was counted.                                           *)
CallsRight ==
  \A t \in Tasks :
    /\ calls[t].at \in {"sent", "orphan"} =>
         /\ calls[t].since <= now
         /\ now <= calls[t].since + MaxDelay
         /\ calls[t].window = Window(calls[t].since)
    /\ calls[t].at = "counted" =>
         /\ calls[t].window <= Window(now)
         /\ calls[t].count <=
              counted[<<calls[t].counter, calls[t].key>>][calls[t].window]

(* The requests that were counted within the limit and will be admitted.   *)
Due(t, c, k, w) ==
  /\ calls[t].at = "counted"
  /\ calls[t].counter = c
  /\ calls[t].key = k
  /\ calls[t].window = w
  /\ WithinLimit(t)

Pending(c, k, w) == {t \in Tasks : Due(t, c, k, w)}

(* Who was admitted and who will be: no more than were counted, and no     *)
(* more than the limit.                                                    *)
Handouts ==
  \A c \in Counters, k \in Keys, w \in AllWindows :
    LET out == admitted[<<c, k>>][w] + Cardinality(Pending(c, k, w))
    IN  out <= counted[<<c, k>>][w] /\ out <= Limit[k]

LifeInv ==
  /\ TypeOK
  /\ OwnCounters
  /\ Dictionaries
  /\ EntriesLive
  /\ CallsRight
  /\ Handouts

-----------------------------------------------------------------------------
(* Tables of counts, and calls as records                                  *)

Tables == [Counters \X Keys -> [AllWindows -> Nat]]

Plus(f, c, k, w) == [f EXCEPT ![<<c, k>>][w] = @ + 1]

(* Counting one changes that count and no other.                           *)
LEMMA OneMore ==
  ASSUME NEW f \in Tables, NEW c \in Counters, NEW k \in Keys,
         NEW w \in AllWindows, NEW g, g = Plus(f, c, k, w)
  PROVE  /\ g \in Tables
         /\ g[<<c, k>>][w] = f[<<c, k>>][w] + 1
         /\ f[<<c, k>>][w] \in Nat
         /\ \A d \in Counters, j \in Keys, v \in AllWindows :
              /\ f[<<d, j>>][v] \in Nat
              /\ f[<<d, j>>][v] <= g[<<d, j>>][v]
              /\ (d # c \/ j # k \/ v # w) => g[<<d, j>>][v] = f[<<d, j>>][v]
<1>1. <<c, k>> \in Counters \X Keys
  OBVIOUS
<1>2. f[<<c, k>>] \in [AllWindows -> Nat]
  BY <1>1 DEF Tables
<1> DEFINE h == [f[<<c, k>>] EXCEPT ![w] = @ + 1]
<1>3. h \in [AllWindows -> Nat] /\ h[w] = f[<<c, k>>][w] + 1
  BY <1>2
<1>4. \A v \in AllWindows : v # w => h[v] = f[<<c, k>>][v]
  BY <1>2
<1>5. g = [f EXCEPT ![<<c, k>>] = h]
  BY <1>1 DEF Tables, Plus
<1> HIDE DEF h
<1>6. g \in Tables /\ g[<<c, k>>] = h
  BY <1>1, <1>3, <1>5 DEF Tables
<1>7. ASSUME NEW d \in Counters, NEW j \in Keys, NEW v \in AllWindows
      PROVE  /\ f[<<d, j>>][v] \in Nat
             /\ f[<<d, j>>][v] <= g[<<d, j>>][v]
             /\ (d # c \/ j # k \/ v # w) => g[<<d, j>>][v] = f[<<d, j>>][v]
  <2>1. <<d, j>> \in Counters \X Keys /\ f[<<d, j>>] \in [AllWindows -> Nat]
    BY DEF Tables
  <2>2. f[<<d, j>>][v] \in Nat
    BY <2>1
  <2>3. CASE d = c /\ j = k
    <3>1. g[<<d, j>>][v] = h[v] /\ f[<<d, j>>][v] = f[<<c, k>>][v]
      BY <1>6, <2>3
    <3>2. CASE v = w
      BY <1>3, <2>2, <2>3, <3>1, <3>2
    <3>3. CASE v # w
      BY <1>4, <2>2, <2>3, <3>1, <3>3
    <3> QED BY <3>2, <3>3
  <2>4. CASE ~ (d = c /\ j = k)
    <3>1. <<d, j>> # <<c, k>>
      BY <2>4
    <3>2. g[<<d, j>>] = f[<<d, j>>]
      BY <1>5, <2>1, <3>1 DEF Tables
    <3> QED BY <2>2, <3>2
  <2> QED BY <2>3, <2>4
<1> QED BY <1>2, <1>3, <1>6, <1>7

CallRecords ==
  [at : {"sent", "counted", "orphan"}, process : Processes, key : Keys,
   window : AllWindows, since : 0..MaxTime, count : Nat, counter : Counters]

LEMMA BusyCall ==
  ASSUME RedisTypeOK, NEW t \in Tasks, calls[t].at # "idle"
  PROVE  calls[t] \in CallRecords
BY DEF RedisTypeOK, Calls, NoCall, CallRecords

LEMMA CallFields ==
  ASSUME NEW q \in CallRecords
  PROVE  /\ q \in Calls
         /\ q.at \in {"sent", "counted", "orphan"}
         /\ q.process \in Processes /\ q.key \in Keys
         /\ q.window \in AllWindows /\ q.since \in 0..MaxTime
         /\ q.count \in Nat /\ q.counter \in Counters
BY DEF CallRecords, Calls

LEMMA Orphaned ==
  ASSUME NEW q \in CallRecords
  PROVE  /\ [q EXCEPT !.at = "orphan"] \in CallRecords
         /\ [q EXCEPT !.at = "orphan"].at = "orphan"
         /\ [q EXCEPT !.at = "orphan"].since = q.since
         /\ [q EXCEPT !.at = "orphan"].window = q.window
BY DEF CallRecords

(* What Execute makes of a call.                                           *)
Told(q, n, c) ==
  [q EXCEPT !.at = "counted", !.since = 0, !.count = n, !.counter = c]

LEMMA CountedCall ==
  ASSUME NEW q \in CallRecords, NEW n \in Nat, NEW c \in Counters,
         NEW z, z = Told(q, n, c)
  PROVE  /\ z \in CallRecords
         /\ z.at = "counted" /\ z.count = n /\ z.counter = c
         /\ z.key = q.key /\ z.window = q.window
<1>1. 0 \in 0..MaxTime
  BY WindowsAssumption
<1> QED BY <1>1 DEF CallRecords, Told

-----------------------------------------------------------------------------
(* Sets of tasks                                                           *)

LEMMA TaskSets ==
  ASSUME NEW S, S \subseteq Tasks
  PROVE  IsFiniteSet(S) /\ Cardinality(S) \in Nat
BY LifecycleAssumption, FS_Subset, FS_CardinalityType

LEMMA TaskSubset ==
  ASSUME NEW S, NEW T, S \subseteq T, T \subseteq Tasks
  PROVE  Cardinality(S) <= Cardinality(T)
BY TaskSets, FS_Subset

LEMMA TaskAdded ==
  ASSUME NEW S, NEW T, S \subseteq Tasks, NEW t \in Tasks, T \subseteq S \cup {t}
  PROVE  Cardinality(T) <= Cardinality(S) + 1
<1>1. IsFiniteSet(S) /\ Cardinality(S) \in Nat
  BY TaskSets
<1>2. /\ IsFiniteSet(S \cup {t})
      /\ Cardinality(S \cup {t}) =
           IF t \in S THEN Cardinality(S) ELSE Cardinality(S) + 1
  BY <1>1, FS_AddElement
<1>3. Cardinality(T) <= Cardinality(S \cup {t})
  BY TaskSubset
<1>4. Cardinality(T) \in Nat /\ Cardinality(S \cup {t}) \in Nat
  BY TaskSets
<1> QED BY <1>1, <1>2, <1>3, <1>4

LEMMA TaskRemoved ==
  ASSUME NEW S, NEW T, S \subseteq Tasks, NEW t \in S, T \subseteq S \ {t}
  PROVE  Cardinality(T) + 1 <= Cardinality(S)
<1>1. IsFiniteSet(S) /\ Cardinality(S) \in Nat
  BY TaskSets
<1>2. Cardinality(S \ {t}) = Cardinality(S) - 1
  BY <1>1, FS_RemoveElement
<1>3. Cardinality(T) <= Cardinality(S \ {t}) /\ Cardinality(T) \in Nat
  BY TaskSubset, TaskSets
<1> QED BY <1>1, <1>2, <1>3

-----------------------------------------------------------------------------
(* Calls that end, or lose their process, only fade: nobody is due who was *)
(* not.                                                                    *)
LEMMA CallsFade ==
  ASSUME LifeInv, UNCHANGED <<now, counted>>,
         \A t \in Tasks :
           \/ calls'[t] = calls[t]
           \/ calls'[t] = NoCall
           \/ /\ calls[t].at \in {"sent", "orphan"}
              /\ calls'[t] = [calls[t] EXCEPT !.at = "orphan"]
  PROVE  /\ \A t \in Tasks : calls'[t] \in Calls
         /\ CallsRight'
         /\ \A c \in Counters, k \in Keys, w \in AllWindows :
              Pending(c, k, w)' \subseteq Pending(c, k, w)
<1>1. RedisTypeOK /\ CallsRight
  BY DEF LifeInv, TypeOK
<1>2. ASSUME NEW t \in Tasks
      PROVE  /\ calls'[t] \in Calls
             /\ calls'[t].at \in {"sent", "orphan"} =>
                  /\ calls'[t].since <= now
                  /\ now <= calls'[t].since + MaxDelay
                  /\ calls'[t].window = Window(calls'[t].since)
             /\ calls'[t].at = "counted" => calls'[t] = calls[t]
  <2>1. CASE calls'[t] = calls[t]
    BY <1>1, <2>1 DEF RedisTypeOK, CallsRight
  <2>2. CASE calls'[t] = NoCall
    BY <2>2 DEF NoCall, Calls
  <2>3. CASE /\ calls[t].at \in {"sent", "orphan"}
             /\ calls'[t] = [calls[t] EXCEPT !.at = "orphan"]
    <3>1. calls[t] \in CallRecords
      BY <1>1, <2>3, BusyCall
    <3>2. /\ calls'[t] \in CallRecords /\ calls'[t].at = "orphan"
          /\ calls'[t].since = calls[t].since
          /\ calls'[t].window = calls[t].window
      BY <2>3, <3>1, Orphaned
    <3> QED BY <1>1, <2>3, <3>2, CallFields DEF CallsRight
  <2> QED BY <2>1, <2>2, <2>3
<1>3. CallsRight'
  BY <1>1, <1>2 DEF CallsRight
<1>4. ASSUME NEW c \in Counters, NEW k \in Keys, NEW w \in AllWindows
      PROVE  Pending(c, k, w)' \subseteq Pending(c, k, w)
  BY <1>2 DEF Pending, Due, WithinLimit
<1> QED BY <1>2, <1>3, <1>4

(* Fewer due and no more counted or admitted: the handouts stay right.     *)
LEMMA HandoutsFade ==
  ASSUME LifeInv, UNCHANGED historyVars,
         \A c \in Counters, k \in Keys, w \in AllWindows :
           Pending(c, k, w)' \subseteq Pending(c, k, w)
  PROVE  Handouts'
<1> SUFFICES ASSUME NEW c \in Counters, NEW k \in Keys, NEW w \in AllWindows
             PROVE  LET out == admitted'[<<c, k>>][w]
                                 + Cardinality(Pending(c, k, w)')
                    IN  out <= counted'[<<c, k>>][w] /\ out <= Limit[k]
  BY DEF Handouts
<1>1. counted' = counted /\ admitted' = admitted
  BY DEF historyVars
<1>2. Pending(c, k, w) \subseteq Tasks
  BY DEF Pending
<1>3. Pending(c, k, w)' \subseteq Pending(c, k, w)
  OBVIOUS
<1>4. Cardinality(Pending(c, k, w)') <= Cardinality(Pending(c, k, w))
  BY <1>2, <1>3, TaskSubset
<1>5. Cardinality(Pending(c, k, w)') \in Nat /\ Cardinality(Pending(c, k, w)) \in Nat
  BY <1>2, <1>3, TaskSets
<1>6. /\ counted[<<c, k>>][w] \in Nat /\ admitted[<<c, k>>][w] \in Nat
      /\ Limit[k] \in Nat
  BY WindowsAssumption DEF LifeInv, TypeOK, WindowsTypeOK
<1>7. LET out == admitted[<<c, k>>][w] + Cardinality(Pending(c, k, w))
      IN  out <= counted[<<c, k>>][w] /\ out <= Limit[k]
  BY DEF LifeInv, Handouts
<1> QED BY <1>1, <1>4, <1>5, <1>6, <1>7

-----------------------------------------------------------------------------
(* The processes                                                           *)

LEMMA ModelBounds ==
  /\ MaxTime \in Nat /\ MaxCounters \in Nat /\ MaxDelay \in Nat /\ Ttl \in Nat
  /\ Limit \in [Keys -> Nat \ {0}]
  /\ Processes = Workers
  /\ 0 \in AllWindows /\ 0 \in Counters
  /\ AllWindows \subseteq Nat /\ Counters \subseteq Nat
<1>1. 0 \in Nat /\ Window(0) = 0 /\ MaxTime \in Nat
  <2>1. 0 * TicksPerWindow = 0 /\ 0 < 0 * TicksPerWindow + TicksPerWindow
    BY TickTypes
  <2> QED BY <2>1, WindowIs, WindowsAssumption
<1>2. 0 \in AllWindows
  BY <1>1, WindowInModel
<1> QED BY <1>1, <1>2, WindowsAssumption, RedisAssumption, LifecycleAssumption
        DEF AllWindows, Counters

LEMMA InitInv == Init => LifeInv
<1> SUFFICES ASSUME Init
             PROVE  LifeInv
  OBVIOUS
<1> USE DEF Init, WindowsInit, MemoryInit, RedisInit
<1>1. TypeOK
  BY ModelBounds
  DEF TypeOK, WindowsTypeOK, MemoryTypeOK, RedisTypeOK, NotSeen, NoEntry,
      Calls, NoCall, Backends
<1>2. OwnCounters
  BY ModelBounds DEF OwnCounters
<1>3. Dictionaries
  <2>1. Window(0) \in Nat
    BY WindowBounds
  <2> QED BY <2>1 DEF Dictionaries, NotSeen
<1>4. EntriesLive
  BY ModelBounds DEF EntriesLive, NoEntry
<1>5. CallsRight
  BY DEF CallsRight, NoCall
<1>6. Handouts
  <2>1. ASSUME NEW c \in Counters, NEW k \in Keys, NEW w \in AllWindows
        PROVE  /\ admitted[<<c, k>>][w] + Cardinality(Pending(c, k, w))
                    <= counted[<<c, k>>][w]
               /\ admitted[<<c, k>>][w] + Cardinality(Pending(c, k, w)) <= Limit[k]
    <3>1. Pending(c, k, w) = {}
      BY DEF Pending, Due, NoCall
    <3>2. Cardinality(Pending(c, k, w)) = 0
      BY <3>1, FS_EmptySet
    <3>3. admitted[<<c, k>>][w] = 0 /\ counted[<<c, k>>][w] = 0 /\ Limit[k] \in Nat
      BY ModelBounds
    <3> QED BY <3>2, <3>3
  <2> QED BY <2>1 DEF Handouts
<1> QED BY <1>1, <1>2, <1>3, <1>4, <1>5, <1>6 DEF LifeInv

(* Parts of the invariant that a step does not touch.                      *)
LEMMA Untouched ==
  ASSUME LifeInv
  PROVE  /\ UNCHANGED <<entries, redis, counted>> => EntriesLive'
         /\ UNCHANGED <<now, calls, counted>> => CallsRight'
         /\ UNCHANGED <<calls, counted, admitted>> => Handouts'
         /\ UNCHANGED <<redis, made, backend, memory, counted>> => OwnCounters'
         /\ UNCHANGED <<now, backend, memory, windows, counted>> => Dictionaries'
<1>1. UNCHANGED <<entries, redis, counted>> => EntriesLive'
  BY DEF LifeInv, EntriesLive
<1>2. UNCHANGED <<now, calls, counted>> => CallsRight'
  BY DEF LifeInv, CallsRight
<1>3. ASSUME UNCHANGED <<calls, counted, admitted>>
      PROVE  Handouts'
  <2>1. \A c, k, w : Pending(c, k, w)' = Pending(c, k, w)
    BY <1>3 DEF Pending, Due, WithinLimit
  <2> QED BY <1>3, <2>1 DEF LifeInv, Handouts
<1>4. UNCHANGED <<redis, made, backend, memory, counted>> => OwnCounters'
  BY DEF LifeInv, OwnCounters
<1>5. UNCHANGED <<now, backend, memory, windows, counted>> => Dictionaries'
  BY DEF LifeInv, Dictionaries
<1> QED BY <1>1, <1>2, <1>3, <1>4, <1>5

LEMMA StartCounted ==
  ASSUME TypeOK, CountStart
  PROVE  starts' \in [AllWindows -> Nat]
<1>1. Window(now) \in AllWindows
  BY WindowInModel DEF TypeOK, WindowsTypeOK
<1> QED BY <1>1 DEF TypeOK, CountStart

LEMMA StartupInMemoryInv ==
  ASSUME LifeInv, NEW p \in Workers, StartupInMemory(p)
  PROVE  LifeInv'
<1> DEFINE c == made + 1
<1>1. /\ backend[p] = "down" /\ made < MaxCounters /\ CountStart
      /\ backend' = [backend EXCEPT ![p] = "memory"]
      /\ made' = c
      /\ windows' = [windows EXCEPT ![p] = [k \in Keys |-> NotSeen]]
      /\ memory' = [memory EXCEPT ![p] = c]
      /\ UNCHANGED <<now, counted, admitted, entries, redis, calls>>
  BY DEF StartupInMemory, NewDictionary, historyVars, redisVars
<1>2. TypeOK /\ OwnCounters /\ Dictionaries
  BY DEF LifeInv
<1>3. made \in Nat /\ c \in Counters /\ c > made
  BY <1>1, <1>2, ModelBounds DEF TypeOK, Counters
<1>4. TypeOK'
  <2>1. NotSeen \in [window : AllWindows, count : Nat]
    BY ModelBounds DEF NotSeen
  <2>2. starts' \in [AllWindows -> Nat]
    BY <1>1, <1>2, StartCounted
  <2>3. MemoryTypeOK'
    BY <1>1, <1>2, <1>3, <2>1 DEF TypeOK, MemoryTypeOK
  <2>4. WindowsTypeOK' /\ RedisTypeOK'
    BY <1>1, <1>2 DEF TypeOK, WindowsTypeOK, RedisTypeOK
  <2>5. backend' \in [Workers -> Backends] /\ made' \in Counters
    BY <1>1, <1>2, <1>3 DEF TypeOK, Backends
  <2> QED BY <2>2, <2>3, <2>4, <2>5 DEF TypeOK
<1>5. /\ memory'[p] = c /\ backend'[p] = "memory"
      /\ windows'[p] = [k \in Keys |-> NotSeen]
      /\ \A q \in Workers \ {p} :
           /\ memory'[q] = memory[q] /\ backend'[q] = backend[q]
           /\ windows'[q] = windows[q]
  BY <1>1, <1>2 DEF TypeOK, MemoryTypeOK
<1> HIDE DEF c
<1>6. \A q \in Workers : memory[q] \in Nat /\ redis \in Nat /\ c \in Nat
  BY <1>2, <1>3, ModelBounds DEF TypeOK, MemoryTypeOK, RedisTypeOK
<1>7. OwnCounters'
  <2>1. redis' <= made'
    BY <1>1, <1>2, <1>3, <1>6 DEF OwnCounters
  <2>2. ASSUME NEW q \in Workers, backend'[q] = "memory"
        PROVE  /\ memory'[q] <= made'
               /\ memory'[q] # redis'
               /\ \A o \in Workers \ {q} :
                    backend'[o] = "memory" => memory'[o] # memory'[q]
    <3>1. \A o \in Workers \ {p} :
            backend'[o] = "memory" => memory[o] <= made /\ memory[o] # c
      BY <1>2, <1>3, <1>5, <1>6 DEF OwnCounters
    <3>2. redis # c
      BY <1>2, <1>3, <1>6 DEF OwnCounters
    <3>3. CASE q = p
      BY <1>1, <1>5, <1>6, <2>2, <3>1, <3>2, <3>3
    <3>4. CASE q # p
      BY <1>1, <1>2, <1>3, <1>5, <1>6, <2>2, <3>1, <3>4 DEF OwnCounters
    <3> QED BY <3>3, <3>4
  <2>3. ASSUME NEW d \in Counters, NEW k \in Keys, NEW w \in AllWindows, d > made'
        PROVE  counted'[<<d, k>>][w] = 0
    <3>1. d > made
      BY <1>1, <1>3, <1>6, <2>3, ModelBounds
    <3> QED BY <1>1, <1>2, <3>1 DEF OwnCounters
  <2> QED BY <2>1, <2>2, <2>3 DEF OwnCounters
<1>8. Dictionaries'
  <2> SUFFICES ASSUME NEW q \in Workers, NEW k \in Keys
               PROVE  /\ backend'[q] # "memory" => windows'[q][k] = NotSeen
                      /\ windows'[q][k].window <= Window(now')
                      /\ backend'[q] = "memory" =>
                           /\ windows'[q][k].count =
                                counted'[<<memory'[q], k>>][windows'[q][k].window]
                           /\ \A w \in AllWindows :
                                w > windows'[q][k].window =>
                                  counted'[<<memory'[q], k>>][w] = 0
    BY DEF Dictionaries
  <2>1. CASE q = p
    <3>1. windows'[q][k] = NotSeen /\ NotSeen.window = 0 /\ NotSeen.count = 0
      BY <1>5, <2>1 DEF NotSeen
    <3>2. \A w \in AllWindows : counted[<<c, k>>][w] = 0
      BY <1>2, <1>3 DEF OwnCounters
    <3>3. Window(now) \in Nat
      BY <1>2, WindowBounds DEF TypeOK, WindowsTypeOK
    <3> QED BY <1>1, <1>5, <2>1, <3>1, <3>2, <3>3, ModelBounds
  <2>2. CASE q # p
    BY <1>1, <1>2, <1>5, <2>2 DEF Dictionaries
  <2> QED BY <2>1, <2>2
<1> QED BY <1>1, <1>4, <1>7, <1>8, Untouched DEF LifeInv

LEMMA StartupOnRedisInv ==
  ASSUME LifeInv, NEW p \in Workers, StartupOnRedis(p)
  PROVE  LifeInv'
<1>1. /\ backend[p] = "down" /\ CountStart
      /\ backend' = [backend EXCEPT ![p] = "redis"]
      /\ UNCHANGED <<now, counted, admitted, windows, memory, entries, redis,
                     calls, made>>
  BY DEF StartupOnRedis, historyVars, redisVars, memoryVars
<1>2. TypeOK /\ OwnCounters /\ Dictionaries
  BY DEF LifeInv
<1>3. TypeOK'
  BY <1>1, <1>2, StartCounted
  DEF TypeOK, WindowsTypeOK, MemoryTypeOK, RedisTypeOK, Backends
<1>4. /\ backend'[p] = "redis"
      /\ \A q \in Workers \ {p} : backend'[q] = backend[q]
  BY <1>1, <1>2 DEF TypeOK
<1>5. OwnCounters'
  BY <1>1, <1>2, <1>4 DEF OwnCounters
<1>6. Dictionaries'
  BY <1>1, <1>2, <1>4 DEF Dictionaries
<1> QED BY <1>1, <1>3, <1>5, <1>6, Untouched DEF LifeInv

LEMMA ShutdownInv ==
  ASSUME LifeInv, NEW p \in Workers, Shutdown(p)
  PROVE  LifeInv'
<1>1. /\ backend' = [backend EXCEPT ![p] = "down"]
      /\ windows' = [windows EXCEPT ![p] = [k \in Keys |-> NotSeen]]
      /\ memory' = [memory EXCEPT ![p] = 0]
      /\ calls' = [t \in Tasks |->
              IF calls[t].at = "idle" \/ calls[t].process # p THEN calls[t]
              ELSE IF calls[t].at = "counted" THEN NoCall
              ELSE [calls[t] EXCEPT !.at = "orphan"]]
      /\ UNCHANGED <<now, counted, admitted, entries, redis, made, starts>>
  BY DEF Shutdown, NewDictionary, Abandon, historyVars
<1>2. TypeOK /\ OwnCounters /\ Dictionaries
  BY DEF LifeInv
<1>3. \A t \in Tasks :
        \/ calls'[t] = calls[t]
        \/ calls'[t] = NoCall
        \/ /\ calls[t].at \in {"sent", "orphan"}
           /\ calls'[t] = [calls[t] EXCEPT !.at = "orphan"]
  <2> SUFFICES ASSUME NEW t \in Tasks, calls'[t] # calls[t], calls'[t] # NoCall
               PROVE  /\ calls[t].at \in {"sent", "orphan"}
                      /\ calls'[t] = [calls[t] EXCEPT !.at = "orphan"]
    OBVIOUS
  <2>1. /\ calls[t].at # "idle" /\ calls[t].at # "counted"
        /\ calls'[t] = [calls[t] EXCEPT !.at = "orphan"]
    BY <1>1
  <2>2. calls[t] \in CallRecords
    BY <1>2, <2>1, BusyCall DEF TypeOK
  <2> QED BY <2>1, <2>2, CallFields
<1>4. /\ \A t \in Tasks : calls'[t] \in Calls
      /\ CallsRight'
      /\ \A c \in Counters, k \in Keys, w \in AllWindows :
           Pending(c, k, w)' \subseteq Pending(c, k, w)
  BY <1>1, <1>3, CallsFade
<1>5. Handouts'
  BY <1>1, <1>4, HandoutsFade DEF historyVars
<1>6. NotSeen \in [window : AllWindows, count : Nat]
  BY ModelBounds DEF NotSeen
<1>7. TypeOK'
  <2>1. RedisTypeOK'
    BY <1>1, <1>2, <1>4 DEF TypeOK, RedisTypeOK
  <2>2. MemoryTypeOK'
    BY <1>1, <1>2, <1>6, ModelBounds DEF TypeOK, MemoryTypeOK
  <2> QED BY <1>1, <1>2, <2>1, <2>2 DEF TypeOK, WindowsTypeOK, Backends
<1>8. /\ backend'[p] = "down" /\ windows'[p] = [k \in Keys |-> NotSeen]
      /\ \A q \in Workers \ {p} :
           /\ memory'[q] = memory[q] /\ backend'[q] = backend[q]
           /\ windows'[q] = windows[q]
  BY <1>1, <1>2 DEF TypeOK, MemoryTypeOK
<1>9. OwnCounters'
  BY <1>1, <1>2, <1>8 DEF OwnCounters
<1>10. Dictionaries'
  <2>1. Window(now) \in Nat
    BY <1>2, WindowBounds DEF TypeOK, WindowsTypeOK
  <2> SUFFICES ASSUME NEW q \in Workers, NEW k \in Keys
               PROVE  /\ backend'[q] # "memory" => windows'[q][k] = NotSeen
                      /\ windows'[q][k].window <= Window(now')
                      /\ backend'[q] = "memory" =>
                           /\ windows'[q][k].count =
                                counted'[<<memory'[q], k>>][windows'[q][k].window]
                           /\ \A w \in AllWindows :
                                w > windows'[q][k].window =>
                                  counted'[<<memory'[q], k>>][w] = 0
    BY DEF Dictionaries
  <2>2. CASE q = p
    <3>1. windows'[q][k] = NotSeen /\ NotSeen.window = 0
      BY <1>8, <2>2 DEF NotSeen
    <3> QED BY <1>1, <1>8, <2>1, <2>2, <3>1
  <2>3. CASE q # p
    BY <1>1, <1>2, <1>8, <2>3 DEF Dictionaries
  <2> QED BY <2>2, <2>3
<1> QED BY <1>1, <1>4, <1>5, <1>7, <1>9, <1>10, Untouched DEF LifeInv

-----------------------------------------------------------------------------
(* A check in memory                                                       *)

(* The count of the dictionary is what its counter counted in this window. *)
LEMMA CountIsCounted ==
  ASSUME LifeInv, NEW p \in Workers, NEW k \in Keys, backend[p] = "memory"
  PROVE  /\ Window(now) \in AllWindows /\ memory[p] \in Counters
         /\ Count(p, k) = counted[<<memory[p], k>>][Window(now)]
         /\ Count(p, k) \in Nat
<1>1. Window(now) \in AllWindows /\ memory[p] \in Counters
  BY WindowInModel DEF LifeInv, TypeOK, WindowsTypeOK, MemoryTypeOK
<1>2. /\ windows[p][k].window \in AllWindows /\ windows[p][k].count \in Nat
      /\ counted[<<memory[p], k>>][Window(now)] \in Nat
  BY <1>1 DEF LifeInv, TypeOK, WindowsTypeOK, MemoryTypeOK
<1>3. /\ windows[p][k].window <= Window(now)
      /\ windows[p][k].count = counted[<<memory[p], k>>][windows[p][k].window]
      /\ \A w \in AllWindows :
           w > windows[p][k].window => counted[<<memory[p], k>>][w] = 0
  BY DEF LifeInv, Dictionaries
<1>4. CASE windows[p][k].window = Window(now)
  BY <1>1, <1>2, <1>3, <1>4 DEF Count
<1>5. CASE windows[p][k].window # Window(now)
  <2>1. Window(now) > windows[p][k].window
    BY <1>1, <1>2, <1>3, <1>5, ModelBounds
  <2> QED BY <1>1, <1>2, <1>3, <1>5, <2>1 DEF Count
<1> QED BY <1>4, <1>5

LEMMA CheckInMemoryInv ==
  ASSUME LifeInv, NEW p \in Workers, NEW k \in Keys, backend[p] = "memory",
         CheckInMemory(p, k), UNCHANGED <<redisVars, backend, made, starts>>
  PROVE  LifeInv'
<1> DEFINE c == memory[p]
           w == Window(now)
           n == Count(p, k)
           row == [window |-> w, count |-> n + 1]
<1>1. /\ windows' = [windows EXCEPT ![p][k] = row]
      /\ counted' = Plus(counted, c, k, w)
      /\ IF n + 1 <= Limit[k]
         THEN admitted' = Plus(admitted, c, k, w)
         ELSE admitted' = admitted
      /\ UNCHANGED <<now, memory, entries, redis, calls, backend, made, starts>>
  BY DEF CheckInMemory, CountOne, AdmitOne, Allowed, redisVars, Plus
<1>2. TypeOK /\ OwnCounters /\ Dictionaries /\ EntriesLive /\ CallsRight /\ Handouts
  BY DEF LifeInv
<1>3. w \in AllWindows /\ c \in Counters /\ n = counted[<<c, k>>][w] /\ n \in Nat
  BY CountIsCounted
<1>4. counted \in Tables /\ admitted \in Tables
  BY <1>2 DEF TypeOK, WindowsTypeOK, Tables
<1>5. /\ c # redis /\ c <= made
      /\ \A q \in Workers \ {p} : backend[q] = "memory" => memory[q] # c
  BY <1>2 DEF OwnCounters
<1> HIDE DEF c, w, n
<1>6. /\ counted' \in Tables
      /\ counted'[<<c, k>>][w] = n + 1
      /\ \A d \in Counters, j \in Keys, v \in AllWindows :
           /\ counted[<<d, j>>][v] \in Nat
           /\ counted[<<d, j>>][v] <= counted'[<<d, j>>][v]
           /\ (d # c \/ j # k \/ v # w) =>
                counted'[<<d, j>>][v] = counted[<<d, j>>][v]
  BY <1>1, <1>3, <1>4, OneMore
<1>7. admitted' \in Tables
  <2>1. CASE n + 1 <= Limit[k]
    BY <1>1, <1>3, <1>4, <2>1, OneMore
  <2>2. CASE ~ (n + 1 <= Limit[k])
    BY <1>1, <1>4, <2>2
  <2> QED BY <2>1, <2>2
<1>8. row \in [window : AllWindows, count : Nat]
  BY <1>3
<1>9. /\ row.window = w /\ row.count = n + 1
  OBVIOUS
<1> HIDE DEF row
<1>10. MemoryTypeOK'
  BY <1>1, <1>2, <1>8 DEF TypeOK, MemoryTypeOK
<1>11. /\ windows'[p][k] = row
       /\ \A j \in Keys \ {k} : windows'[p][j] = windows[p][j]
       /\ \A q \in Workers \ {p} : windows'[q] = windows[q]
  BY <1>1, <1>2 DEF TypeOK, MemoryTypeOK
<1>12. TypeOK'
  BY <1>1, <1>2, <1>6, <1>7, <1>10
  DEF TypeOK, WindowsTypeOK, RedisTypeOK, Tables
<1>13. OwnCounters'
  <2>1. \A d \in Counters : d > made => d # c
    BY <1>2, <1>3, <1>5, ModelBounds DEF TypeOK
  <2> QED BY <1>1, <1>2, <1>6, <2>1 DEF OwnCounters
<1>14. Dictionaries'
  <2> SUFFICES ASSUME NEW q \in Workers, NEW j \in Keys
               PROVE  /\ backend'[q] # "memory" => windows'[q][j] = NotSeen
                      /\ windows'[q][j].window <= Window(now')
                      /\ backend'[q] = "memory" =>
                           /\ windows'[q][j].count =
                                counted'[<<memory'[q], j>>][windows'[q][j].window]
                           /\ \A v \in AllWindows :
                                v > windows'[q][j].window =>
                                  counted'[<<memory'[q], j>>][v] = 0
    BY DEF Dictionaries
  <2>1. /\ backend[q] # "memory" => windows[q][j] = NotSeen
        /\ windows[q][j].window <= Window(now)
        /\ backend[q] = "memory" =>
             /\ windows[q][j].count =
                  counted[<<memory[q], j>>][windows[q][j].window]
             /\ \A v \in AllWindows :
                  v > windows[q][j].window => counted[<<memory[q], j>>][v] = 0
    BY <1>2 DEF Dictionaries
  <2>2. windows[q][j].window \in AllWindows /\ memory[q] \in Counters
    BY <1>2 DEF TypeOK, MemoryTypeOK
  <2>3. CASE q = p /\ j = k
    <3>1. windows'[q][j] = row
      BY <1>11, <2>3
    <3>2. w \in Nat /\ w <= Window(now')
      BY <1>1, <1>3, ModelBounds DEF w
    <3>3. \A v \in AllWindows : v > w => v > windows[q][j].window
      <4>1. windows[q][j].window \in Nat /\ windows[q][j].window <= w
        BY <2>1, <2>2, ModelBounds DEF w
      <4>2. \A v \in AllWindows : v \in Nat
        BY ModelBounds
      <4> QED BY <3>2, <4>1, <4>2
    <3>4. memory'[q] = c /\ memory[q] = c /\ backend[q] = "memory" /\ backend' = backend
      BY <1>1, <2>3 DEF c
    <3>5. \A v \in AllWindows : v > w => counted'[<<c, k>>][v] = 0
      <4> SUFFICES ASSUME NEW v \in AllWindows, v > w
                   PROVE  counted'[<<c, k>>][v] = 0
        OBVIOUS
      <4>1. v # w
        BY <3>2, ModelBounds
      <4>2. counted[<<c, k>>][v] = 0
        BY <2>1, <2>3, <3>3, <3>4
      <4> QED BY <1>3, <1>6, <4>1, <4>2
    <3> QED BY <1>6, <1>9, <2>3, <3>1, <3>2, <3>4, <3>5
  <2>4. CASE ~ (q = p /\ j = k)
    <3>1. windows'[q][j] = windows[q][j]
      BY <1>11, <2>4
    <3>2. backend[q] = "memory" =>
            \A v \in AllWindows :
              counted'[<<memory[q], j>>][v] = counted[<<memory[q], j>>][v]
      <4>1. backend[q] = "memory" => memory[q] # c \/ j # k
        BY <1>5, <2>4
      <4> QED BY <1>6, <2>2, <4>1
    <3> QED BY <1>1, <2>1, <2>2, <3>1, <3>2
  <2> QED BY <2>3, <2>4
<1>15. EntriesLive'
  <2>1. redis \in Counters
    BY <1>2 DEF TypeOK, RedisTypeOK
  <2>2. \A j \in Keys, v \in AllWindows :
          counted'[<<redis, j>>][v] = counted[<<redis, j>>][v]
    BY <1>5, <1>6, <2>1
  <2> QED BY <1>1, <1>2, <2>2 DEF EntriesLive
<1>16. CallsRight'
  <2> SUFFICES ASSUME NEW t \in Tasks
               PROVE  /\ calls[t].at \in {"sent", "orphan"} =>
                           /\ calls[t].since <= now
                           /\ now <= calls[t].since + MaxDelay
                           /\ calls[t].window = Window(calls[t].since)
                      /\ calls[t].at = "counted" =>
                           /\ calls[t].window <= Window(now)
                           /\ calls[t].count <=
                                counted'[<<calls[t].counter, calls[t].key>>]
                                        [calls[t].window]
    BY <1>1 DEF CallsRight
  <2>1. CASE calls[t].at = "counted"
    <3>1. /\ calls[t].counter \in Counters /\ calls[t].key \in Keys
          /\ calls[t].window \in AllWindows /\ calls[t].count \in Nat
      BY <1>2, <2>1, BusyCall, CallFields DEF TypeOK
    <3>2. /\ calls[t].window <= Window(now)
          /\ calls[t].count <=
               counted[<<calls[t].counter, calls[t].key>>][calls[t].window]
      BY <1>2, <2>1 DEF CallsRight
    <3> DEFINE a == counted[<<calls[t].counter, calls[t].key>>][calls[t].window]
               b == counted'[<<calls[t].counter, calls[t].key>>][calls[t].window]
    <3>3. a \in Nat /\ a <= b /\ b \in Nat
      BY <1>6, <3>1 DEF Tables
    <3> QED BY <2>1, <3>1, <3>2, <3>3
  <2>2. CASE calls[t].at # "counted"
    BY <1>2, <2>2 DEF CallsRight
  <2> QED BY <2>1, <2>2
<1>17. Handouts'
  <2> SUFFICES ASSUME NEW d \in Counters, NEW j \in Keys, NEW v \in AllWindows
               PROVE  LET out == admitted'[<<d, j>>][v]
                                   + Cardinality(Pending(d, j, v)')
                      IN  out <= counted'[<<d, j>>][v] /\ out <= Limit[j]
    BY DEF Handouts
  <2> DEFINE m == Cardinality(Pending(d, j, v))
  <2>1. Pending(d, j, v)' = Pending(d, j, v)
    BY <1>1 DEF Pending, Due, WithinLimit
  <2>2. m \in Nat
    BY TaskSets DEF Pending
  <2>3. /\ admitted[<<d, j>>][v] + m <= counted[<<d, j>>][v]
        /\ admitted[<<d, j>>][v] + m <= Limit[j]
    BY <1>2 DEF Handouts
  <2>4. /\ admitted[<<d, j>>][v] \in Nat /\ counted[<<d, j>>][v] \in Nat
        /\ Limit[j] \in Nat
    BY <1>4, ModelBounds DEF Tables
  <2> HIDE DEF m
  <2>5. CASE n + 1 <= Limit[k] /\ d = c /\ j = k /\ v = w
    <3>1. admitted'[<<d, j>>][v] = admitted[<<d, j>>][v] + 1
      BY <1>1, <1>3, <1>4, <2>5, OneMore
    <3>2. counted'[<<d, j>>][v] = n + 1 /\ counted[<<d, j>>][v] = n
      BY <1>3, <1>6, <2>5
    <3> QED BY <1>3, <2>1, <2>2, <2>3, <2>4, <2>5, <3>1, <3>2 DEF m
  <2>6. CASE ~ (n + 1 <= Limit[k] /\ d = c /\ j = k /\ v = w)
    <3>1. admitted'[<<d, j>>][v] = admitted[<<d, j>>][v]
      <4>1. CASE n + 1 <= Limit[k]
        BY <1>1, <1>3, <1>4, <2>6, <4>1, OneMore
      <4>2. CASE ~ (n + 1 <= Limit[k])
        BY <1>1, <4>2
      <4> QED BY <4>1, <4>2
    <3>2. counted[<<d, j>>][v] <= counted'[<<d, j>>][v] /\ counted'[<<d, j>>][v] \in Nat
      BY <1>6 DEF Tables
    <3> QED BY <2>1, <2>2, <2>3, <2>4, <3>1, <3>2 DEF m
  <2> QED BY <2>5, <2>6
<1> QED BY <1>12, <1>13, <1>14, <1>15, <1>16, <1>17 DEF LifeInv

-----------------------------------------------------------------------------
(* A check on Redis                                                        *)

LEMMA CheckOnRedisInv ==
  ASSUME LifeInv, NEW t \in Tasks, NEW p \in Workers, NEW k \in Keys,
         CheckOnRedis(t, p, k), UNCHANGED <<memoryVars, backend, made, starts>>
  PROVE  LifeInv'
<1> DEFINE q == [at |-> "sent", process |-> p, key |-> k,
                 window |-> Window(now), since |-> now, count |-> 0,
                 counter |-> 0]
<1>1. /\ calls[t].at = "idle"
      /\ calls' = [calls EXCEPT ![t] = q]
      /\ UNCHANGED <<now, counted, admitted, windows, memory, entries, redis,
                     backend, made, starts>>
  BY DEF CheckOnRedis, historyVars, memoryVars
<1>2. TypeOK /\ CallsRight
  BY DEF LifeInv
<1>3. now \in 0..MaxTime /\ Window(now) \in AllWindows
  BY <1>2, WindowInModel DEF TypeOK, WindowsTypeOK
<1>4. q \in Calls
  BY <1>3, ModelBounds DEF Calls
<1>5. q.at = "sent" /\ q.since = now /\ q.window = Window(now)
  OBVIOUS
<1> HIDE DEF q
<1>6. calls'[t] = q /\ \A u \in Tasks \ {t} : calls'[u] = calls[u]
  BY <1>1, <1>2 DEF TypeOK, RedisTypeOK
<1>7. TypeOK'
  <2>1. RedisTypeOK'
    BY <1>1, <1>2, <1>4 DEF TypeOK, RedisTypeOK
  <2> QED BY <1>1, <1>2, <2>1 DEF TypeOK, WindowsTypeOK, MemoryTypeOK
<1>8. CallsRight'
  <2>1. now <= now /\ now <= now + MaxDelay
    BY <1>3, ModelBounds
  <2> QED BY <1>1, <1>2, <1>5, <1>6, <2>1 DEF CallsRight
<1>9. \A c \in Counters, j \in Keys, w \in AllWindows :
        Pending(c, j, w)' \subseteq Pending(c, j, w)
  BY <1>5, <1>6 DEF Pending, Due, WithinLimit
<1>10. Handouts'
  BY <1>1, <1>9, HandoutsFade DEF historyVars
<1> QED BY <1>1, <1>7, <1>8, <1>10, Untouched DEF LifeInv

(* A pipeline finds the entry of its window alive, so it counts on from    *)
(* what was counted.                                                       *)
LEMMA EntryIsCounted ==
  ASSUME LifeInv, NEW t \in Tasks, calls[t].at \in {"sent", "orphan"}
  PROVE  LET key == <<calls[t].key, calls[t].window>>
         IN  /\ calls[t].key \in Keys /\ calls[t].window \in AllWindows
             /\ calls[t].window <= Window(now)
             /\ calls[t].window * TicksPerWindow <= now
             /\ Entry(key) = counted[<<redis, calls[t].key>>][calls[t].window]
             /\ Entry(key) \in Nat
<1> DEFINE k == calls[t].key
           w == calls[t].window
           since == calls[t].since
           e == entries[<<k, w>>]
<1>1. calls[t] \in CallRecords
  BY BusyCall DEF LifeInv, TypeOK
<1>2. k \in Keys /\ w \in AllWindows /\ w \in Nat /\ since \in Nat
  <2>1. k \in Keys /\ w \in AllWindows /\ since \in 0..MaxTime
    BY <1>1, CallFields
  <2>2. \A v \in AllWindows : v \in Nat
    BY ModelBounds
  <2>3. \A s \in 0..MaxTime : s \in Nat
    BY ModelBounds
  <2> HIDE DEF k, w, since
  <2> QED BY <2>1, <2>2, <2>3
<1>3. since <= now /\ now <= since + MaxDelay /\ w = Window(since) /\ now \in Nat
  <2>1. CallsRight /\ now \in 0..MaxTime
    BY DEF LifeInv, TypeOK, WindowsTypeOK
  <2>2. since <= now /\ now <= since + MaxDelay /\ w = Window(since)
    BY <2>1 DEF CallsRight
  <2> QED BY <2>1, <2>2, ModelBounds
<1>4. e.count \in Nat /\ e.expires \in Nat
  BY <1>2 DEF LifeInv, TypeOK, RedisTypeOK
<1>5. /\ e.count = counted[<<redis, k>>][w]
      /\ e.count > 0 => w * TicksPerWindow + Ttl * TicksPerSecond <= e.expires
  BY <1>2 DEF LifeInv, EntriesLive
<1>6. Entry(<<k, w>>) = IF e.expires > now THEN e.count ELSE 0
  BY DEF Entry
<1>7. /\ w * TicksPerWindow \in Nat /\ w * TicksPerWindow <= since
      /\ since < w * TicksPerWindow + TicksPerWindow
      /\ w <= Window(now)
  BY <1>2, <1>3, WindowBounds, WindowMonotone
<1>8. /\ TicksPerWindow \in Nat /\ Ttl * TicksPerSecond \in Nat /\ MaxDelay \in Nat
      /\ TicksPerWindow + MaxDelay <= Ttl * TicksPerSecond
  BY TickTypes, ModelBounds, RedisAssumption
<1> HIDE DEF k, w, since, e
<1>9. w * TicksPerWindow <= now
  BY <1>2, <1>3, <1>7
<1>10. e.count > 0 => e.expires > now
  BY <1>2, <1>3, <1>4, <1>5, <1>7, <1>8
<1>11. Entry(<<k, w>>) = e.count
  BY <1>4, <1>6, <1>10
<1> QED BY <1>2, <1>4, <1>5, <1>7, <1>9, <1>11 DEF k, w

LEMMA ExecuteInv ==
  ASSUME LifeInv, NEW t \in Tasks, Execute(t),
         UNCHANGED <<memoryVars, backend, made, starts>>
  PROVE  LifeInv'
<1> DEFINE k == calls[t].key
           w == calls[t].window
           n == Entry(<<k, w>>)
           e == [count |-> n + 1, expires |-> Expires]
           z == Told(calls[t], n + 1, redis)
           q == IF calls[t].at = "orphan" THEN NoCall ELSE z
<1>1. /\ calls[t].at \in {"sent", "orphan"}
      /\ entries' = [entries EXCEPT ![<<k, w>>] = e]
      /\ calls' = [calls EXCEPT ![t] = q]
      /\ counted' = Plus(counted, redis, k, w)
      /\ UNCHANGED <<now, admitted, windows, memory, redis, backend, made, starts>>
  <2>1. calls' = [calls EXCEPT ![t] = q]
    BY DEF Execute, RedisKey, Told
  <2> QED BY <2>1 DEF Execute, RedisKey, CountOne, Plus, memoryVars
<1>2. TypeOK /\ OwnCounters /\ Dictionaries /\ EntriesLive /\ CallsRight /\ Handouts
  BY DEF LifeInv
<1>3. /\ k \in Keys /\ w \in AllWindows /\ w <= Window(now)
      /\ w * TicksPerWindow <= now
      /\ n = counted[<<redis, k>>][w] /\ n \in Nat
  BY <1>1, EntryIsCounted
<1>4. calls[t] \in CallRecords /\ redis \in Counters /\ now \in Nat
  BY <1>1, <1>2, BusyCall DEF TypeOK, RedisTypeOK, WindowsTypeOK
<1>5. counted \in Tables /\ admitted \in Tables
  BY <1>2 DEF TypeOK, WindowsTypeOK, Tables
<1>6. /\ z \in CallRecords /\ z.at = "counted" /\ z.count = n + 1
      /\ z.counter = redis /\ z.key = k /\ z.window = w
  <2>1. n + 1 \in Nat
    BY <1>3
  <2> DEFINE m == n + 1
             q0 == calls[t]
             z0 == Told(q0, m, redis)
  <2>2. z0 = z /\ q0.key = k /\ q0.window = w
    OBVIOUS
  <2>3. m \in Nat /\ q0 \in CallRecords
    BY <1>4, <2>1
  <2> HIDE DEF m, q0
  <2>4. /\ z0 \in CallRecords /\ z0.at = "counted" /\ z0.count = m
        /\ z0.counter = redis /\ z0.key = q0.key /\ z0.window = q0.window
    BY <1>4, <2>3, CountedCall
  <2> HIDE DEF z0, z, n, k, w
  <2> QED BY <2>2, <2>4 DEF m
<1>7. e \in [count : Nat, expires : Nat] /\ e.count = n + 1 /\ e.expires = Expires
  BY <1>3, <1>4, ModelBounds, TickTypes DEF Expires
<1> HIDE DEF k, w, n, e, z
<1>8. w * TicksPerWindow + Ttl * TicksPerSecond <= e.expires
  <2>1. \A v \in AllWindows : v \in Nat
    BY ModelBounds
  <2>2. w \in Nat
    BY <1>3, <2>1
  <2>3. w * TicksPerWindow \in Nat
    BY <2>2, TickTypes
  <2>4. Ttl * TicksPerSecond \in Nat
    BY ModelBounds, TickTypes
  <2> DEFINE x == w * TicksPerWindow
             y == Ttl * TicksPerSecond
  <2>5. e.expires = now + y
    BY <1>7 DEF Expires
  <2>6. x \in Nat /\ y \in Nat /\ x <= now
    BY <1>3, <2>3, <2>4
  <2> HIDE DEF x, y
  <2>7. x + y <= e.expires
    BY <1>4, <2>5, <2>6
  <2> QED BY <2>7 DEF x, y
<1>9. /\ counted' \in Tables
      /\ counted'[<<redis, k>>][w] = n + 1
      /\ \A d \in Counters, j \in Keys, v \in AllWindows :
           /\ counted[<<d, j>>][v] \in Nat
           /\ counted[<<d, j>>][v] <= counted'[<<d, j>>][v]
           /\ (d # redis \/ j # k \/ v # w) =>
                counted'[<<d, j>>][v] = counted[<<d, j>>][v]
  BY <1>1, <1>3, <1>4, <1>5, OneMore
<1>10. q \in Calls /\ (q.at # "counted" => q = NoCall) /\ (q.at = "counted" => q = z)
  BY <1>6, CallFields DEF Calls, NoCall
<1> HIDE DEF q
<1>11. calls'[t] = q /\ \A u \in Tasks \ {t} : calls'[u] = calls[u]
  BY <1>1, <1>2 DEF TypeOK, RedisTypeOK
<1>12. TypeOK'
  <2>1. entries' \in [Keys \X AllWindows -> [count : Nat, expires : Nat]]
    BY <1>1, <1>2, <1>3, <1>7 DEF TypeOK, RedisTypeOK
  <2>2. RedisTypeOK'
    BY <1>1, <1>2, <1>10, <2>1 DEF TypeOK, RedisTypeOK
  <2> QED BY <1>1, <1>2, <1>9, <2>2 DEF TypeOK, WindowsTypeOK, MemoryTypeOK, Tables
<1>13. OwnCounters'
  <2>1. \A d \in Counters : d > made => d # redis
    BY <1>2, <1>4, ModelBounds DEF OwnCounters, TypeOK
  <2> QED BY <1>1, <1>2, <1>9, <2>1 DEF OwnCounters
<1>14. Dictionaries'
  <2> SUFFICES ASSUME NEW p \in Workers, NEW j \in Keys
               PROVE  /\ backend'[p] # "memory" => windows'[p][j] = NotSeen
                      /\ windows'[p][j].window <= Window(now')
                      /\ backend'[p] = "memory" =>
                           /\ windows'[p][j].count =
                                counted'[<<memory'[p], j>>][windows'[p][j].window]
                           /\ \A v \in AllWindows :
                                v > windows'[p][j].window =>
                                  counted'[<<memory'[p], j>>][v] = 0
    BY DEF Dictionaries
  <2>1. windows[p][j].window \in AllWindows /\ memory[p] \in Counters
    BY <1>2 DEF TypeOK, MemoryTypeOK
  <2>2. backend[p] = "memory" =>
          \A v \in AllWindows :
            counted'[<<memory[p], j>>][v] = counted[<<memory[p], j>>][v]
    BY <1>2, <1>9, <2>1 DEF OwnCounters
  <2> QED BY <1>1, <1>2, <2>1, <2>2 DEF Dictionaries
<1>15. EntriesLive'
  <2> SUFFICES ASSUME NEW j \in Keys, NEW v \in AllWindows
               PROVE  /\ entries'[<<j, v>>].count = counted'[<<redis, j>>][v]
                      /\ entries'[<<j, v>>].count > 0 =>
                           v * TicksPerWindow + Ttl * TicksPerSecond
                             <= entries'[<<j, v>>].expires
    BY <1>1 DEF EntriesLive
  <2>1. CASE j = k /\ v = w
    <3>1. entries'[<<j, v>>] = e
      BY <1>1, <1>2, <1>3, <2>1 DEF TypeOK, RedisTypeOK
    <3> QED BY <1>7, <1>8, <1>9, <2>1, <3>1
  <2>2. CASE ~ (j = k /\ v = w)
    <3>1. <<j, v>> # <<k, w>> /\ <<j, v>> \in Keys \X AllWindows
      BY <2>2
    <3>2. entries'[<<j, v>>] = entries[<<j, v>>]
      BY <1>1, <1>2, <3>1 DEF TypeOK, RedisTypeOK
    <3>3. counted'[<<redis, j>>][v] = counted[<<redis, j>>][v]
      BY <1>4, <1>9, <2>2
    <3> QED BY <1>2, <3>2, <3>3 DEF EntriesLive
  <2> QED BY <2>1, <2>2
<1>16. CallsRight'
  <2> SUFFICES ASSUME NEW u \in Tasks
               PROVE  /\ calls'[u].at \in {"sent", "orphan"} =>
                           /\ calls'[u].since <= now
                           /\ now <= calls'[u].since + MaxDelay
                           /\ calls'[u].window = Window(calls'[u].since)
                      /\ calls'[u].at = "counted" =>
                           /\ calls'[u].window <= Window(now)
                           /\ calls'[u].count <=
                                counted'[<<calls'[u].counter, calls'[u].key>>]
                                        [calls'[u].window]
    BY <1>1 DEF CallsRight
  <2>1. CASE u = t
    <3>1. CASE q.at = "counted"
      <4>1. n + 1 <= counted'[<<redis, k>>][w]
        BY <1>3, <1>9
      <4> QED BY <1>3, <1>6, <1>10, <1>11, <2>1, <3>1, <4>1
    <3>2. CASE q.at # "counted"
      <4>1. calls'[u].at = "idle"
        BY <1>10, <1>11, <2>1, <3>2 DEF NoCall
      <4> QED BY <4>1
    <3> QED BY <3>1, <3>2
  <2>2. CASE u # t /\ calls[u].at = "counted"
    <3>1. /\ calls[u].counter \in Counters /\ calls[u].key \in Keys
          /\ calls[u].window \in AllWindows /\ calls[u].count \in Nat
      BY <1>2, <2>2, BusyCall, CallFields DEF TypeOK
    <3>2. /\ calls[u].window <= Window(now)
          /\ calls[u].count <=
               counted[<<calls[u].counter, calls[u].key>>][calls[u].window]
      BY <1>2, <2>2 DEF CallsRight
    <3> DEFINE a == counted[<<calls[u].counter, calls[u].key>>][calls[u].window]
               b == counted'[<<calls[u].counter, calls[u].key>>][calls[u].window]
    <3>3. a \in Nat /\ a <= b /\ b \in Nat
      BY <1>9, <3>1 DEF Tables
    <3>4. calls[u].count <= b
      BY <3>1, <3>2, <3>3
    <3> QED BY <1>11, <2>2, <3>2, <3>4
  <2>3. CASE u # t /\ calls[u].at # "counted"
    BY <1>2, <1>11, <2>3 DEF CallsRight
  <2> QED BY <2>1, <2>2, <2>3
<1>17. Handouts'
  <2> SUFFICES ASSUME NEW d \in Counters, NEW j \in Keys, NEW v \in AllWindows
               PROVE  LET out == admitted'[<<d, j>>][v]
                                   + Cardinality(Pending(d, j, v)')
                      IN  out <= counted'[<<d, j>>][v] /\ out <= Limit[j]
    BY DEF Handouts
  <2> DEFINE m == Cardinality(Pending(d, j, v))
             o == Cardinality(Pending(d, j, v)')
             a == admitted[<<d, j>>][v]
             b == counted[<<d, j>>][v]
  <2>1. m \in Nat /\ o \in Nat
    BY TaskSets DEF Pending
  <2>2. a + m <= b /\ a + m <= Limit[j]
    BY <1>2 DEF Handouts
  <2>3. a \in Nat /\ b \in Nat /\ Limit[j] \in Nat /\ admitted' = admitted
    BY <1>1, <1>5, ModelBounds DEF Tables
  <2>4. t \notin Pending(d, j, v)
    BY <1>1 DEF Pending, Due
  <2>5. \A u \in Tasks \ {t} : Due(u, d, j, v)' <=> Due(u, d, j, v)
    BY <1>11 DEF Due, WithinLimit
  <2>6. CASE Due(t, d, j, v)'
    <3>1. q.at = "counted" /\ q = z
      BY <1>10, <1>11, <2>6 DEF Due
    <3>2. d = redis /\ j = k /\ v = w
      BY <1>6, <1>11, <2>6, <3>1 DEF Due
    <3>3. n + 1 <= Limit[j]
      BY <1>6, <1>11, <2>6, <3>1, <3>2 DEF Due, WithinLimit
    <3>4. Pending(d, j, v)' \subseteq Pending(d, j, v) \cup {t}
      BY <2>5 DEF Pending
    <3>5. o <= m + 1
      <4>1. Pending(d, j, v) \subseteq Tasks
        BY DEF Pending
      <4> QED BY <3>4, <4>1, TaskAdded
    <3>6. b = n /\ counted'[<<d, j>>][v] = n + 1
      BY <1>3, <1>9, <3>2
    <3> HIDE DEF m, o, a, b
    <3>7. a + o <= n + 1 /\ a + o <= Limit[j]
      BY <1>3, <2>1, <2>2, <2>3, <3>3, <3>5, <3>6
    <3> QED BY <2>3, <3>6, <3>7 DEF o, a
  <2>7. CASE ~ Due(t, d, j, v)'
    <3>1. Pending(d, j, v)' \subseteq Pending(d, j, v)
      BY <2>5, <2>7 DEF Pending
    <3>2. o <= m
      <4>1. Pending(d, j, v) \subseteq Tasks
        BY DEF Pending
      <4> QED BY <3>1, <4>1, TaskSubset
    <3>3. b <= counted'[<<d, j>>][v] /\ counted'[<<d, j>>][v] \in Nat
      BY <1>9 DEF Tables
    <3> HIDE DEF m, o, a, b
    <3>4. a + o <= counted'[<<d, j>>][v] /\ a + o <= Limit[j]
      BY <2>1, <2>2, <2>3, <3>2, <3>3
    <3> QED BY <2>3, <3>4 DEF o, a
  <2> QED BY <2>6, <2>7
<1> QED BY <1>12, <1>13, <1>14, <1>15, <1>16, <1>17 DEF LifeInv

-----------------------------------------------------------------------------
(* The answers of Redis                                                    *)

(* A request counted within the limit goes from those due to those         *)
(* admitted.                                                               *)
LEMMA AllowInv ==
  ASSUME LifeInv, NEW t \in Tasks, Allow(t),
         UNCHANGED <<memoryVars, backend, made, starts>>
  PROVE  LifeInv'
<1> DEFINE c == calls[t].counter
           k == calls[t].key
           w == calls[t].window
<1>1. /\ calls[t].at = "counted" /\ WithinLimit(t)
      /\ admitted' = Plus(admitted, c, k, w)
      /\ calls' = [calls EXCEPT ![t] = NoCall]
      /\ UNCHANGED <<now, counted, windows, memory, entries, redis, backend,
                     made, starts>>
  BY DEF Allow, AdmitOne, EndCall, Plus, memoryVars
<1>2. TypeOK /\ Handouts
  BY DEF LifeInv
<1>3. c \in Counters /\ k \in Keys /\ w \in AllWindows
  BY <1>1, <1>2, BusyCall, CallFields DEF TypeOK
<1>4. counted \in Tables /\ admitted \in Tables
  BY <1>2 DEF TypeOK, WindowsTypeOK, Tables
<1>5. Due(t, c, k, w)
  BY <1>1 DEF Due
<1>6. \A d, j, v : Due(t, d, j, v) => d = c /\ j = k /\ v = w
  BY DEF Due
<1> HIDE DEF c, k, w
<1>7. /\ admitted' \in Tables
      /\ admitted'[<<c, k>>][w] = admitted[<<c, k>>][w] + 1
      /\ \A d \in Counters, j \in Keys, v \in AllWindows :
           /\ admitted[<<d, j>>][v] \in Nat
           /\ (d # c \/ j # k \/ v # w) =>
                admitted'[<<d, j>>][v] = admitted[<<d, j>>][v]
  BY <1>1, <1>3, <1>4, OneMore
<1>8. calls'[t] = NoCall /\ \A u \in Tasks \ {t} : calls'[u] = calls[u]
  BY <1>1, <1>2 DEF TypeOK, RedisTypeOK
<1>9. /\ \A u \in Tasks : calls'[u] \in Calls
      /\ CallsRight'
      /\ \A d \in Counters, j \in Keys, v \in AllWindows :
           Pending(d, j, v)' \subseteq Pending(d, j, v)
  BY <1>1, <1>8, CallsFade
<1>10. TypeOK'
  <2>1. RedisTypeOK'
    BY <1>1, <1>2, <1>9 DEF TypeOK, RedisTypeOK
  <2> QED BY <1>1, <1>2, <1>7, <2>1 DEF TypeOK, WindowsTypeOK, MemoryTypeOK, Tables
<1>11. Handouts'
  <2> SUFFICES ASSUME NEW d \in Counters, NEW j \in Keys, NEW v \in AllWindows
               PROVE  LET out == admitted'[<<d, j>>][v]
                                   + Cardinality(Pending(d, j, v)')
                      IN  out <= counted'[<<d, j>>][v] /\ out <= Limit[j]
    BY DEF Handouts
  <2> DEFINE m == Cardinality(Pending(d, j, v))
             o == Cardinality(Pending(d, j, v)')
             a == admitted[<<d, j>>][v]
             b == counted[<<d, j>>][v]
  <2>1. Pending(d, j, v) \subseteq Tasks /\ Pending(d, j, v)' \subseteq Pending(d, j, v)
    BY <1>9 DEF Pending
  <2>2. m \in Nat /\ o \in Nat /\ o <= m
    BY <2>1, TaskSets, TaskSubset
  <2>3. a + m <= b /\ a + m <= Limit[j]
    BY <1>2 DEF Handouts
  <2>4. a \in Nat /\ b \in Nat /\ Limit[j] \in Nat
    BY <1>4, ModelBounds DEF Tables
  <2>5. counted'[<<d, j>>][v] = b
    BY <1>1
  <2>6. CASE d = c /\ j = k /\ v = w
    <3>1. t \in Pending(d, j, v)
      BY <1>5, <2>6 DEF Pending
    <3>2. t \notin Pending(d, j, v)'
      BY <1>8 DEF Pending, Due, NoCall
    <3>3. o + 1 <= m
      BY <2>1, <3>1, <3>2, TaskRemoved
    <3>4. admitted'[<<d, j>>][v] = a + 1
      BY <1>7, <2>6
    <3> HIDE DEF m, o, a, b
    <3>5. a + 1 + o <= b /\ a + 1 + o <= Limit[j]
      BY <2>2, <2>3, <2>4, <3>3
    <3> QED BY <2>5, <3>4, <3>5 DEF o
  <2>7. CASE ~ (d = c /\ j = k /\ v = w)
    <3>1. admitted'[<<d, j>>][v] = a
      BY <1>7, <2>7
    <3> HIDE DEF m, o, a, b
    <3>2. a + o <= b /\ a + o <= Limit[j]
      BY <2>2, <2>3, <2>4
    <3> QED BY <2>5, <3>1, <3>2 DEF o
  <2> QED BY <2>6, <2>7
<1> QED BY <1>1, <1>9, <1>10, <1>11, Untouched DEF LifeInv

(* Refuse and Fail: a call ends and nothing else changes.                  *)
LEMMA EndCallInv ==
  ASSUME LifeInv, NEW t \in Tasks, EndCall(t),
         UNCHANGED <<now, historyVars, entries, redis, memoryVars, backend,
                     made, starts>>
  PROVE  LifeInv'
<1>1. /\ calls' = [calls EXCEPT ![t] = NoCall]
      /\ UNCHANGED <<now, counted, admitted, windows, memory, entries, redis,
                     backend, made, starts>>
  BY DEF EndCall, historyVars, memoryVars
<1>2. TypeOK
  BY DEF LifeInv
<1>3. calls'[t] = NoCall /\ \A u \in Tasks \ {t} : calls'[u] = calls[u]
  BY <1>1, <1>2 DEF TypeOK, RedisTypeOK
<1>4. /\ \A u \in Tasks : calls'[u] \in Calls
      /\ CallsRight'
      /\ \A c \in Counters, k \in Keys, w \in AllWindows :
           Pending(c, k, w)' \subseteq Pending(c, k, w)
  BY <1>1, <1>3, CallsFade
<1>5. Handouts'
  BY <1>1, <1>4, HandoutsFade DEF historyVars
<1>6. RedisTypeOK'
  BY <1>1, <1>2, <1>4 DEF TypeOK, RedisTypeOK
<1>7. TypeOK'
  BY <1>1, <1>2, <1>6 DEF TypeOK, WindowsTypeOK, MemoryTypeOK
<1> QED BY <1>1, <1>4, <1>5, <1>7, Untouched DEF LifeInv

-----------------------------------------------------------------------------
(* Redis and the clock                                                     *)

LEMMA RedisRestartInv ==
  ASSUME LifeInv, RedisRestart
  PROVE  LifeInv'
<1> DEFINE c == made + 1
<1>1. /\ made < MaxCounters /\ CountStart
      /\ made' = c
      /\ entries' = [key \in Keys \X AllWindows |-> NoEntry]
      /\ redis' = c
      /\ UNCHANGED <<now, counted, admitted, windows, memory, calls, backend>>
  BY DEF RedisRestart, ForgetEntries, historyVars, memoryVars
<1>2. TypeOK /\ OwnCounters
  BY DEF LifeInv
<1>3. made \in Nat /\ c \in Counters /\ c > made /\ c \in Nat
  BY <1>1, <1>2, ModelBounds DEF TypeOK, Counters
<1>4. \A q \in Workers : memory[q] \in Nat
  BY <1>2, ModelBounds DEF TypeOK, MemoryTypeOK
<1>5. \A d \in Counters : d \in Nat
  BY ModelBounds
<1>6. TypeOK'
  <2>1. NoEntry \in [count : Nat, expires : Nat]
    BY DEF NoEntry
  <2>2. RedisTypeOK'
    BY <1>1, <1>2, <1>3, <2>1 DEF TypeOK, RedisTypeOK
  <2>3. starts' \in [AllWindows -> Nat]
    BY <1>1, <1>2, StartCounted
  <2> QED BY <1>1, <1>2, <1>3, <2>2, <2>3 DEF TypeOK, WindowsTypeOK, MemoryTypeOK
<1> HIDE DEF c
<1>7. OwnCounters'
  <2>1. redis' <= made'
    BY <1>1, <1>3
  <2>2. ASSUME NEW q \in Workers, backend[q] = "memory"
        PROVE  /\ memory[q] <= c /\ memory[q] # c
               /\ \A o \in Workers \ {q} :
                    backend[o] = "memory" => memory[o] # memory[q]
    <3>1. memory[q] <= made
      BY <1>2, <2>2 DEF OwnCounters
    <3> QED BY <1>2, <1>3, <1>4, <2>2, <3>1 DEF OwnCounters
  <2>3. ASSUME NEW d \in Counters, NEW k \in Keys, NEW w \in AllWindows, d > c
        PROVE  counted[<<d, k>>][w] = 0
    <3>1. d > made
      BY <1>3, <1>5, <2>3
    <3> QED BY <1>2, <3>1 DEF OwnCounters
  <2> QED BY <1>1, <2>1, <2>2, <2>3 DEF OwnCounters
<1>8. EntriesLive'
  <2>1. ASSUME NEW k \in Keys, NEW w \in AllWindows
        PROVE  entries'[<<k, w>>].count = 0 /\ counted'[<<c, k>>][w] = 0
    BY <1>1, <1>2, <1>3 DEF NoEntry, OwnCounters
  <2>2. ASSUME NEW k \in Keys, NEW w \in AllWindows
        PROVE  /\ entries'[<<k, w>>].count = counted'[<<redis', k>>][w]
               /\ ~ (entries'[<<k, w>>].count > 0)
    BY <1>1, <2>1
  <2> QED BY <2>2 DEF EntriesLive
<1> QED BY <1>1, <1>6, <1>7, <1>8, Untouched DEF LifeInv

LEMMA TickInv ==
  ASSUME LifeInv, Tick
  PROVE  LifeInv'
<1>1. /\ now < MaxTime /\ NoPipelineOverdue /\ now' = now + 1
      /\ UNCHANGED <<counted, admitted, windows, memory, entries, redis, calls,
                     backend, made, starts>>
  BY DEF Tick, historyVars, memoryVars, redisVars
<1>2. TypeOK /\ Dictionaries /\ CallsRight
  BY DEF LifeInv
<1>3. now \in Nat /\ now' \in 0..MaxTime /\ now <= now'
  BY <1>1, <1>2, ModelBounds DEF TypeOK, WindowsTypeOK
<1>4. /\ Window(now) \in Nat /\ Window(now') \in Nat
      /\ Window(now) <= Window(now')
  BY <1>1, <1>3, WindowBounds, WindowMonotone
<1>5. \A w \in AllWindows : w \in Nat
  BY ModelBounds
<1>6. TypeOK'
  BY <1>1, <1>2, <1>3 DEF TypeOK, WindowsTypeOK, MemoryTypeOK, RedisTypeOK
<1>7. Dictionaries'
  <2>1. ASSUME NEW p \in Workers, NEW k \in Keys
        PROVE  windows[p][k].window <= Window(now')
    <3>1. windows[p][k].window \in AllWindows
      BY <1>2 DEF TypeOK, MemoryTypeOK
    <3>2. windows[p][k].window \in Nat
      BY <1>5, <3>1
    <3>3. windows[p][k].window <= Window(now)
      BY <1>2 DEF Dictionaries
    <3> QED BY <1>4, <3>2, <3>3
  <2> QED BY <1>1, <1>2, <2>1 DEF Dictionaries
<1>8. CallsRight'
  <2> SUFFICES ASSUME NEW t \in Tasks
               PROVE  /\ calls[t].at \in {"sent", "orphan"} =>
                           /\ calls[t].since <= now'
                           /\ now' <= calls[t].since + MaxDelay
                           /\ calls[t].window = Window(calls[t].since)
                      /\ calls[t].at = "counted" =>
                           /\ calls[t].window <= Window(now')
                           /\ calls[t].count <=
                                counted[<<calls[t].counter, calls[t].key>>]
                                       [calls[t].window]
    BY <1>1 DEF CallsRight
  <2>1. CASE calls[t].at \in {"sent", "orphan"}
    <3>1. calls[t].since \in 0..MaxTime
      BY <1>2, <2>1, BusyCall, CallFields DEF TypeOK
    <3>2. calls[t].since \in Nat /\ MaxDelay \in Nat
      BY <3>1, ModelBounds
    <3>3. now < calls[t].since + MaxDelay
      BY <1>1, <2>1 DEF NoPipelineOverdue
    <3>4. /\ calls[t].since <= now
          /\ calls[t].window = Window(calls[t].since)
      BY <1>2, <2>1 DEF CallsRight
    <3>5. calls[t].since <= now' /\ now' <= calls[t].since + MaxDelay
      BY <1>1, <1>3, <3>2, <3>3, <3>4
    <3> QED BY <2>1, <3>4, <3>5
  <2>2. CASE calls[t].at = "counted"
    <3>1. calls[t].window \in AllWindows
      BY <1>2, <2>2, BusyCall, CallFields DEF TypeOK
    <3>2. calls[t].window \in Nat
      BY <1>5, <3>1
    <3>3. /\ calls[t].window <= Window(now)
          /\ calls[t].count <=
               counted[<<calls[t].counter, calls[t].key>>][calls[t].window]
      BY <1>2, <2>2 DEF CallsRight
    <3>4. calls[t].window <= Window(now')
      BY <1>4, <3>2, <3>3
    <3> QED BY <2>2, <3>3, <3>4
  <2> QED BY <2>1, <2>2
<1> QED BY <1>1, <1>6, <1>7, <1>8, Untouched DEF LifeInv

-----------------------------------------------------------------------------
(* Every step, and the theorems                                            *)

LEMMA LifeInvStep == LifeInv /\ [Next]_vars => LifeInv'
<1> SUFFICES ASSUME LifeInv, [Next]_vars
             PROVE  LifeInv'
  OBVIOUS
<1>1. ASSUME NEW p \in Workers, StartupInMemory(p)
      PROVE  LifeInv'
  BY <1>1, StartupInMemoryInv
<1>2. ASSUME NEW p \in Workers, StartupOnRedis(p)
      PROVE  LifeInv'
  BY <1>2, StartupOnRedisInv
<1>3. ASSUME NEW p \in Workers, Shutdown(p)
      PROVE  LifeInv'
  BY <1>3, ShutdownInv
<1>4. ASSUME NEW p \in Workers, NEW k \in Keys, Check(p, k)
      PROVE  LifeInv'
  BY <1>4, CheckInMemoryInv, CheckOnRedisInv DEF Check
<1>5. ASSUME NEW t \in Tasks, Answer(t)
      PROVE  LifeInv'
  <2>1. CASE Execute(t)
    BY <1>5, <2>1, ExecuteInv DEF Answer
  <2>2. CASE Allow(t)
    BY <1>5, <2>2, AllowInv DEF Answer
  <2>3. CASE Refuse(t)
    BY <1>5, <2>3, EndCallInv DEF Answer, Refuse
  <2>4. CASE Fail(t)
    BY <1>5, <2>4, EndCallInv DEF Answer, Fail
  <2> QED BY <1>5, <2>1, <2>2, <2>3, <2>4 DEF Answer
<1>6. CASE RedisRestart
  BY <1>6, RedisRestartInv
<1>7. CASE Tick
  BY <1>7, TickInv
<1>8. CASE UNCHANGED vars
  <2>1. UNCHANGED <<now, counted, admitted, windows, memory, entries, redis,
                    calls, backend, made, starts>>
    BY <1>8 DEF vars, historyVars, memoryVars, redisVars
  <2>2. TypeOK'
    BY <2>1 DEF LifeInv, TypeOK, WindowsTypeOK, MemoryTypeOK, RedisTypeOK
  <2> QED BY <2>1, <2>2, Untouched DEF LifeInv
<1> QED BY <1>1, <1>2, <1>3, <1>4, <1>5, <1>6, <1>7, <1>8 DEF Next

LEMMA LifeInvAlways == Spec => []LifeInv
<1> QED BY InitInv, LifeInvStep, PTL DEF Spec

(* The types of the limiters, of their counters and of the processes.      *)
THEOREM LimitersTyped == Spec => []TypeOK
<1>1. LifeInv => TypeOK
  BY DEF LifeInv
<1> QED BY <1>1, LifeInvAlways, PTL

(* A refusal of either limiter stands for Limit other requests of the key  *)
(* that its counter counted in the window of the refused one.              *)
THEOREM RefusalsAreDeserved == Spec => []RefusedOnlyWhenFull
<1>1. ASSUME LifeInv
      PROVE  RefusedOnlyWhenFull
  <2> USE <1>1
  <2>1. ASSUME NEW p \in Workers, NEW k \in Keys,
               windows[p][k].count > Limit[k]
        PROVE  counted[<<memory[p], k>>][windows[p][k].window] > Limit[k]
    <3>1. Limit[k] \in Nat
      BY ModelBounds
    <3>2. windows[p][k] # NotSeen
      BY <2>1, <3>1 DEF NotSeen
    <3> QED BY <2>1, <3>2 DEF LifeInv, Dictionaries
  <2>2. ASSUME NEW t \in Tasks, calls[t].at = "counted", ~ WithinLimit(t)
        PROVE  counted[<<calls[t].counter, calls[t].key>>][calls[t].window]
                 > Limit[calls[t].key]
    <3>1. /\ calls[t].counter \in Counters /\ calls[t].key \in Keys
          /\ calls[t].window \in AllWindows /\ calls[t].count \in Nat
      BY <2>2, BusyCall, CallFields DEF LifeInv, TypeOK
    <3>2. calls[t].count <=
            counted[<<calls[t].counter, calls[t].key>>][calls[t].window]
      BY <2>2 DEF LifeInv, CallsRight
    <3>3. Limit[calls[t].key] \in Nat
      BY <3>1, ModelBounds
    <3>4. counted[<<calls[t].counter, calls[t].key>>][calls[t].window] \in Nat
      BY <3>1 DEF LifeInv, TypeOK, WindowsTypeOK
    <3>5. calls[t].count > Limit[calls[t].key]
      BY <2>2, <3>1, <3>3 DEF WithinLimit
    <3> QED BY <3>1, <3>2, <3>3, <3>4, <3>5
  <2> QED BY <2>1, <2>2 DEF RefusedOnlyWhenFull
<1> QED BY <1>1, LifeInvAlways, PTL

(* Who waits what Retry-After says is in the next window, and could not    *)
(* have been there a second earlier.                                       *)
THEOREM RetryIsRight == Spec => []RetryReachesNextWindow
<1>1. ASSUME LifeInv
      PROVE  RetryReachesNextWindow
  <2>1. now \in Nat
    BY <1>1, ModelBounds DEF LifeInv, TypeOK, WindowsTypeOK
  <2> QED BY <2>1, ResetReaches DEF RetryReachesNextWindow
<1> QED BY <1>1, LifeInvAlways, PTL

(* What was counted below the limit was admitted below it.                 *)
LEMMA BelowLimit ==
  ASSUME LifeInv, NEW c \in Counters, NEW k \in Keys, NEW w \in AllWindows,
         counted[<<c, k>>][w] + 1 <= Limit[k]
  PROVE  admitted[<<c, k>>][w] < Limit[k]
<1>1. Cardinality(Pending(c, k, w)) \in Nat
  BY TaskSets DEF Pending
<1>2. admitted[<<c, k>>][w] + Cardinality(Pending(c, k, w)) <= counted[<<c, k>>][w]
  BY DEF LifeInv, Handouts
<1>3. /\ admitted[<<c, k>>][w] \in Nat /\ counted[<<c, k>>][w] \in Nat
      /\ Limit[k] \in Nat
  BY ModelBounds DEF LifeInv, TypeOK, WindowsTypeOK
<1> QED BY <1>1, <1>2, <1>3

(* Somebody who is due leaves room for himself.                            *)
LEMMA DueBelowLimit ==
  ASSUME LifeInv, NEW c \in Counters, NEW k \in Keys, NEW w \in AllWindows,
         NEW t \in Pending(c, k, w)
  PROVE  admitted[<<c, k>>][w] < Limit[k]
<1>1. Pending(c, k, w) \subseteq Tasks /\ {} \subseteq Tasks
  BY DEF Pending
<1>2. Cardinality({}) = 0 /\ Cardinality(Pending(c, k, w)) \in Nat
  BY <1>1, TaskSets, FS_EmptySet
<1>3. Cardinality({}) + 1 <= Cardinality(Pending(c, k, w))
  BY <1>1, TaskRemoved
<1>4. admitted[<<c, k>>][w] + Cardinality(Pending(c, k, w)) <= Limit[k]
  BY DEF LifeInv, Handouts
<1>5. admitted[<<c, k>>][w] \in Nat /\ Limit[k] \in Nat
  BY ModelBounds DEF LifeInv, TypeOK, WindowsTypeOK
<1> QED BY <1>2, <1>3, <1>4, <1>5

(* An admission below the limit is one of the abstract window.             *)
LEMMA AdmitStep ==
  ASSUME LifeInv, NEW c \in Counters, NEW k \in Keys, NEW w \in AllWindows,
         w <= Window(now), admitted[<<c, k>>][w] < Limit[k],
         admitted' = [admitted EXCEPT ![<<c, k>>][w] = @ + 1], now' = now
  PROVE  FW!WindowNext
<1>1. <<c, k>> \in Counters \X Keys
  OBVIOUS
<1>2. [ck \in Counters \X Keys |-> Limit[ck[2]]][<<c, k>>] = Limit[k]
  BY <1>1
<1>3. FW!Admit(<<c, k>>, w)
  BY <1>2 DEF FW!Admit
<1> QED BY <1>1, <1>3 DEF FW!WindowNext

(* The limiters, of whatever kind in whatever process, implement one fixed *)
(* window for each counter.                                                *)
THEOREM LimitersImplementFixedWindow == Spec => ImplementsFixedWindow
<1>1. Init => FW!WindowInit
  <2> SUFFICES ASSUME Init
               PROVE  FW!WindowInit
    OBVIOUS
  <2>1. Window(0) = 0
    <3>1. 0 * TicksPerWindow = 0 /\ 0 < 0 * TicksPerWindow + TicksPerWindow
      BY TickTypes
    <3> QED BY <3>1, WindowIs
  <2> QED BY <2>1 DEF Init, WindowsInit, FW!WindowInit
<1>2. LifeInv /\ [Next]_vars => [FW!WindowNext]_(FW!windowVars)
  <2> SUFFICES ASSUME LifeInv, [Next]_vars
               PROVE  FW!WindowNext \/ UNCHANGED FW!windowVars
    OBVIOUS
  <2>1. ASSUME NEW p \in Workers, NEW k \in Keys, backend[p] = "memory",
               CheckInMemory(p, k)
        PROVE  FW!WindowNext \/ UNCHANGED FW!windowVars
    <3> DEFINE c == memory[p]
               w == Window(now)
    <3>1. /\ w \in AllWindows /\ c \in Counters
          /\ Count(p, k) = counted[<<c, k>>][w] /\ Count(p, k) \in Nat
      BY <2>1, CountIsCounted
    <3>2. CASE Allowed(p, k)
      <4>1. admitted' = [admitted EXCEPT ![<<c, k>>][w] = @ + 1] /\ now' = now
        BY <2>1, <3>2 DEF CheckInMemory, AdmitOne
      <4>2. admitted[<<c, k>>][w] < Limit[k]
        BY <3>1, <3>2, BelowLimit DEF Allowed
      <4>3. w <= Window(now)
        <5>1. now \in Nat
          BY ModelBounds DEF LifeInv, TypeOK, WindowsTypeOK
        <5>2. Window(now) \in Nat
          BY <5>1, WindowBounds
        <5> QED BY <5>2
      <4> HIDE DEF c, w
      <4> QED BY <3>1, <4>1, <4>2, <4>3, AdmitStep
    <3>3. CASE ~ Allowed(p, k)
      BY <2>1, <3>3 DEF CheckInMemory, FW!windowVars
    <3> QED BY <3>2, <3>3
  <2>2. ASSUME NEW t \in Tasks, Allow(t)
        PROVE  FW!WindowNext \/ UNCHANGED FW!windowVars
    <3> DEFINE c == calls[t].counter
               k == calls[t].key
               w == calls[t].window
    <3>1. c \in Counters /\ k \in Keys /\ w \in AllWindows
      BY <2>2, BusyCall, CallFields DEF Allow, LifeInv, TypeOK
    <3>2. w <= Window(now)
      BY <2>2 DEF Allow, LifeInv, CallsRight
    <3>3. admitted' = [admitted EXCEPT ![<<c, k>>][w] = @ + 1] /\ now' = now
      BY <2>2 DEF Allow, AdmitOne
    <3>4. t \in Pending(c, k, w)
      BY <2>2 DEF Allow, Pending, Due
    <3> HIDE DEF c, k, w
    <3>5. admitted[<<c, k>>][w] < Limit[k]
      BY <3>1, <3>4, DueBelowLimit
    <3> QED BY <3>1, <3>2, <3>3, <3>5, AdmitStep
  <2>3. CASE Tick
    <3>1. now < MaxTime /\ now' = now + 1 /\ UNCHANGED admitted
      BY <2>3 DEF Tick, historyVars
    <3>2. now \in Nat /\ now' \in 0..MaxTime
      BY <3>1, ModelBounds DEF LifeInv, TypeOK, WindowsTypeOK
    <3>3. Window(now') = Window(now) \/ Window(now') = Window(now) + 1
      BY <3>1, <3>2, NextTick
    <3>4. Window(now') \in AllWindows
      BY <3>2, WindowInModel
    <3> QED BY <3>1, <3>3, <3>4 DEF FW!WindowNext, FW!NextWindow, FW!windowVars
  <2>4. CASE UNCHANGED <<now, admitted>>
    BY <2>4 DEF FW!windowVars
  <2>5. ASSUME NEW t \in Tasks, Execute(t) \/ Refuse(t) \/ Fail(t)
        PROVE  UNCHANGED <<now, admitted>>
    BY <2>5 DEF Execute, Refuse, Fail, historyVars
  <2>6. ASSUME NEW p \in Workers,
               \/ StartupInMemory(p) \/ StartupOnRedis(p) \/ Shutdown(p)
        PROVE  UNCHANGED <<now, admitted>>
    BY <2>6 DEF StartupInMemory, StartupOnRedis, Shutdown, historyVars
  <2>7. ASSUME NEW p \in Workers, NEW k \in Keys, NEW t \in Tasks,
               CheckOnRedis(t, p, k)
        PROVE  UNCHANGED <<now, admitted>>
    BY <2>7 DEF CheckOnRedis, historyVars
  <2>8. CASE RedisRestart \/ UNCHANGED vars
    BY <2>4, <2>8 DEF RedisRestart, vars, historyVars
  <2> QED BY <2>1, <2>2, <2>3, <2>4, <2>5, <2>6, <2>7, <2>8 DEF Next, Check, Answer
<1> QED BY <1>1, <1>2, LifeInvAlways, PTL DEF Spec, ImplementsFixedWindow, FW!WindowSpec

-----------------------------------------------------------------------------
(* The bound of a deployment                                               *)

(* The counters that counted a request of window w.                        *)
Used(w) == {c \in Counters : \E k \in Keys : counted[<<c, k>>][w] > 0}

(* A pipeline of a request of window w is under way.                       *)
Underway(w) ==
  \E t \in Tasks : calls[t].at \in {"sent", "orphan"} /\ calls[t].window = w

(* The counters that may still count one.                                  *)
OnDictionary == {p \in Workers : backend[p] = "memory"}

Open(w) ==
  {memory[p] : p \in {q \in OnDictionary : w = Window(now)}}
    \cup {c \in {redis} :
            \/ Underway(w)
            \/ w = Window(now) /\ \E p \in Workers : backend[p] = "redis"}

(* The starts that may have opened one of them.                            *)
StartsFor(w) ==
  starts[w] + (IF w + 1 \in AllWindows THEN starts[w + 1] ELSE 0)

(* Nothing was counted or started in a window to come.                     *)
NothingAhead ==
  \A w \in AllWindows : w > Window(now) =>
    /\ starts[w] = 0
    /\ \A c \in Counters, k \in Keys : counted[<<c, k>>][w] = 0

InUse(w) == Used(w) \cup Open(w)

(* A window has no more counters than there were workers when it began and *)
(* starts since.                                                           *)
FewCounters ==
  \A w \in AllWindows : w <= Window(now) =>
    Cardinality(InUse(w)) <= Cardinality(Workers) + StartsFor(w)

DeploymentInv == NothingAhead /\ FewCounters

-----------------------------------------------------------------------------
(* Sets of counters are finite, and grow with their members.               *)
LEMMA CounterSets ==
  ASSUME NEW S, S \subseteq Counters
  PROVE  IsFiniteSet(S) /\ Cardinality(S) \in Nat
<1>1. IsFiniteSet(Counters)
  BY ModelBounds, FS_Interval DEF Counters
<1> QED BY <1>1, FS_Subset, FS_CardinalityType

LEMMA CounterSubset ==
  ASSUME NEW S, NEW T, S \subseteq T, T \subseteq Counters
  PROVE  Cardinality(S) <= Cardinality(T)
BY CounterSets, FS_Subset

LEMMA CounterAdded ==
  ASSUME NEW S, NEW T, S \subseteq Counters, NEW c \in Counters, T \subseteq S \cup {c}
  PROVE  Cardinality(T) <= Cardinality(S) + 1
<1>1. IsFiniteSet(S) /\ Cardinality(S) \in Nat
  BY CounterSets
<1>2. Cardinality(S \cup {c}) =
        IF c \in S THEN Cardinality(S) ELSE Cardinality(S) + 1
  BY <1>1, FS_AddElement
<1>3. Cardinality(T) <= Cardinality(S \cup {c})
  BY CounterSubset
<1>4. Cardinality(T) \in Nat /\ Cardinality(S \cup {c}) \in Nat
  BY CounterSets
<1> QED BY <1>1, <1>2, <1>3, <1>4

(* Which counters are used and open, now and after a step.                 *)
LEMMA InUseIs ==
  \A w, c :
    /\ c \in InUse(w) <=>
         \/ c \in Counters /\ \E k \in Keys : counted[<<c, k>>][w] > 0
         \/ /\ w = Window(now)
            /\ \E p \in Workers : backend[p] = "memory" /\ c = memory[p]
         \/ c = redis /\ Underway(w)
         \/ c = redis /\ w = Window(now) /\ \E p \in Workers : backend[p] = "redis"
    /\ c \in InUse(w)' <=>
         \/ c \in Counters /\ \E k \in Keys : counted'[<<c, k>>][w] > 0
         \/ /\ w = Window(now')
            /\ \E p \in Workers : backend'[p] = "memory" /\ c = memory'[p]
         \/ c = redis' /\ Underway(w)'
         \/ c = redis' /\ w = Window(now') /\ \E p \in Workers : backend'[p] = "redis"
BY DEF InUse, Used, Open, OnDictionary, Window, TicksPerWindow

LEMMA InUseCounters ==
  /\ TypeOK => \A w : InUse(w) \subseteq Counters
  /\ TypeOK' => \A w : InUse(w)' \subseteq Counters
<1>1. ASSUME TypeOK, NEW w, NEW c \in InUse(w) PROVE c \in Counters
  BY <1>1, InUseIs DEF TypeOK, MemoryTypeOK, RedisTypeOK
<1>2. ASSUME TypeOK', NEW w, NEW c \in InUse(w)' PROVE c \in Counters
  <2>1. memory' \in [Workers -> Counters] /\ redis' \in Counters
    BY <1>2 DEF TypeOK, MemoryTypeOK, RedisTypeOK, Counters
  <2> QED BY <1>2, <2>1, InUseIs
<1> QED BY <1>1, <1>2

(* A pipeline is counted in its window or in the next.                     *)
LEMMA LatePipelines ==
  ASSUME LifeInv, NEW t \in Tasks, calls[t].at \in {"sent", "orphan"}
  PROVE  calls[t].window <= Window(now) /\ Window(now) <= calls[t].window + 1
<1> DEFINE s == calls[t].since
           v == Window(s)
           n == TicksPerWindow
<1>1. n \in Nat \ {0} /\ MaxDelay \in Nat /\ MaxDelay <= n
  BY TickTypes, ModelBounds, RedisAssumption
<1>2. s \in Nat /\ now \in Nat
  <2>1. s \in 0..MaxTime
    BY BusyCall, CallFields DEF LifeInv, TypeOK
  <2> QED BY <2>1 DEF LifeInv, TypeOK, WindowsTypeOK
<1>3. s <= now /\ now <= s + MaxDelay /\ calls[t].window = v
  BY DEF LifeInv, CallsRight
<1>4. v \in Nat /\ v * n \in Nat /\ s < v * n + n
  BY <1>2, WindowBounds
<1>5. /\ Window(now) \in Nat /\ Window(now) * n \in Nat
      /\ Window(now) * n <= now
  BY <1>2, WindowBounds
<1>6. v <= Window(now)
  BY <1>2, <1>3, WindowMonotone
<1> DEFINE u == Window(now)
<1> HIDE DEF s, v, u, n
<1>7. (v + 1) * n = v * n + n
  BY <1>1, <1>4
<1>8. u * n < (v + 1) * n + n
  BY <1>1, <1>2, <1>3, <1>4, <1>5, <1>7 DEF u
<1>9. u <= v + 1
  BY <1>1, <1>4, <1>5, <1>8, MultiplesInOrder DEF u
<1> QED BY <1>3, <1>6, <1>9 DEF u

(* Past those two windows none is under way.                               *)
LEMMA NoneUnderway ==
  ASSUME LifeInv, NEW w \in AllWindows,
         w > Window(now) \/ Window(now) > w + 1
  PROVE  ~ Underway(w)
<1> SUFFICES ASSUME NEW t \in Tasks, calls[t].at \in {"sent", "orphan"},
                    calls[t].window = w
             PROVE  FALSE
  BY DEF Underway
<1>1. w \in Nat /\ Window(now) \in Nat
  BY ModelBounds, WindowBounds DEF LifeInv, TypeOK, WindowsTypeOK
<1> QED BY <1>1, LatePipelines

(* A worker opens one counter.                                             *)
LEMMA OneEach ==
  ASSUME NEW T, T \subseteq Counters, NEW f \in [Workers -> Counters],
         \A c \in T : \E p \in Workers : f[p] = c
  PROVE  Cardinality(T) <= Cardinality(Workers)
<1> DEFINE S == {f[p] : p \in Workers}
<1>1. f \in Surjection(Workers, S)
  BY DEF Surjection
<1>2. Cardinality(S) <= Cardinality(Workers) /\ S \subseteq Counters
  BY <1>1, FS_Surjection, LifecycleAssumption
<1>3. T \subseteq S
  OBVIOUS
<1> HIDE DEF S
<1>4. Cardinality(T) <= Cardinality(S)
  BY <1>2, <1>3, CounterSubset
<1>5. /\ Cardinality(T) \in Nat /\ Cardinality(S) \in Nat
      /\ Cardinality(Workers) \in Nat
  BY <1>2, CounterSets, LifecycleAssumption, FS_CardinalityType
<1> QED BY <1>2, <1>4, <1>5

(* The numbers of workers and of starts are natural numbers.               *)
LEMMA StartsNat ==
  ASSUME NEW w \in AllWindows
  PROVE  /\ Cardinality(Workers) \in Nat
         /\ TypeOK => StartsFor(w) \in Nat
         /\ TypeOK' => StartsFor(w)' \in Nat
<1>1. Cardinality(Workers) \in Nat
  BY LifecycleAssumption, FS_CardinalityType
<1>2. TypeOK => starts \in [AllWindows -> Nat]
  BY DEF TypeOK
<1>3. TypeOK' => starts' \in [AllWindows -> Nat]
  BY DEF TypeOK, AllWindows, Window, TicksPerWindow
<1>4. TypeOK => StartsFor(w) \in Nat
  BY <1>2 DEF StartsFor
<1>5. StartsFor(w)' = starts'[w] + (IF w + 1 \in AllWindows
                                    THEN starts'[w + 1] ELSE 0)
  BY DEF StartsFor, AllWindows, Window, TicksPerWindow
<1>6. TypeOK' => StartsFor(w)' \in Nat
  BY <1>3, <1>5
<1> QED BY <1>1, <1>4, <1>6

(* A step that starts nothing and opens nothing.                           *)
LEMMA NothingOpened ==
  ASSUME LifeInv, LifeInv', DeploymentInv, UNCHANGED <<now, starts>>,
         \A w \in AllWindows : InUse(w)' \subseteq InUse(w),
         \A w \in AllWindows, c \in Counters, k \in Keys :
           w > Window(now) => counted'[<<c, k>>][w] = counted[<<c, k>>][w]
  PROVE  DeploymentInv'
<1>1. NothingAhead'
  BY DEF DeploymentInv, NothingAhead, Window, TicksPerWindow
<1>2. FewCounters'
  <2> SUFFICES ASSUME NEW w \in AllWindows, w <= Window(now)
               PROVE  Cardinality(InUse(w)') <= Cardinality(Workers) + StartsFor(w)
    BY DEF FewCounters, StartsFor, Window, TicksPerWindow
  <2>1. InUse(w) \subseteq Counters /\ InUse(w)' \subseteq Counters
    BY InUseCounters DEF LifeInv
  <2>2. /\ Cardinality(InUse(w)') <= Cardinality(InUse(w))
        /\ Cardinality(InUse(w)') \in Nat /\ Cardinality(InUse(w)) \in Nat
    BY <2>1, CounterSubset, CounterSets
  <2>3. Cardinality(InUse(w)) <= Cardinality(Workers) + StartsFor(w)
    BY DEF DeploymentInv, FewCounters
  <2>4. StartsFor(w) \in Nat /\ Cardinality(Workers) \in Nat
    BY StartsNat DEF LifeInv
  <2> QED BY <2>2, <2>3, <2>4
<1> QED BY <1>1, <1>2 DEF DeploymentInv

(* A start opens one counter, which may count for this window and the last.*)
LEMMA OneOpened ==
  ASSUME LifeInv, LifeInv', DeploymentInv, CountStart, UNCHANGED <<now, counted>>,
         NEW c \in Counters,
         \A w \in AllWindows : InUse(w)' \subseteq InUse(w) \cup {c},
         \A w \in AllWindows :
           Window(now) > w + 1 => InUse(w)' \subseteq InUse(w)
  PROVE  DeploymentInv'
<1> DEFINE now0 == Window(now)
<1>1. /\ now0 \in AllWindows /\ now0 \in Nat
      /\ \A w \in AllWindows : w \in Nat /\ starts[w] \in Nat
      /\ starts \in [AllWindows -> Nat]
  BY WindowInModel, ModelBounds DEF LifeInv, TypeOK, WindowsTypeOK
<1>2. /\ starts'[now0] = starts[now0] + 1
      /\ \A w \in AllWindows : w # now0 => starts'[w] = starts[w]
  BY <1>1 DEF CountStart
<1>3. Window(now)' = now0
  BY DEF Window, TicksPerWindow
<1> HIDE DEF now0
<1>4. NothingAhead'
  <2> SUFFICES ASSUME NEW w \in AllWindows, w > now0
               PROVE  /\ starts'[w] = 0
                      /\ \A d \in Counters, k \in Keys : counted'[<<d, k>>][w] = 0
    BY <1>3 DEF NothingAhead
  <2>1. /\ starts[w] = 0
        /\ \A d \in Counters, k \in Keys : counted[<<d, k>>][w] = 0
    BY DEF DeploymentInv, NothingAhead, now0
  <2> QED BY <1>1, <1>2, <2>1
<1>5. FewCounters'
  <2> SUFFICES ASSUME NEW w \in AllWindows, w <= now0
               PROVE  Cardinality(InUse(w)') <= Cardinality(Workers) + StartsFor(w)'
    BY <1>3 DEF FewCounters
  <2>1. InUse(w) \subseteq Counters /\ InUse(w)' \subseteq Counters
    BY InUseCounters DEF LifeInv
  <2>2. Cardinality(InUse(w)') \in Nat /\ Cardinality(InUse(w)) \in Nat
    BY <2>1, CounterSets
  <2>3. Cardinality(InUse(w)) <= Cardinality(Workers) + StartsFor(w)
    BY DEF DeploymentInv, FewCounters, now0
  <2>4. /\ StartsFor(w) \in Nat /\ StartsFor(w)' \in Nat
        /\ Cardinality(Workers) \in Nat
    BY StartsNat DEF LifeInv
  <2>5. CASE now0 > w + 1
    <3>1. Cardinality(InUse(w)') <= Cardinality(InUse(w))
      BY <2>1, <2>5, CounterSubset DEF now0
    <3>2. StartsFor(w)' = StartsFor(w)
      BY <1>1, <1>2, <2>5 DEF StartsFor, AllWindows, Window, TicksPerWindow
    <3> QED BY <2>2, <2>3, <2>4, <3>1, <3>2
  <2>6. CASE ~ (now0 > w + 1)
    <3>1. InUse(w)' \subseteq InUse(w) \cup {c}
      OBVIOUS
    <3>2. Cardinality(InUse(w)') <= Cardinality(InUse(w)) + 1
      BY <2>1, <3>1, CounterAdded
    <3>3. w = now0 \/ w + 1 = now0
      BY <1>1, <2>6
    <3>4. StartsFor(w)' = starts'[w] + (IF w + 1 \in AllWindows
                                        THEN starts'[w + 1] ELSE 0)
      BY DEF StartsFor, AllWindows, Window, TicksPerWindow
    <3>5. StartsFor(w)' = StartsFor(w) + 1
      <4>1. CASE w = now0
        BY <1>1, <1>2, <3>4, <4>1 DEF StartsFor
      <4>2. CASE w + 1 = now0
        BY <1>1, <1>2, <3>4, <4>2 DEF StartsFor
      <4> QED BY <3>3, <4>1, <4>2
    <3> QED BY <2>2, <2>3, <2>4, <3>2, <3>5
  <2> QED BY <2>5, <2>6
<1> QED BY <1>4, <1>5 DEF DeploymentInv

-----------------------------------------------------------------------------
(* One step at a time                                                      *)

(* Before the first start no counter is used.                              *)
LEMMA InitDeployment == Init => DeploymentInv
<1> SUFFICES ASSUME Init PROVE DeploymentInv
  OBVIOUS
<1>1. TypeOK
  BY InitInv DEF LifeInv
<1>2. /\ now = 0 /\ Window(now) = 0 /\ 0 \in AllWindows
      /\ \A w \in AllWindows : w \in Nat
  <2>1. 0 \in 0..MaxTime /\ 0 * TicksPerWindow <= 0
    BY ModelBounds, TickTypes
  <2>2. Window(0) = 0
    BY TickTypes, WindowIs
  <2> QED BY <2>2, ModelBounds DEF Init, WindowsInit
<1>3. /\ \A w \in AllWindows : starts[w] = 0
      /\ \A w \in AllWindows, c \in Counters, k \in Keys :
           counted[<<c, k>>][w] = 0
      /\ \A p \in Workers : backend[p] = "down"
      /\ \A t \in Tasks : calls[t].at = "idle"
  BY DEF Init, WindowsInit, RedisInit, NoCall
<1>4. NothingAhead
  BY <1>3 DEF NothingAhead
<1>5. \A w \in AllWindows : InUse(w) = {}
  <2> SUFFICES ASSUME NEW w \in AllWindows, NEW c \in InUse(w) PROVE FALSE
    OBVIOUS
  <2>1. ~ Underway(w)
    BY <1>3 DEF Underway
  <2>2. \A k \in Keys : c \in Counters => ~ (counted[<<c, k>>][w] > 0)
    BY <1>3
  <2>3. \A p \in Workers : backend[p] # "memory" /\ backend[p] # "redis"
    BY <1>3
  <2> QED BY <2>1, <2>2, <2>3, InUseIs
<1>6. FewCounters
  <2> SUFFICES ASSUME NEW w \in AllWindows
               PROVE  Cardinality(InUse(w)) <= Cardinality(Workers) + StartsFor(w)
    BY DEF FewCounters
  <2>1. Cardinality(InUse(w)) = 0
    BY <1>5, FS_EmptySet
  <2>2. Cardinality(Workers) \in Nat /\ StartsFor(w) \in Nat
    BY <1>1, StartsNat
  <2> QED BY <2>1, <2>2
<1> QED BY <1>4, <1>6 DEF DeploymentInv

LEMMA StartupDeployment ==
  ASSUME LifeInv, LifeInv', DeploymentInv, NEW p \in Workers,
         StartupInMemory(p) \/ StartupOnRedis(p)
  PROVE  DeploymentInv'
<1>1. /\ backend[p] = "down" /\ CountStart
      /\ UNCHANGED <<now, counted, redis, calls>>
  BY DEF StartupInMemory, StartupOnRedis, historyVars, redisVars
<1>2. TypeOK
  BY DEF LifeInv
<1>3. \A w : Underway(w)' <=> Underway(w)
  BY <1>1 DEF Underway
<1>4. CASE StartupInMemory(p)
  <2> DEFINE c == made + 1
  <2>1. /\ made < MaxCounters
        /\ backend' = [backend EXCEPT ![p] = "memory"]
        /\ memory' = [memory EXCEPT ![p] = c]
    BY <1>4 DEF StartupInMemory, NewDictionary
  <2>2. c \in Counters
    BY <1>2, <2>1, ModelBounds DEF TypeOK, Counters
  <2>3. \A q \in Workers \ {p} : memory'[q] = memory[q] /\ backend'[q] = backend[q]
    BY <2>1, <1>2 DEF TypeOK, MemoryTypeOK
  <2>4. memory'[p] = c /\ backend'[p] = "memory"
    BY <2>1, <1>2 DEF TypeOK, MemoryTypeOK
  <2> HIDE DEF c
  <2>5. ASSUME NEW w \in AllWindows, NEW d \in InUse(w)'
        PROVE  d \in InUse(w) \/ (d = c /\ w = Window(now))
    BY <1>1, <1>3, <2>3, <2>4, <2>5, InUseIs
  <2>6. \A w \in AllWindows : Window(now) > w + 1 => w # Window(now)
    BY <1>2, ModelBounds, WindowBounds DEF TypeOK, WindowsTypeOK
  <2> QED BY <1>1, <2>2, <2>5, <2>6, OneOpened
<1>5. CASE StartupOnRedis(p)
  <2>1. backend' = [backend EXCEPT ![p] = "redis"] /\ memory' = memory
    BY <1>5 DEF StartupOnRedis, memoryVars
  <2>2. redis \in Counters
    BY <1>2 DEF TypeOK, RedisTypeOK
  <2>3. /\ backend'[p] = "redis"
        /\ \A q \in Workers \ {p} : backend'[q] = backend[q]
    BY <2>1, <1>2 DEF TypeOK
  <2>5. ASSUME NEW w \in AllWindows, NEW d \in InUse(w)'
        PROVE  d \in InUse(w) \/ (d = redis /\ w = Window(now))
    BY <1>1, <1>3, <2>1, <2>3, <2>5, InUseIs
  <2>6. \A w \in AllWindows : Window(now) > w + 1 => w # Window(now)
    BY <1>2, ModelBounds, WindowBounds DEF TypeOK, WindowsTypeOK
  <2> QED BY <1>1, <2>2, <2>5, <2>6, OneOpened
<1> QED BY <1>4, <1>5

LEMMA ShutdownDeployment ==
  ASSUME LifeInv, LifeInv', DeploymentInv, NEW p \in Workers, Shutdown(p)
  PROVE  DeploymentInv'
<1>1. /\ backend' = [backend EXCEPT ![p] = "down"]
      /\ windows' = [windows EXCEPT ![p] = [k \in Keys |-> NotSeen]]
      /\ memory' = [memory EXCEPT ![p] = 0]
      /\ Abandon(p)
      /\ UNCHANGED <<now, counted, redis, starts>>
  BY DEF Shutdown, NewDictionary, historyVars
<1>2. TypeOK
  BY DEF LifeInv
<1>3. /\ backend'[p] = "down"
      /\ \A q \in Workers \ {p} :
           memory'[q] = memory[q] /\ backend'[q] = backend[q]
  BY <1>1, <1>2 DEF TypeOK, MemoryTypeOK
<1>4. ASSUME NEW w \in AllWindows, Underway(w)'
      PROVE  Underway(w)
  <2>1. PICK t \in Tasks : /\ calls'[t].at \in {"sent", "orphan"}
                           /\ calls'[t].window = w
    BY <1>4 DEF Underway
  <2>2. calls'[t] = IF calls[t].at = "idle" \/ calls[t].process # p THEN calls[t]
                    ELSE IF calls[t].at = "counted" THEN NoCall
                    ELSE [calls[t] EXCEPT !.at = "orphan"]
    BY <1>1 DEF Abandon
  <2>3. CASE calls'[t] = calls[t]
    BY <2>1, <2>3 DEF Underway
  <2>4. CASE /\ calls[t].at \notin {"idle", "counted"}
             /\ calls'[t] = [calls[t] EXCEPT !.at = "orphan"]
    <3>1. calls[t] \in CallRecords
      BY <1>2, <2>4, BusyCall DEF TypeOK
    <3>2. calls[t].at \in {"sent", "orphan"} /\ calls[t].window = w
      BY <2>1, <2>4, <3>1, CallFields, Orphaned
    <3> QED BY <3>2 DEF Underway
  <2>5. CASE calls'[t] = NoCall
    BY <2>1, <2>5 DEF NoCall
  <2> QED BY <2>2, <2>3, <2>4, <2>5
<1>5. ASSUME NEW w \in AllWindows, NEW d \in InUse(w)'
      PROVE  d \in InUse(w)
  BY <1>1, <1>3, <1>4, <1>5, InUseIs
<1> QED BY <1>1, <1>5, NothingOpened

LEMMA CheckInMemoryDeployment ==
  ASSUME LifeInv, LifeInv', DeploymentInv, NEW p \in Workers, NEW k \in Keys,
         backend[p] = "memory", CheckInMemory(p, k),
         UNCHANGED <<redisVars, backend, made, starts>>
  PROVE  DeploymentInv'
<1> DEFINE c == memory[p]
           v == Window(now)
<1>1. /\ counted' = Plus(counted, c, k, v)
      /\ UNCHANGED <<now, memory, redis, calls, backend, starts>>
  BY DEF CheckInMemory, CountOne, redisVars, Plus
<1>2. TypeOK
  BY DEF LifeInv
<1>3. c \in Counters /\ v \in AllWindows /\ v \in Nat
  BY <1>2, WindowInModel, ModelBounds DEF TypeOK, MemoryTypeOK, WindowsTypeOK
<1>4. counted \in Tables
  BY <1>2 DEF TypeOK, WindowsTypeOK, Tables
<1>5. \A w : Underway(w)' <=> Underway(w)
  BY <1>1 DEF Underway
<1>6. c \in InUse(v)
  BY InUseIs
<1> HIDE DEF c, v
<1>7. /\ counted' \in Tables
      /\ counted'[<<c, k>>][v] = counted[<<c, k>>][v] + 1
      /\ \A d \in Counters, j \in Keys, w \in AllWindows :
           /\ counted[<<d, j>>][w] \in Nat
           /\ counted[<<d, j>>][w] <= counted'[<<d, j>>][w]
           /\ (d # c \/ j # k \/ w # v) =>
                counted'[<<d, j>>][w] = counted[<<d, j>>][w]
  BY <1>1, <1>3, <1>4, OneMore
<1>8. ASSUME NEW w \in AllWindows, NEW d \in InUse(w)'
      PROVE  d \in InUse(w)
  <2>1. CASE d = c /\ w = v
    BY <1>6, <2>1
  <2>2. CASE ~ (d = c /\ w = v)
    <3>1. d \in Counters /\ (\E j \in Keys : counted'[<<d, j>>][w] > 0)
            => \E j \in Keys : counted[<<d, j>>][w] > 0
      BY <1>7, <2>2
    <3> QED BY <1>1, <1>5, <1>8, <3>1, InUseIs
  <2> QED BY <2>1, <2>2
<1>9. \A w \in AllWindows : w > v => w # v
  BY <1>3
<1>10. \A w \in AllWindows, d \in Counters, j \in Keys :
         w > v => counted'[<<d, j>>][w] = counted[<<d, j>>][w]
  BY <1>7, <1>9
<1> QED BY <1>1, <1>8, <1>10, NothingOpened DEF v

LEMMA CheckOnRedisDeployment ==
  ASSUME LifeInv, LifeInv', DeploymentInv, NEW t \in Tasks, NEW p \in Workers,
         NEW k \in Keys, backend[p] = "redis", CheckOnRedis(t, p, k),
         UNCHANGED <<memoryVars, backend, made, starts>>
  PROVE  DeploymentInv'
<1> DEFINE q == [at |-> "sent", process |-> p, key |-> k,
                 window |-> Window(now), since |-> now, count |-> 0,
                 counter |-> 0]
<1>1. /\ calls' = [calls EXCEPT ![t] = q]
      /\ UNCHANGED <<now, counted, memory, redis, backend, starts>>
  BY DEF CheckOnRedis, historyVars, memoryVars
<1>2. q.window = Window(now)
  OBVIOUS
<1> HIDE DEF q
<1>3. calls'[t] = q /\ \A u \in Tasks \ {t} : calls'[u] = calls[u]
  BY <1>1 DEF LifeInv, TypeOK, RedisTypeOK
<1>4. ASSUME NEW w \in AllWindows, Underway(w)'
      PROVE  Underway(w) \/ w = Window(now)
  BY <1>2, <1>3, <1>4 DEF Underway
<1>5. ASSUME NEW w \in AllWindows, NEW d \in InUse(w)'
      PROVE  d \in InUse(w)
  BY <1>1, <1>4, <1>5, InUseIs
<1> QED BY <1>1, <1>5, NothingOpened

LEMMA ExecuteDeployment ==
  ASSUME LifeInv, LifeInv', DeploymentInv, NEW t \in Tasks, Execute(t),
         UNCHANGED <<memoryVars, backend, made, starts>>
  PROVE  DeploymentInv'
<1> DEFINE k == calls[t].key
           v == calls[t].window
<1>1. /\ calls[t].at \in {"sent", "orphan"}
      /\ counted' = Plus(counted, redis, k, v)
      /\ UNCHANGED <<now, memory, redis, backend, starts>>
  BY DEF Execute, CountOne, Plus, memoryVars
<1>2. TypeOK
  BY DEF LifeInv
<1>3. k \in Keys /\ v \in AllWindows /\ redis \in Counters
  BY <1>1, <1>2, BusyCall, CallFields DEF TypeOK, RedisTypeOK
<1>4. counted \in Tables
  BY <1>2 DEF TypeOK, WindowsTypeOK, Tables
<1>5. ASSUME NEW w \in AllWindows, Underway(w)'
      PROVE  Underway(w)
  <2>1. PICK u \in Tasks : /\ calls'[u].at \in {"sent", "orphan"}
                           /\ calls'[u].window = w
    BY <1>5 DEF Underway
  <2>2. CASE u = t
    <3> DEFINE z == Told(calls[t], Entry(RedisKey(k, v)) + 1, redis)
    <3>1. calls' = [calls EXCEPT ![t] = IF calls[t].at = "orphan" THEN NoCall
                                        ELSE z]
      BY DEF Execute, Told
    <3>2. calls'[t] = NoCall \/ calls'[t] = z
      BY <1>2, <3>1 DEF TypeOK, RedisTypeOK
    <3>3. z.at = "counted"
      BY <1>1, <1>2, BusyCall DEF Told, TypeOK, CallRecords
    <3> QED BY <2>1, <2>2, <3>2, <3>3 DEF NoCall
  <2>3. CASE u # t
    <3>1. calls'[u] = calls[u]
      BY <1>2, <2>3 DEF Execute, TypeOK, RedisTypeOK
    <3> QED BY <2>1, <3>1 DEF Underway
  <2> QED BY <2>2, <2>3
<1>6. redis \in InUse(v)
  <2>1. Underway(v)
    BY <1>1 DEF Underway
  <2> QED BY <2>1, InUseIs
<1>7. v <= Window(now) /\ v \in Nat /\ Window(now) \in Nat
  <2>1. now \in Nat
    BY <1>2 DEF TypeOK, WindowsTypeOK
  <2>2. Window(now) \in Nat /\ v \in Nat
    BY <1>3, <2>1, ModelBounds, WindowBounds
  <2>3. v <= Window(now)
    BY <1>1, LatePipelines
  <2> QED BY <2>2, <2>3
<1> HIDE DEF k, v
<1>8. /\ counted' \in Tables
      /\ counted'[<<redis, k>>][v] = counted[<<redis, k>>][v] + 1
      /\ \A d \in Counters, j \in Keys, w \in AllWindows :
           /\ counted[<<d, j>>][w] \in Nat
           /\ counted[<<d, j>>][w] <= counted'[<<d, j>>][w]
           /\ (d # redis \/ j # k \/ w # v) =>
                counted'[<<d, j>>][w] = counted[<<d, j>>][w]
  BY <1>1, <1>3, <1>4, OneMore
<1>9. ASSUME NEW w \in AllWindows, NEW d \in InUse(w)'
      PROVE  d \in InUse(w)
  <2>1. CASE d = redis /\ w = v
    BY <1>6, <2>1
  <2>2. CASE ~ (d = redis /\ w = v)
    <3>1. d \in Counters /\ (\E j \in Keys : counted'[<<d, j>>][w] > 0)
            => \E j \in Keys : counted[<<d, j>>][w] > 0
      BY <1>8, <2>2
    <3> QED BY <1>1, <1>5, <1>9, <3>1, InUseIs
  <2> QED BY <2>1, <2>2
<1>10. \A w \in AllWindows : w \in Nat /\ (w > Window(now) => w # v)
  BY <1>7, ModelBounds
<1>11. \A w \in AllWindows, d \in Counters, j \in Keys :
         w > Window(now) => counted'[<<d, j>>][w] = counted[<<d, j>>][w]
  BY <1>8, <1>10
<1> QED BY <1>1, <1>9, <1>11, NothingOpened

LEMMA EndCallDeployment ==
  ASSUME LifeInv, LifeInv', DeploymentInv, NEW t \in Tasks,
         Allow(t) \/ Refuse(t) \/ Fail(t),
         UNCHANGED <<memoryVars, backend, made, starts>>
  PROVE  DeploymentInv'
<1>1. /\ calls' = [calls EXCEPT ![t] = NoCall]
      /\ UNCHANGED <<now, counted, memory, redis, backend, starts>>
  BY DEF Allow, Refuse, Fail, EndCall, historyVars, memoryVars
<1>2. /\ calls'[t] = NoCall
      /\ \A u \in Tasks \ {t} : calls'[u] = calls[u]
  BY <1>1 DEF LifeInv, TypeOK, RedisTypeOK
<1>3. ASSUME NEW w \in AllWindows, Underway(w)'
      PROVE  Underway(w)
  BY <1>2, <1>3 DEF Underway, NoCall
<1>4. ASSUME NEW w \in AllWindows, NEW d \in InUse(w)'
      PROVE  d \in InUse(w)
  BY <1>1, <1>3, <1>4, InUseIs
<1> QED BY <1>1, <1>4, NothingOpened

LEMMA RedisRestartDeployment ==
  ASSUME LifeInv, LifeInv', DeploymentInv, RedisRestart
  PROVE  DeploymentInv'
<1> DEFINE c == made + 1
<1>1. /\ made < MaxCounters /\ CountStart /\ redis' = c
      /\ UNCHANGED <<now, counted, memory, calls, backend>>
  BY DEF RedisRestart, ForgetEntries, historyVars, memoryVars
<1>2. c \in Counters
  BY <1>1, ModelBounds DEF LifeInv, TypeOK, Counters
<1> HIDE DEF c
<1>3. \A w : Underway(w)' <=> Underway(w)
  BY <1>1 DEF Underway
<1>4. ASSUME NEW w \in AllWindows, NEW d \in InUse(w)'
      PROVE  /\ d \in InUse(w) \/ d = c
             /\ d \in InUse(w) \/ Underway(w) \/ w = Window(now)
  BY <1>1, <1>3, <1>4, InUseIs
<1>5. ASSUME NEW w \in AllWindows, Window(now) > w + 1
      PROVE  ~ Underway(w) /\ w # Window(now)
  BY <1>5, NoneUnderway, ModelBounds, WindowBounds
     DEF LifeInv, TypeOK, WindowsTypeOK
<1> QED BY <1>1, <1>2, <1>4, <1>5, OneOpened

LEMMA TickDeployment ==
  ASSUME LifeInv, LifeInv', DeploymentInv, Tick
  PROVE  DeploymentInv'
<1> DEFINE u == Window(now)
           v == Window(now')
<1>1. /\ now' = now + 1
      /\ UNCHANGED <<counted, memory, redis, calls, backend, starts>>
  BY DEF Tick, historyVars, memoryVars, redisVars
<1>2. TypeOK
  BY DEF LifeInv
<1>3. /\ u \in Nat /\ v \in Nat /\ (v = u \/ v = u + 1)
      /\ \A w \in AllWindows : w \in Nat
  <2>1. now \in Nat /\ now' \in Nat
    BY <1>1, <1>2 DEF TypeOK, WindowsTypeOK
  <2> QED BY <1>1, <2>1, WindowBounds, NextTick, ModelBounds
<1>4. \A w : Underway(w)' <=> Underway(w)
  BY <1>1 DEF Underway
<1>5. Window(now)' = v
  BY DEF Window, TicksPerWindow
<1>6. \A w : StartsFor(w)' = StartsFor(w)
  BY <1>1 DEF StartsFor, AllWindows, Window, TicksPerWindow
<1>7. ASSUME NEW w \in AllWindows, w <= u, NEW d \in InUse(w)'
      PROVE  d \in InUse(w)
  <2>1. w = v => w = u
    BY <1>3, <1>7
  <2> QED BY <1>1, <1>4, <1>7, <2>1, InUseIs
<1>8. ASSUME NEW w \in AllWindows, w > u, w <= v
      PROVE  Cardinality(InUse(w)') <= Cardinality(Workers)
  <2> DEFINE f == [p \in Workers |-> IF backend[p] = "memory" THEN memory[p]
                                     ELSE redis]
  <2>1. f \in [Workers -> Counters]
    BY <1>2 DEF TypeOK, MemoryTypeOK, RedisTypeOK
  <2>2. ~ Underway(w)
    BY <1>8, NoneUnderway
  <2>3. \A c \in Counters, k \in Keys : counted[<<c, k>>][w] = 0
    BY <1>8 DEF DeploymentInv, NothingAhead
  <2>4. ASSUME NEW d \in InUse(w)'
        PROVE  \E p \in Workers : f[p] = d
    <3>1. ~ (d \in Counters /\ \E k \in Keys : counted'[<<d, k>>][w] > 0)
      <4>1. ASSUME NEW c \in Counters, NEW k \in Keys
            PROVE  ~ (counted'[<<c, k>>][w] > 0)
        <5>1. counted'[<<c, k>>][w] = 0
          BY <1>1, <2>3
        <5> QED BY <5>1
      <4> QED BY <4>1
    <3>2. \/ \E p \in Workers : backend[p] = "memory" /\ d = memory[p]
          \/ \E p \in Workers : backend[p] = "redis" /\ d = redis
      BY <1>1, <1>4, <2>2, <2>4, <3>1, InUseIs
    <3>3. \A p \in Workers : /\ backend[p] = "memory" => f[p] = memory[p]
                             /\ backend[p] = "redis" => f[p] = redis
      OBVIOUS
    <3> HIDE DEF f
    <3> QED BY <3>2, <3>3
  <2>5. InUse(w)' \subseteq Counters
    BY InUseCounters DEF LifeInv
  <2> HIDE DEF f
  <2> QED BY <2>1, <2>4, <2>5, OneEach
<1> HIDE DEF u, v
<1>9. NothingAhead'
  <2>1. \A w \in AllWindows : w > v => w > u
    BY <1>3
  <2> QED BY <1>1, <1>5, <2>1 DEF DeploymentInv, NothingAhead, u
<1>10. FewCounters'
  <2> SUFFICES ASSUME NEW w \in AllWindows, w <= v
               PROVE  Cardinality(InUse(w)') <= Cardinality(Workers) + StartsFor(w)
    BY <1>5, <1>6 DEF FewCounters
  <2>1. InUse(w) \subseteq Counters /\ InUse(w)' \subseteq Counters
    BY InUseCounters DEF LifeInv
  <2>2. /\ Cardinality(InUse(w)') \in Nat /\ Cardinality(InUse(w)) \in Nat
        /\ StartsFor(w) \in Nat /\ Cardinality(Workers) \in Nat
    BY <1>2, <2>1, CounterSets, StartsNat
  <2>3. CASE w <= u
    <3>1. Cardinality(InUse(w)') <= Cardinality(InUse(w))
      BY <1>7, <2>1, <2>3, CounterSubset
    <3>2. Cardinality(InUse(w)) <= Cardinality(Workers) + StartsFor(w)
      BY <2>3 DEF DeploymentInv, FewCounters, u
    <3> QED BY <2>2, <3>1, <3>2
  <2>4. CASE ~ (w <= u)
    <3>1. w > u
      BY <1>3, <2>4
    <3>2. Cardinality(InUse(w)') <= Cardinality(Workers)
      BY <1>8, <3>1
    <3> QED BY <2>2, <3>2
  <2> QED BY <2>3, <2>4
<1> QED BY <1>9, <1>10 DEF DeploymentInv

(* Each action keeps the bound of every window.                            *)
LEMMA DeploymentStep == LifeInv /\ DeploymentInv /\ [Next]_vars => DeploymentInv'
<1> SUFFICES ASSUME LifeInv, DeploymentInv, [Next]_vars
             PROVE  DeploymentInv'
  OBVIOUS
<1>0. LifeInv'
  BY LifeInvStep
<1>1. ASSUME NEW p \in Workers, StartupInMemory(p) \/ StartupOnRedis(p)
      PROVE  DeploymentInv'
  BY <1>0, <1>1, StartupDeployment
<1>2. ASSUME NEW p \in Workers, Shutdown(p)
      PROVE  DeploymentInv'
  BY <1>0, <1>2, ShutdownDeployment
<1>3. ASSUME NEW p \in Workers, NEW k \in Keys, Check(p, k)
      PROVE  DeploymentInv'
  BY <1>0, <1>3, CheckInMemoryDeployment, CheckOnRedisDeployment DEF Check
<1>4. ASSUME NEW t \in Tasks, Answer(t)
      PROVE  DeploymentInv'
  BY <1>0, <1>4, ExecuteDeployment, EndCallDeployment DEF Answer
<1>5. CASE RedisRestart
  BY <1>0, <1>5, RedisRestartDeployment
<1>6. CASE Tick
  BY <1>0, <1>6, TickDeployment
<1>7. CASE UNCHANGED vars
  <2>1. UNCHANGED <<now, counted, memory, redis, calls, backend, starts>>
    BY <1>7 DEF vars, historyVars, memoryVars, redisVars
  <2>2. \A w : Underway(w)' <=> Underway(w)
    BY <2>1 DEF Underway
  <2>3. \A w : InUse(w)' \subseteq InUse(w)
    BY <2>1, <2>2, InUseIs
  <2> QED BY <1>0, <2>1, <2>3, NothingOpened
<1> QED BY <1>1, <1>2, <1>3, <1>4, <1>5, <1>6, <1>7 DEF Next

-----------------------------------------------------------------------------
(* Admitted adds up the counters of a window.                              *)
LEMMA AdmittedChain ==
  ASSUME TypeOK, NEW k \in Keys, NEW w \in AllWindows
  PROVE  \E upTo \in [Counters -> Nat] :
           /\ Admitted(k, w) = upTo[MaxCounters]
           /\ upTo[0] = admitted[<<0, k>>][w]
           /\ \A c \in 1..MaxCounters :
                upTo[c] = admitted[<<c, k>>][w] + upTo[c - 1]
<1> DEFINE n == MaxCounters
           V == Nat
           base == admitted[<<0, k>>][w]
           step == [c \in 1..n |-> [m \in Nat |-> admitted[<<c, k>>][w] + m]]
<1>1. n \in Nat /\ Counters = 0..n
  BY ModelBounds DEF Counters
<1>2. \A c \in Counters : admitted[<<c, k>>][w] \in Nat
  BY DEF TypeOK, WindowsTypeOK
<1>3. base \in V /\ step \in [1..n -> [V -> V]]
  BY <1>1, <1>2
<1>4. PICK f \in [0..n -> V] : Chain(f, n, base, step)
  <2> HIDE DEF n, V, base, step
  <2> QED BY <1>1, <1>3, ChainExists
<1>5. /\ f[0] = admitted[<<0, k>>][w]
      /\ \A c \in 1..n : /\ c - 1 \in 0..n /\ f[c - 1] \in Nat
                         /\ f[c] = admitted[<<c, k>>][w] + f[c - 1]
  <2>1. f[0] = admitted[<<0, k>>][w] /\ \A c \in 1..n : f[c] = step[c][f[c - 1]]
    BY <1>4 DEF Chain
  <2> SUFFICES ASSUME NEW c \in 1..n
               PROVE  /\ c - 1 \in 0..n /\ f[c - 1] \in Nat
                      /\ f[c] = admitted[<<c, k>>][w] + f[c - 1]
    BY <2>1
  <2>2. c - 1 \in 0..n
    BY <1>1
  <2>3. f[c - 1] \in Nat
    BY <1>4, <2>2
  <2> QED BY <2>1, <2>2, <2>3
<1> DEFINE Right(g) ==
      g = [c \in Counters |->
             admitted[<<c, k>>][w] + (IF c = 0 THEN 0 ELSE g[c - 1])]
<1>6. Right(f)
  <2>1. f = [c \in Counters |-> f[c]]
    BY <1>1, <1>4
  <2> HIDE DEF n
  <2>2. \A c \in Counters :
          f[c] = admitted[<<c, k>>][w] + (IF c = 0 THEN 0 ELSE f[c - 1])
    BY <1>1, <1>2, <1>5
  <2> QED BY <2>1, <2>2
<1> DEFINE upTo == CHOOSE g : Right(g)
<1>7. Right(upTo)
  <2> HIDE DEF Right
  <2> QED BY <1>6
<1>8. Admitted(k, w) = upTo[n]
  BY DEF Admitted
<1> HIDE DEF upTo, n
<1>9. /\ upTo[0] = admitted[<<0, k>>][w]
      /\ \A c \in 1..n : upTo[c] = admitted[<<c, k>>][w] + upTo[c - 1]
  BY <1>1, <1>2, <1>7
<1> DEFINE S == {c \in Nat : c <= n => upTo[c] = f[c]}
<1>10. \A c \in Nat : c \in S
  <2>1. 0 \in S
    BY <1>5, <1>9
  <2>2. ASSUME NEW c \in Nat, c \in S
        PROVE  c + 1 \in S
    <3> SUFFICES ASSUME c + 1 <= n PROVE upTo[c + 1] = f[c + 1]
      OBVIOUS
    <3>1. c + 1 \in 1..n /\ (c + 1) - 1 = c /\ upTo[c] = f[c]
      BY <1>1, <2>2
    <3> QED BY <1>5, <1>9, <3>1
  <2> HIDE DEF S
  <2> QED BY <2>1, <2>2, SetInduction
<1>11. f[n] = upTo[n]
  BY <1>1, <1>10
<1> QED BY <1>1, <1>4, <1>5, <1>8, <1>11 DEF n

(* Every counter of a window admits up to the limit, the others nothing.   *)
LEMMA AdmittedBound ==
  ASSUME LifeInv, NEW k \in Keys, NEW w \in AllWindows
  PROVE  Admitted(k, w) <= Limit[k] * Cardinality(Used(w))
<1> DEFINE l == Limit[k]
           Upto(c) == {d \in Used(w) : d <= c}
           a(c) == admitted[<<c, k>>][w]
<1>1. PICK upTo \in [Counters -> Nat] :
        /\ Admitted(k, w) = upTo[MaxCounters]
        /\ upTo[0] = a(0)
        /\ \A c \in 1..MaxCounters : upTo[c] = a(c) + upTo[c - 1]
  BY AdmittedChain DEF LifeInv
<1>2. l \in Nat /\ MaxCounters \in Nat /\ Counters = 0..MaxCounters
  BY ModelBounds DEF Counters
<1>3. ASSUME NEW c \in Counters
      PROVE  a(c) \in Nat /\ a(c) <= l /\ (c \notin Used(w) => a(c) = 0)
  <2>1. a(c) \in Nat /\ counted[<<c, k>>][w] \in Nat
    BY DEF LifeInv, TypeOK, WindowsTypeOK
  <2>2. Cardinality(Pending(c, k, w)) \in Nat
    BY TaskSets DEF Pending
  <2>3. /\ a(c) + Cardinality(Pending(c, k, w)) <= counted[<<c, k>>][w]
        /\ a(c) + Cardinality(Pending(c, k, w)) <= l
    BY DEF LifeInv, Handouts
  <2> HIDE DEF a, l
  <2>4. a(c) <= l /\ a(c) <= counted[<<c, k>>][w]
    BY <1>2, <2>1, <2>2, <2>3
  <2>5. c \notin Used(w) => ~ (counted[<<c, k>>][w] > 0)
    BY DEF Used
  <2> QED BY <2>1, <2>4, <2>5
<1>4. Used(w) \subseteq Counters
  BY DEF Used
<1>5. \A c : Upto(c) \subseteq Counters /\ Cardinality(Upto(c)) \in Nat
  BY <1>4, CounterSets
<1>6. \A c \in Counters : c \in Nat
  BY ModelBounds
<1> HIDE DEF l, a
<1> DEFINE S == {c \in Nat : c <= MaxCounters =>
                   upTo[c] <= l * Cardinality(Upto(c))}
<1>7. \A c \in Nat : c \in S
  <2>1. 0 \in S
    <3>1. 0 \in Counters /\ upTo[0] = a(0)
      BY <1>1, ModelBounds
    <3>2. CASE 0 \in Used(w)
      <4>1. Upto(0) = {0}
        BY <1>4, <1>6, <3>2
      <4>2. Cardinality(Upto(0)) = 1
        BY <4>1, FS_Singleton
      <4> HIDE DEF Upto
      <4>3. l * Cardinality(Upto(0)) = l
        BY <1>2, <4>2
      <4> QED BY <1>3, <3>1, <4>3
    <3>3. CASE 0 \notin Used(w)
      <4>1. upTo[0] = 0
        BY <1>3, <3>1, <3>3
      <4>2. l * Cardinality(Upto(0)) >= 0
        <5> HIDE DEF Upto
        <5> QED BY <1>2, <1>5
      <4> QED BY <4>1, <4>2
    <3> QED BY <3>2, <3>3
  <2>2. ASSUME NEW c \in Nat, c \in S
        PROVE  c + 1 \in S
    <3> DEFINE d == c + 1
    <3> SUFFICES ASSUME d <= MaxCounters
                 PROVE  upTo[d] <= l * Cardinality(Upto(d))
      OBVIOUS
    <3>1. /\ d \in Counters /\ c \in Counters /\ d \in 1..MaxCounters
          /\ d - 1 = c /\ d \in Nat
      BY <1>2
    <3>2. upTo[c] <= l * Cardinality(Upto(c)) /\ upTo[c] \in Nat
      <4>1. c <= MaxCounters
        BY <1>2
      <4> QED BY <1>1, <2>2, <3>1, <4>1
    <3>3. upTo[d] = a(d) + upTo[c]
      BY <1>1, <3>1
    <3>4. \A e \in Used(w) : (e <= d <=> e <= c \/ e = d) /\ ~ (d <= c)
      <4>1. \A e \in Used(w) : e \in Nat
        BY <1>4, <1>6
      <4> QED BY <4>1
    <3>5. CASE d \in Used(w)
      <4>1. Upto(d) = Upto(c) \cup {d} /\ d \notin Upto(c)
        <5> HIDE DEF d
        <5> QED BY <3>4, <3>5
      <4>2. IsFiniteSet(Upto(c))
        BY <1>5, CounterSets
      <4> HIDE DEF Upto, d
      <4>3. Cardinality(Upto(d)) = Cardinality(Upto(c)) + 1
        BY <4>1, <4>2, FS_AddElement
      <4> DEFINE m == Cardinality(Upto(c))
      <4>4. m \in Nat
        BY <1>5
      <4>5. l * (m + 1) = l * m + l /\ l * m \in Nat
        BY <1>2, <4>4
      <4>6. a(d) \in Nat /\ a(d) <= l
        BY <1>3, <3>1
      <4>7. upTo[d] <= l * (m + 1)
        <5> HIDE DEF m
        <5>1. upTo[c] <= l * m
          BY <3>2 DEF m
        <5> QED BY <1>2, <3>2, <3>3, <4>5, <4>6, <5>1
      <4> QED BY <4>3, <4>7
    <3>6. CASE d \notin Used(w)
      <4>1. Upto(d) = Upto(c)
        <5> HIDE DEF d
        <5> QED BY <3>4, <3>6
      <4>2. a(d) = 0
        BY <1>3, <3>1, <3>6
      <4> HIDE DEF Upto, d
      <4> QED BY <3>2, <3>3, <4>1, <4>2
    <3> QED BY <3>5, <3>6
  <2> HIDE DEF S
  <2> QED BY <2>1, <2>2, SetInduction
<1>8. upTo[MaxCounters] <= l * Cardinality(Upto(MaxCounters))
  BY <1>2, <1>7
<1>9. Upto(MaxCounters) = Used(w)
  BY <1>2, <1>4
<1> QED BY <1>1, <1>8, <1>9 DEF l

(* For any number of workers and concurrent checks, and any order of       *)
(* starts, fallbacks and restarts: a key gets its limit once per worker,   *)
(* and once more per start in the window or in the next.                   *)
THEOREM DeploymentIsBounded == Spec => []DeploymentBound
<1>1. LifeInv /\ DeploymentInv => DeploymentBound
  <2> SUFFICES ASSUME LifeInv, DeploymentInv, NEW k \in Keys, NEW w \in AllWindows
               PROVE  Admitted(k, w) <=
                        Limit[k] * (Cardinality(Workers) + StartsFor(w))
    <3>1. \A a, b, c \in Nat : a + b + c = a + (b + c)
      OBVIOUS
    <3>2. ASSUME LifeInv, NEW w \in AllWindows
          PROVE  /\ Cardinality(Workers) \in Nat /\ starts[w] \in Nat
                 /\ (IF w + 1 \in AllWindows THEN starts[w + 1] ELSE 0) \in Nat
      BY <3>2, StartsNat DEF LifeInv, TypeOK
    <3> QED BY <3>1, <3>2 DEF DeploymentBound, StartsFor
  <2> DEFINE l == Limit[k]
             used == Cardinality(Used(w))
             most == Cardinality(Workers) + StartsFor(w)
  <2>1. Used(w) \subseteq InUse(w) /\ InUse(w) \subseteq Counters
    BY InUseCounters DEF InUse, LifeInv
  <2>2. used \in Nat /\ most \in Nat /\ l \in Nat
    BY <2>1, CounterSets, StartsNat, ModelBounds DEF LifeInv
  <2>3. used <= most
    <3>1. CASE w <= Window(now)
      <4>1. Cardinality(InUse(w)) <= most
        BY <3>1 DEF DeploymentInv, FewCounters
      <4>2. used <= Cardinality(InUse(w)) /\ Cardinality(InUse(w)) \in Nat
        BY <2>1, CounterSubset, CounterSets
      <4> HIDE DEF used, most
      <4> QED BY <2>2, <4>1, <4>2
    <3>2. CASE ~ (w <= Window(now))
      <4>1. w > Window(now)
        BY <3>2, ModelBounds, WindowBounds DEF LifeInv, TypeOK, WindowsTypeOK
      <4>2. Used(w) = {}
        <5>1. ASSUME NEW c \in Counters, NEW j \in Keys
              PROVE  ~ (counted[<<c, j>>][w] > 0)
          <6>1. counted[<<c, j>>][w] = 0
            BY <4>1 DEF DeploymentInv, NothingAhead
          <6> QED BY <6>1
        <5> QED BY <5>1 DEF Used
      <4>3. used = 0
        BY <4>2, FS_EmptySet
      <4> HIDE DEF used, most
      <4> QED BY <2>2, <4>3
    <3> QED BY <3>1, <3>2
  <2>4. Admitted(k, w) <= l * used
    BY AdmittedBound
  <2>5. PICK upTo \in [Counters -> Nat] : Admitted(k, w) = upTo[MaxCounters]
    BY AdmittedChain DEF LifeInv
  <2>6. Admitted(k, w) \in Nat
    BY <2>5, ModelBounds DEF Counters
  <2> HIDE DEF used, most, l
  <2>7. l * most = l * used + l * (most - used)
    BY <2>2, <2>3
  <2>8. l * (most - used) \in Nat /\ l * used \in Nat
    BY <2>2, <2>3
  <2>9. Admitted(k, w) <= l * most
    BY <2>4, <2>6, <2>7, <2>8
  <2> QED BY <2>9 DEF l, most
<1> QED BY <1>1, InitInv, InitDeployment, LifeInvStep, DeploymentStep, PTL DEF Spec
=============================================================================
