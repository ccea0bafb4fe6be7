------------------------------ MODULE FtdcProofs -------------------------------
(***************************************************************************)
(* Proofs about the module of Ftdc: first about the sampling timer of      *)
(* FtdcTimer by itself, then about the settings, and last that every step  *)
(* of the module is one of its timer, so that what holds of the timer holds *)
(* of the module.  For every set of intervals, timer identities, settings, *)
(* texts, argument lists and widths of a number.                           *)
(*                                                                         *)
(* That the next sample is within the interval rests on OneTimer: only     *)
(* because the module stops the one timer there is may the interval        *)
(* shrink.                                                                 *)
(***************************************************************************)
EXTENDS Ftdc, TLAPS, WellFoundedInduction

Inv == TypeOK /\ OneTimer /\ NextSampleWithinInterval
-----------------------------------------------------------------------------
(* Lemmas about the server's timers.                                       *)

\* Forgetting a timer leaves the others.
LEMMA WithoutType ==
  ASSUME NEW timers, NEW id
  PROVE  /\ DOMAIN Without(timers, id) = DOMAIN timers \ {id}
         /\ \A t \in DOMAIN Without(timers, id) : Without(timers, id)[t] = timers[t]
  BY DEF Without

\* Arming a timer where the server holds none leaves it with exactly one, of
\* the period asked for.
LEMMA ScheduleIntoNone ==
  ASSUME NEW timers, DOMAIN timers = {}, NEW period \in Interval,
         ScheduleTimer(timers, FALSE, period)
  PROVE  /\ timer_active' /\ timer_active' \in BOOLEAN
         /\ timer_id' \in TimerId
         /\ DOMAIN pending' = {timer_id'}
         /\ pending' \in [{timer_id'} -> Nat]
         /\ pending'[timer_id'] = period
<1>1. PICK id \in TimerId : /\ pending' = With(timers, id, period)
                            /\ timer_active' = TRUE
                            /\ timer_id' = id
  BY DEF ScheduleTimer
<1>2. pending' = [t \in {id} |-> IF t = id THEN period ELSE timers[t]]
  <2>1. DOMAIN timers \cup {id} = {id}
    OBVIOUS
  <2>. QED BY <1>1, <2>1 DEF With
<1>3. pending' \in [{id} -> Nat]
  <2>1. period \in Nat
    BY TimerAssumption
  <2>. QED BY <1>2, <2>1
<1>. QED BY <1>1, <1>2, <1>3

\* Whatever timers the server holds, stopping the module's own leaves none.
LEMMA StoppedIsNone ==
  ASSUME TypeOK, OneTimer
  PROVE  /\ DOMAIN StoppedTimers = {}
         /\ StoppedTimers \in [DOMAIN StoppedTimers -> Nat]
<1>1. CASE timer_active
  <2>1. DOMAIN pending = {timer_id}
    BY <1>1 DEF OneTimer
  <2>2. StoppedTimers = Without(pending, timer_id)
    BY <1>1 DEF StoppedTimers
  <2>3. StoppedTimers = [t \in {} |-> pending[t]]
    <3>1. DOMAIN pending \ {timer_id} = {}
      BY <2>1
    <3>. QED BY <2>2, <3>1 DEF Without
  <2>. QED BY <2>3
<1>2. CASE ~timer_active
  BY <1>2 DEF OneTimer, StoppedTimers, TypeOK
<1>. QED BY <1>1, <1>2

\* A module that is loaded and enabled with its one timer just armed, or
\* without a timer while it has none to want, is in the invariant.
LEMMA ArmedInv ==
  ASSUME loaded', enabled', loaded' \in BOOLEAN, enabled' \in BOOLEAN,
         interval_ms' \in Interval,
         timer_active', timer_active' \in BOOLEAN,
         timer_id' \in TimerId,
         DOMAIN pending' = {timer_id'},
         pending' \in [{timer_id'} -> Nat],
         pending'[timer_id'] = interval_ms'
  PROVE  Inv'
<1>1. TypeOK'
  BY DEF TypeOK
<1>2. OneTimer'
  BY TimerAssumption DEF OneTimer
<1>3. NextSampleWithinInterval'
  BY TimerAssumption DEF NextSampleWithinInterval
<1>. QED BY <1>1, <1>2, <1>3 DEF Inv

LEMMA UnarmedInv ==
  ASSUME loaded' \in BOOLEAN, enabled' \in BOOLEAN, interval_ms' \in Interval,
         loaded' => ~enabled',
         timer_active' = FALSE,
         timer_id' \in TimerId \cup {NoTimer},
         DOMAIN pending' = {},
         pending' \in [DOMAIN pending' -> Nat]
  PROVE  Inv'
<1>1. TypeOK'
  BY DEF TypeOK
<1>2. OneTimer'
  BY DEF OneTimer
<1>3. NextSampleWithinInterval'
  BY DEF NextSampleWithinInterval
<1>. QED BY <1>1, <1>2, <1>3 DEF Inv

\* A function with an empty domain maps into anything.
LEMMA NoTimersType ==
  /\ DOMAIN NoTimers = {}
  /\ NoTimers \in [DOMAIN NoTimers -> Nat]
  BY DEF NoTimers
-----------------------------------------------------------------------------
(* The invariant.                                                          *)

LEMMA InitInv == ASSUME Init PROVE Inv
<1>1. TypeOK
  BY NoTimersType DEF Init, TypeOK
<1>2. OneTimer
  BY NoTimersType DEF Init, OneTimer
<1>3. NextSampleWithinInterval
  BY NoTimersType DEF Init, NextSampleWithinInterval
<1>. QED BY <1>1, <1>2, <1>3 DEF Inv

LEMMA TickInv == ASSUME Inv, Tick PROVE Inv'
<1>1. /\ pending' = [t \in DOMAIN pending |-> Passed(pending[t])]
      /\ UNCHANGED <<loaded, enabled, interval_ms, timer_active, timer_id>>
  BY DEF Tick
<1>2. \A t \in DOMAIN pending : pending[t] \in Nat
  BY DEF Inv, TypeOK
<1>3. \A n \in Nat : Passed(n) \in Nat /\ Passed(n) <= n
  BY DEF Passed
<1>4. TypeOK'
  BY <1>1, <1>2, <1>3 DEF Inv, TypeOK
<1>5. OneTimer'
  BY <1>1 DEF Inv, OneTimer
<1>6. NextSampleWithinInterval'
  <2>1. interval_ms \in Nat
    BY TimerAssumption DEF Inv, TypeOK
  <2>2. ASSUME NEW t \in DOMAIN pending' PROVE pending'[t] <= interval_ms'
    <3>1. pending'[t] = Passed(pending[t]) /\ pending[t] \in Nat
          /\ pending[t] <= interval_ms /\ interval_ms' = interval_ms
      BY <1>1, <1>2, <2>2 DEF Inv, NextSampleWithinInterval
    <3>2. Passed(pending[t]) \in Nat /\ Passed(pending[t]) <= pending[t]
      BY <1>3, <3>1
    <3>. QED BY <2>1, <3>1, <3>2
  <2>. QED BY <2>2 DEF NextSampleWithinInterval
<1>. QED BY <1>4, <1>5, <1>6 DEF Inv

LEMMA NextInv == ASSUME Inv, [Next]_vars PROVE Inv'
<1>1. CASE Tick
  BY <1>1, TickInv
\* The timer that fires is the module's, and gives way to the next.
<1>2. ASSUME NEW id \in TimerId, TimerCallback(id) PROVE Inv'
  <2>1. timer_active /\ id = timer_id /\ loaded /\ enabled
    BY <1>2 DEF TimerCallback, Inv, OneTimer
  <2>2. DOMAIN Without(pending, id) = {}
    <3>1. DOMAIN pending = {id}
      BY <2>1 DEF Inv, OneTimer
    <3>. QED BY <3>1, WithoutType
  <2>3. /\ ScheduleTimer(Without(pending, id), FALSE, interval_ms)
        /\ UNCHANGED <<loaded, enabled, interval_ms>>
    BY <1>2, <2>1 DEF TimerCallback
  <2>4. interval_ms \in Interval
    BY DEF Inv, TypeOK
  <2>. QED BY <2>1, <2>2, <2>3, <2>4, ScheduleIntoNone, ArmedInv DEF Inv, TypeOK
<1>3. ASSUME NEW b \in BOOLEAN, SetEnabled(b) PROVE Inv'
  <2>1. loaded /\ enabled' = b /\ UNCHANGED <<loaded, interval_ms>>
    BY <1>3 DEF SetEnabled
  <2>2. CASE b /\ timer_active
    <3>1. pending' = pending /\ timer_active' = TRUE /\ timer_id' = timer_id
      BY <1>3, <2>2 DEF SetEnabled, ScheduleTimer
    <3>2. enabled
      BY <2>1, <2>2 DEF Inv, OneTimer
    <3>. QED
      BY <2>1, <2>2, <3>1, <3>2
      DEF Inv, TypeOK, OneTimer, NextSampleWithinInterval
  <2>3. CASE b /\ ~timer_active
    <3>1. ScheduleTimer(pending, FALSE, interval_ms)
      BY <1>3, <2>3 DEF SetEnabled, ScheduleTimer
    <3>2. DOMAIN pending = {}
      BY <2>3 DEF Inv, OneTimer
    <3>3. interval_ms \in Interval
      BY DEF Inv, TypeOK
    <3>. QED
      BY <2>1, <2>3, <3>1, <3>2, <3>3, ScheduleIntoNone, ArmedInv DEF Inv, TypeOK
  <2>4. CASE ~b
    <3>1. StopTimer
      BY <1>3, <2>4 DEF SetEnabled
    <3>. QED BY <2>1, <2>4, <3>1, StoppedIsNone, UnarmedInv DEF StopTimer, Inv, TypeOK
  <2>. QED BY <2>2, <2>3, <2>4
<1>4. ASSUME NEW i \in Interval, SetInterval(i) PROVE Inv'
  <2>1. loaded /\ interval_ms' = i /\ UNCHANGED <<loaded, enabled>>
    BY <1>4 DEF SetInterval
  <2>2. CASE enabled
    <3>1. ScheduleTimer(StoppedTimers, FALSE, i)
      BY <1>4, <2>2 DEF SetInterval
    <3>. QED
      BY <2>1, <2>2, <3>1, StoppedIsNone, ScheduleIntoNone, ArmedInv DEF Inv, TypeOK
  <2>3. CASE ~enabled
    <3>1. StopTimer
      BY <1>4, <2>3 DEF SetInterval
    <3>. QED BY <2>1, <2>3, <3>1, StoppedIsNone, UnarmedInv DEF StopTimer, Inv, TypeOK
  <2>. QED BY <2>2, <2>3
<1>5. ASSUME NEW b \in BOOLEAN, NEW i \in Interval, OnLoad(b, i) PROVE Inv'
  <2>1. loaded' = TRUE /\ enabled' = b /\ interval_ms' = i
    BY <1>5 DEF OnLoad
  <2>2. CASE b
    <3>1. ScheduleTimer(NoTimers, FALSE, i)
      BY <1>5, <2>2 DEF OnLoad
    <3>. QED BY <2>1, <2>2, <3>1, NoTimersType, ScheduleIntoNone, ArmedInv
  <2>3. CASE ~b
    <3>1. pending' = NoTimers /\ timer_active' = FALSE /\ timer_id' = NoTimer
      BY <1>5, <2>3 DEF OnLoad
    <3>2. DOMAIN pending' = {} /\ pending' \in [DOMAIN pending' -> Nat]
      BY <3>1, NoTimersType
    <3>. QED BY <2>1, <2>3, <3>1, <3>2, UnarmedInv
  <2>. QED BY <2>2, <2>3
\* The server lets a module go only when it holds no timer.
<1>6. CASE Unload
  <2>1. ~timer_active
    BY <1>6, NoTimersType DEF Unload, Inv, OneTimer
  <2>. QED BY <1>6, <2>1, NoTimersType, UnarmedInv DEF Unload, Inv, TypeOK
<1>7. CASE Restart
  BY <1>7, NoTimersType, UnarmedInv DEF Restart, Inv, TypeOK
<1>8. CASE UNCHANGED vars
  BY <1>8 DEF vars, Inv, TypeOK, OneTimer, NextSampleWithinInterval
<1>. QED BY <1>1, <1>2, <1>3, <1>4, <1>5, <1>6, <1>7, <1>8 DEF Next
-----------------------------------------------------------------------------
\* Every order of load, unload, callback, reconfiguration and restart keeps the
\* module and the server in agreement about the timer (src/ftdc.c:67-101).
THEOREM InvHolds == Spec => []Inv
  BY InitInv, NextInv, PTL DEF Spec

\* The variables stay within their types.
THEOREM TypeCorrect == Spec => []TypeOK
<1>1. Inv => TypeOK
  BY DEF Inv
<1>. QED BY <1>1, InvHolds, PTL

\* There is exactly one timer while sampling is enabled, and none otherwise
\* (src/ftdc.c:67-101, 296-308, 430-432).
THEOREM AlwaysOneTimer == Spec => []OneTimer
<1>1. Inv => OneTimer
  BY DEF Inv
<1>. QED BY <1>1, InvHolds, PTL

\* The next sample is never further away than the interval configured now
\* (src/ftdc.c:304-308).
THEOREM AlwaysWithinInterval == Spec => []NextSampleWithinInterval
<1>1. Inv => NextSampleWithinInterval
  BY DEF Inv
<1>. QED BY <1>1, InvHolds, PTL
-----------------------------------------------------------------------------
(* The settings.                                                           *)

\* What is configured is what was accepted last.
Stores(key, value) ==
  /\ key \in FlagKey => flag[key] = value
  /\ key \in NumberKey => value \in Int /\ number[key] = Stored(key, value)
  /\ key = "enabled" => enabled = value
  /\ key = "interval-ms" => interval_ms = value

\* What is configured is what was accepted last.
Settings ==
  /\ DOMAIN number = NumberKey /\ number = [key \in NumberKey |-> number[key]]
  /\ DOMAIN flag = FlagKey /\ flag = [key \in FlagKey |-> flag[key]]
  /\ DOMAIN accepted \subseteq Flags \cup Numbers
  /\ loaded => \A key \in DOMAIN accepted : Stores(key, accepted[key])

\* No setting is kept in two places.
LEMMA KeysApart ==
  /\ FlagKey \cap Numbers = {} /\ NumberKey \cap Flags = {}
  /\ "enabled" \notin FlagKey \cup Numbers
  /\ "interval-ms" \notin NumberKey \cup Flags
  /\ FlagKey \subseteq Flags /\ NumberKey \subseteq Numbers
  /\ Sizes \cap (Flags \cup {"interval-ms"}) = {}
  BY FtdcAssumption DEF Flags, Numbers, AllNumberKeys, Sizes

\* From megabytes to bytes and back is the way there and back.
LEMMA Products ==
  ASSUME NEW n \in Int, NEW d \in Nat \ {0}
  PROVE  Truncated(n * d, d) = n
<1>1. \A m \in Nat : (m * d) \div d = m
  OBVIOUS
<1>2. CASE n >= 0
  <2>1. n * d >= 0
    BY <1>2
  <2>. QED BY <1>1, <1>2, <2>1 DEF Truncated
<1>3. CASE n < 0
  <2>1. -n \in Nat /\ -(n * d) = (-n) * d
    BY <1>3
  <2>2. n * d < 0
    BY <1>3
  <2>3. (-(n * d)) \div d = -n
    BY <1>1, <2>1
  <2>. QED BY <2>2, <2>3 DEF Truncated
<1>. QED BY <1>2, <1>3

\* What is configured is reported, unless its bytes do not fit
\* (src/ftdc.c:193-222).
LEMMA SettingsReport ==
  ASSUME Settings
  PROVE  AcceptedIsReported
<1>. SUFFICES ASSUME loaded, NEW key \in DOMAIN accepted,
                     key \in Sizes => Fits(accepted[key])
     PROVE  Reported(key) = accepted[key]
  BY DEF AcceptedIsReported
<1>1. key \in Flags \cup Numbers /\ Stores(key, accepted[key])
  BY DEF Settings
<1>2. CASE key = "enabled"
  <2>1. key # "interval-ms" /\ key \notin FlagKey /\ key \notin Sizes
    BY <1>2, KeysApart DEF Flags
  <2>2. Reported(key) = enabled
    BY <1>2, <2>1 DEF Reported
  <2>. QED BY <1>1, <1>2, <2>2 DEF Stores
<1>3. CASE key = "interval-ms"
  <2>1. key # "enabled" /\ key \notin FlagKey /\ key \notin Sizes
    BY <1>3, KeysApart DEF Flags
  <2>2. Reported(key) = interval_ms
    BY <1>3, <2>1 DEF Reported
  <2>. QED BY <1>1, <1>3, <2>2 DEF Stores
<1>4. CASE key \in FlagKey
  <2>1. key # "enabled" /\ key # "interval-ms" /\ key \notin Sizes
    BY <1>4, KeysApart DEF Flags
  <2>2. Reported(key) = flag[key]
    BY <1>4, <2>1 DEF Reported
  <2>. QED BY <1>1, <1>4, <2>2 DEF Stores
<1>5. CASE key \in NumberKey
  <2>1. accepted[key] \in Int /\ number[key] = Stored(key, accepted[key])
    BY <1>1, <1>5 DEF Stores
  <2>2. key \notin FlagKey /\ key # "enabled" /\ key # "interval-ms"
    BY <1>5, KeysApart DEF Flags
  <2>3. CASE key \in Sizes
    <3>1. number[key] = accepted[key] * MB
      BY <2>1, <2>3 DEF Stored, Fits
    <3>2. Truncated(number[key], MB) = accepted[key]
      BY <2>1, <3>1, FtdcAssumption, Products
    <3>. QED BY <2>2, <2>3, <3>2 DEF Reported
  <2>4. CASE key \notin Sizes
    BY <2>1, <2>2, <2>4 DEF Reported, Stored
  <2>. QED BY <2>3, <2>4
<1>. QED BY <1>1, <1>2, <1>3, <1>4, <1>5 DEF Flags, Numbers
-----------------------------------------------------------------------------
(* Arguments.                                                              *)

\* A set of indices that is not empty has a last one.
LEMMA LastIndex ==
  ASSUME NEW n \in Nat, NEW at \in SUBSET (1..n), at # {}
  PROVE  \E i \in at : \A j \in at : j <= i
<1>. DEFINE left == {n - i : i \in at}
<1>0. \A i \in at : i \in Nat /\ n - i \in Nat
  OBVIOUS
<1>1. left \in SUBSET Nat /\ left # {}
  BY <1>0
<1>2. PICK k \in left : \A m \in left : <<m, k>> \notin OpToRel(<, Nat)
  <2>. HIDE DEF left
  <2>. QED BY <1>1, NatLessThanWellFounded, WFMin
<1>3. \A m \in left : k <= m
  <2>. SUFFICES ASSUME NEW m \in left, m < k PROVE FALSE
    <3>1. k \in Nat /\ \A m \in left : m \in Nat
      BY <1>1
    <3>. HIDE DEF left
    <3>. QED BY <3>1
  <2>1. <<m, k>> \in OpToRel(<, Nat)
    BY <1>1, <1>2 DEF OpToRel
  <2>. QED BY <2>1, <1>2
<1>4. PICK i \in at : k = n - i
  BY <1>2
<1>5. ASSUME NEW j \in at PROVE j <= i
  <2>1. n - j \in left
    OBVIOUS
  <2>2. n - i <= n - j
    BY <1>3, <1>4, <2>1
  <2>3. i \in Int /\ j \in Int
    BY <1>0
  <2>. HIDE DEF left
  <2>. QED BY <2>2, <2>3, SMTT(20)
<1>. QED BY <1>5

\* A value comes from an argument of its key, or there is none.
LEMMA GivenByArgument ==
  ASSUME NEW args \in LoadArguments, NEW key, NEW else
  PROVE  \/ /\ \A i \in DOMAIN args : args[i][1] # key
            /\ Given(args, key, else) = else
         \/ \E i \in DOMAIN args : /\ args[i][1] = key
                                   /\ Given(args, key, else) = Meant(key, args[i][2])
<1>. DEFINE at == {i \in DOMAIN args : args[i][1] = key}
            last == CHOOSE i \in at : \A j \in at : j <= i
<1>1. CASE at = {}
  BY <1>1 DEF Given
<1>2. CASE at # {}
  <2>1. Len(args) \in Nat /\ DOMAIN args = 1..Len(args)
    BY FtdcAssumption
  <2>2. at \in SUBSET (1..Len(args))
    BY <2>1
  <2>3. \E i \in at : \A j \in at : j <= i
    <3>. HIDE DEF at
    <3>. QED BY <1>2, <2>1, <2>2, LastIndex
  <2>4. last \in at
    <3>. HIDE DEF at
    <3>. QED BY <2>3
  <2>5. Given(args, key, else) = Meant(key, args[last][2])
    BY <1>2 DEF Given
  <2>. HIDE DEF last
  <2>. QED BY <2>4, <2>5
<1>. QED BY <1>1, <1>2

\* An argument that is accepted has a value of its key's kind.
LEMMA AcceptedKind ==
  ASSUME NEW key, NEW text \in AnyText, LoadAccepts(key, text)
  PROVE  /\ key \in Flags \cup Numbers
         /\ key \in Flags => Meant(key, text) \in BOOLEAN
         /\ key \in Numbers => /\ Meant(key, text) = text.number
                               /\ text.number \in Int /\ text.number # NotANumber
<1>1. key \in Flags \cup Numbers
  BY DEF LoadAccepts
<1>2. CASE key \in Flags
  <2>1. key \notin Numbers
    BY <1>2, KeysApart DEF Flags, Numbers
  <2>. QED BY <1>2, <2>1 DEF Meant
<1>3. CASE key \in Numbers
  <2>1. key \notin Flags
    BY <1>3, KeysApart DEF Flags, Numbers
  <2>. QED BY <1>3, <2>1 DEF Meant, LoadAccepts, IsNumber, AnyText
<1>. QED BY <1>1, <1>2, <1>3

\* What an accepted argument list gives a key that it names does not depend on
\* the value the key would have had.
LEMMA NamedIsGiven ==
  ASSUME NEW args \in LoadArguments,
         \A i \in DOMAIN args : LoadAccepts(args[i][1], args[i][2]),
         NEW key \in {args[i][1] : i \in DOMAIN args}
  PROVE  /\ key \in Flags \cup Numbers
         /\ \A else : Given(args, key, else) = Given(args, key, 0)
         /\ key \in Flags => Given(args, key, 0) \in BOOLEAN
         /\ key \in Numbers =>
              Given(args, key, 0) \in Int /\ Given(args, key, 0) # NotANumber
<1>1. \A else : Given(args, key, else) = Given(args, key, 0)
  <2>1. {i \in DOMAIN args : args[i][1] = key} # {}
    OBVIOUS
  <2>. QED BY <2>1 DEF Given
<1>2. PICK i \in DOMAIN args :
        args[i][1] = key /\ Given(args, key, 0) = Meant(key, args[i][2])
  BY GivenByArgument
<1>3. args[i][2] \in AnyText /\ LoadAccepts(key, args[i][2])
  BY <1>2, FtdcAssumption
<1>. QED BY <1>1, <1>2, <1>3, AcceptedKind
-----------------------------------------------------------------------------
(* The steps of the module.                                                *)

\* Nothing was accepted at first.
LEMMA SettingsInit == FtdcInit => Settings
  BY DEF FtdcInit, Init, Settings, DefaultNumber, DefaultFlag

\* Loading stores the last value of every key it names (src/ftdc.c:353-412).
LEMMA LoadSettings ==
  ASSUME Settings, NEW args \in LoadArguments, LoadsWith(args)
  PROVE  Settings'
<1>. DEFINE keys == {args[i][1] : i \in DOMAIN args}
<1>1. /\ \A i \in DOMAIN args : LoadAccepts(args[i][1], args[i][2])
      /\ enabled' = Given(args, "enabled", TRUE)
      /\ interval_ms' = Given(args, "interval-ms", MinInterval)
      /\ number' = [key \in NumberKey |->
                      LET n == Given(args, key, NotANumber)
                      IN  IF n = NotANumber THEN DefaultNumber[key] ELSE Stored(key, n)]
      /\ flag' = [key \in FlagKey |-> Given(args, key, DefaultFlag[key])]
      /\ accepted' = [key \in keys |-> Given(args, key, 0)]
  BY DEF LoadsWith, OnLoad
<1>2. ASSUME NEW key \in keys
      PROVE  /\ key \in Flags \cup Numbers
             /\ \A else : Given(args, key, else) = Given(args, key, 0)
             /\ key \in Flags => Given(args, key, 0) \in BOOLEAN
             /\ key \in Numbers =>
                  Given(args, key, 0) \in Int /\ Given(args, key, 0) # NotANumber
  <2>. HIDE DEF keys
  <2>1. \A i \in DOMAIN args : LoadAccepts(args[i][1], args[i][2])
    BY <1>1
  <2>. QED BY <2>1, NamedIsGiven DEF keys
<1>. HIDE DEF keys
<1>3. ASSUME NEW key \in keys
      PROVE  Stores(key, accepted[key])'
  <2>. DEFINE v == Given(args, key, 0)
  <2>0. accepted'[key] = v
    BY <1>1
  <2>1. key \in FlagKey => flag'[key] = v
    BY <1>1, <1>2
  <2>2. key \in NumberKey => v \in Int /\ number'[key] = Stored(key, v)
    <3>. SUFFICES ASSUME key \in NumberKey
         PROVE  v \in Int /\ number'[key] = Stored(key, v)
      OBVIOUS
    <3>1. key \in Numbers
      BY KeysApart
    <3>2. v \in Int /\ v # NotANumber /\ Given(args, key, NotANumber) = v
      BY <1>2, <3>1
    <3>. QED BY <1>1, <3>2
  <2>3. key = "enabled" => enabled' = v
    BY <1>1, <1>2
  <2>4. key = "interval-ms" => interval_ms' = v
    BY <1>1, <1>2
  <2>. HIDE DEF v
  <2>. QED BY <2>0, <2>1, <2>2, <2>3, <2>4 DEF Stores
<1>4. DOMAIN accepted' = keys /\ keys \in SUBSET (Flags \cup Numbers)
  BY <1>1, <1>2
<1>5. DOMAIN number' = NumberKey /\ number' = [key \in NumberKey |-> number'[key]]
  BY <1>1
<1>6. DOMAIN flag' = FlagKey /\ flag' = [key \in FlagKey |-> flag'[key]]
  BY <1>1
<1>. QED BY <1>3, <1>4, <1>5, <1>6 DEF Settings

\* FTDC.CONFIG SET stores the value of its key, and of no other
\* (src/ftdc.c:274-350).
LEMMA SetSettings ==
  ASSUME Settings, NEW key \in Flags \cup Numbers, NEW text \in Text,
         CommandConfigSet(key, text)
  PROVE  Settings'
<1>1. /\ loaded /\ SetAccepts(key, text) /\ Accepted(key, text)
  BY DEF CommandConfigSet
<1>2. /\ key \in Flags => Meant(key, text) \in BOOLEAN
      /\ key \in Numbers => Meant(key, text) = text.number /\ text.number \in Int
  BY <1>1, FtdcAssumption, AcceptedKind DEF SetAccepts
<1>3. /\ DOMAIN accepted' = DOMAIN accepted \cup {key}
      /\ accepted'[key] = Meant(key, text)
      /\ \A k \in DOMAIN accepted' \ {key} :
           k \in DOMAIN accepted /\ accepted'[k] = accepted[k]
  BY <1>1 DEF Accepted
<1>4. /\ key = "enabled" =>
           enabled' = Meant(key, text) /\ UNCHANGED <<interval_ms, number, flag>>
      /\ key = "interval-ms" =>
           interval_ms' = Meant(key, text) /\ UNCHANGED <<enabled, number, flag>>
      /\ key \in FlagKey =>
           /\ flag' = [flag EXCEPT ![key] = Meant(key, text)]
           /\ UNCHANGED <<enabled, interval_ms, number>>
      /\ key \in NumberKey =>
           /\ number' = [number EXCEPT ![key] = Stored(key, text.number)]
           /\ UNCHANGED <<enabled, interval_ms, flag>>
  <2>1. CASE key = "enabled"
    <3>1. key \notin FlagKey /\ key \notin NumberKey /\ key # "interval-ms"
      BY <2>1, KeysApart
    <3>2. SetEnabled(Meant(key, text)) /\ UNCHANGED <<number, flag>>
      BY <2>1, <3>1 DEF CommandConfigSet
    <3>3. enabled' = Meant(key, text) /\ UNCHANGED interval_ms
      BY <3>2 DEF SetEnabled
    <3>. QED BY <2>1, <3>1, <3>2, <3>3
  <2>2. CASE key = "interval-ms"
    <3>1. key \notin FlagKey /\ key \notin NumberKey /\ key # "enabled"
      BY <2>2, KeysApart DEF Flags
    <3>2. SetInterval(text.number) /\ UNCHANGED <<number, flag>>
      BY <2>2, <3>1 DEF CommandConfigSet
    <3>3. interval_ms' = text.number /\ UNCHANGED enabled
      BY <3>2 DEF SetInterval
    <3>4. key \in Numbers
      BY <2>2 DEF Numbers
    <3>. QED BY <1>2, <2>2, <3>1, <3>2, <3>3, <3>4
  <2>3. CASE key \in FlagKey
    <3>1. key \notin NumberKey /\ key # "enabled" /\ key # "interval-ms"
      BY <2>3, KeysApart DEF Flags
    <3>2. /\ flag' = [flag EXCEPT ![key] = Meant(key, text)]
          /\ UNCHANGED <<vars, number>>
      BY <2>3, <3>1 DEF CommandConfigSet
    <3>. QED BY <3>1, <3>2 DEF vars
  <2>4. CASE key \in NumberKey
    <3>1. key \notin FlagKey /\ key # "enabled" /\ key # "interval-ms"
      BY <2>4, KeysApart DEF Flags
    <3>2. /\ number' = [number EXCEPT ![key] = Stored(key, text.number)]
          /\ UNCHANGED <<vars, flag>>
      BY <2>4, <3>1 DEF CommandConfigSet
    <3>. QED BY <3>1, <3>2 DEF vars
  <2>. QED BY <2>1, <2>2, <2>3, <2>4 DEF Flags, Numbers
<1>5. /\ DOMAIN number' = NumberKey /\ number' = [k \in NumberKey |-> number'[k]]
      /\ \A k \in NumberKey \ {key} : number'[k] = number[k]
      /\ key \in NumberKey => number'[key] = Stored(key, text.number)
  <2>1. CASE key \in NumberKey
    BY <1>4, <2>1 DEF Settings
  <2>2. CASE key \notin NumberKey
    <3>1. number' = number
      BY <1>4, <2>2 DEF Flags, Numbers
    <3>. QED BY <2>2, <3>1 DEF Settings
  <2>. QED BY <2>1, <2>2
<1>6. /\ DOMAIN flag' = FlagKey /\ flag' = [k \in FlagKey |-> flag'[k]]
      /\ \A k \in FlagKey \ {key} : flag'[k] = flag[k]
      /\ key \in FlagKey => flag'[key] = Meant(key, text)
  <2>1. CASE key \in FlagKey
    BY <1>4, <2>1 DEF Settings
  <2>2. CASE key \notin FlagKey
    <3>1. flag' = flag
      BY <1>4, <2>2 DEF Flags, Numbers
    <3>. QED BY <2>2, <3>1 DEF Settings
  <2>. QED BY <2>1, <2>2
<1>7. /\ key # "enabled" => enabled' = enabled
      /\ key # "interval-ms" => interval_ms' = interval_ms
  BY <1>4 DEF Flags, Numbers
<1>8. ASSUME NEW k \in DOMAIN accepted'
      PROVE  Stores(k, accepted[k])'
  <2>1. CASE k = key
    <3>1. key \in NumberKey => Meant(key, text) = text.number /\ text.number \in Int
      BY <1>2, KeysApart
    <3>2. /\ k \in FlagKey => flag'[k] = Meant(key, text)
          /\ k \in NumberKey =>
               Meant(key, text) \in Int /\ number'[k] = Stored(k, Meant(key, text))
          /\ k = "enabled" => enabled' = Meant(key, text)
          /\ k = "interval-ms" => interval_ms' = Meant(key, text)
      BY <1>4, <1>5, <1>6, <2>1, <3>1
    <3>. QED BY <1>3, <2>1, <3>2 DEF Stores
  <2>2. CASE k # key
    <3>1. /\ k \in DOMAIN accepted /\ accepted'[k] = accepted[k]
          /\ Stores(k, accepted[k])
      BY <1>1, <1>3, <2>2 DEF Settings
    <3>. QED BY <1>5, <1>6, <1>7, <2>2, <3>1 DEF Stores
  <2>. QED BY <2>1, <2>2
<1>9. DOMAIN accepted' \in SUBSET (Flags \cup Numbers)
  BY <1>3 DEF Settings
<1>. QED BY <1>5, <1>6, <1>8, <1>9 DEF Settings

\* Every step keeps the settings.
LEMMA SettingsStep ==
  ASSUME Settings, [FtdcNext]_ftdcVars
  PROVE  Settings'
<1>1. ASSUME UNCHANGED <<enabled, interval_ms, number, flag, accepted>>,
             loaded' => loaded
      PROVE  Settings'
  <2>1. \A key \in DOMAIN accepted :
          Stores(key, accepted[key])' <=> Stores(key, accepted[key])
    BY <1>1 DEF Stores
  <2>. QED BY <1>1, <2>1 DEF Settings
<1>2. ASSUME NEW args \in LoadArguments, LoadsWith(args) \/ LoadRefused(args)
      PROVE  Settings'
  <2>1. CASE LoadsWith(args)
    BY <2>1, LoadSettings
  <2>2. CASE LoadRefused(args)
    BY <2>2, <1>1 DEF LoadRefused, ftdcVars, config, timerState
  <2>. QED BY <1>2, <2>1, <2>2
<1>3. CASE ModuleUnload
  BY <1>3, <1>1 DEF ModuleUnload, Unload
<1>4. CASE ProcessRestart
  <2>1. /\ loaded' = FALSE /\ accepted' = [key \in {} |-> 0]
        /\ UNCHANGED <<number, flag>>
    BY <1>4 DEF ProcessRestart, Restart
  <2>. QED BY <2>1 DEF Settings
<1>5. CASE CommandRotate \/ CommandSetPath
  BY <1>5, <1>1 DEF CommandRotate, CommandSetPath, config, timerState
<1>6. CASE CommandRead \/ UNCHANGED ftdcVars
  BY <1>6, <1>1 DEF CommandRead, ftdcVars, config, timerState
<1>7. ASSUME NEW key \in Flags \cup Numbers, NEW text \in Text,
             CommandConfigSet(key, text) \/ CommandConfigRefused(key, text)
      PROVE  Settings'
  <2>1. CASE CommandConfigSet(key, text)
    BY <2>1, SetSettings
  <2>2. CASE CommandConfigRefused(key, text)
    BY <2>2, <1>1 DEF CommandConfigRefused, ftdcVars, config, timerState
  <2>. QED BY <1>7, <2>1, <2>2
<1>8. ASSUME NEW id \in TimerId, Callback(id)
      PROVE  Settings'
  BY <1>8, <1>1 DEF Callback, TimerCallback
<1>9. CASE TimePasses
  BY <1>9, <1>1 DEF TimePasses, Tick
<1>10. CASE Disturbance
  BY <1>10, <1>1 DEF Disturbance, config, timerState
<1>. QED BY <1>2, <1>3, <1>4, <1>5, <1>6, <1>7, <1>8, <1>9, <1>10 DEF FtdcNext

\* Through loading, commands, callbacks and restarts, what is configured is what
\* was accepted last (src/ftdc.c:193-222, 274-412).
THEOREM SettingsHold == FtdcSpec => []Settings
  BY SettingsInit, SettingsStep, PTL DEF FtdcSpec

\* FTDC.CONFIG GET reports every setting as it was last given, sizes whose bytes
\* do not fit a long long excepted (src/ftdc.c:193-222, 309-317, 353-412).
THEOREM SettingsReported == FtdcSpec => []AcceptedIsReported
  BY SettingsHold, SettingsReport, PTL

\* Every step of the module is a step of its timer or leaves the timer alone.
LEMMA TimerStep ==
  ASSUME [FtdcNext]_ftdcVars
  PROVE  [Next]_vars
<1>1. ASSUME NEW args \in LoadArguments, LoadsWith(args)
      PROVE  Next
  <2>1. OnLoad(Given(args, "enabled", TRUE), Given(args, "interval-ms", MinInterval))
    BY <1>1 DEF LoadsWith
  <2>2. \A i \in DOMAIN args :
          LoadAccepts(args[i][1], args[i][2]) /\ args[i][2] \in AnyText
    BY <1>1, FtdcAssumption DEF LoadsWith
  <2>3. Given(args, "enabled", TRUE) \in BOOLEAN
    <3>1. "enabled" \in Flags
      BY DEF Flags
    <3>2. ASSUME NEW i \in DOMAIN args, args[i][1] = "enabled",
                 Given(args, "enabled", TRUE) = Meant("enabled", args[i][2])
          PROVE  Given(args, "enabled", TRUE) \in BOOLEAN
      <4>1. Meant("enabled", args[i][2]) \in BOOLEAN
        BY <2>2, <3>1, <3>2, AcceptedKind
      <4>. QED BY <3>2, <4>1
    <3>3. CASE Given(args, "enabled", TRUE) = TRUE
      BY <3>3
    <3>. QED BY <3>2, <3>3, GivenByArgument
  <2>4. Given(args, "interval-ms", MinInterval) \in Interval
    <3>1. "interval-ms" \in Numbers
      BY DEF Numbers
    <3>2. CASE Given(args, "interval-ms", MinInterval) = MinInterval
      BY <3>2, IntervalAssumption
    <3>3. ASSUME NEW i \in DOMAIN args, args[i][1] = "interval-ms",
                 Given(args, "interval-ms", MinInterval)
                   = Meant("interval-ms", args[i][2])
          PROVE  Given(args, "interval-ms", MinInterval) \in Interval
      <4>1. Given(args, "interval-ms", MinInterval) = args[i][2].number
            /\ args[i][2].number # NotANumber
        BY <2>2, <3>1, <3>3, AcceptedKind
      <4>. QED BY <3>3, <4>1, IntervalAssumption
    <3>. QED BY <3>2, <3>3, GivenByArgument
  <2>. QED BY <2>1, <2>3, <2>4 DEF Next
<1>2. ASSUME NEW key \in Flags \cup Numbers, NEW text \in Text,
             CommandConfigSet(key, text)
      PROVE  [Next]_vars
  <2>1. SetAccepts(key, text) /\ text \in AnyText
    BY <1>2, FtdcAssumption DEF CommandConfigSet
  <2>2. CASE key = "enabled"
    <3>1. key \in Flags /\ key \notin FlagKey /\ key # "interval-ms"
      BY <2>2, KeysApart DEF Flags
    <3>2. SetEnabled(Meant(key, text))
      BY <1>2, <2>2, <3>1 DEF CommandConfigSet
    <3>3. Meant(key, text) \in BOOLEAN
      BY <2>1, <3>1, AcceptedKind DEF SetAccepts
    <3>. QED BY <3>2, <3>3 DEF Next
  <2>3. CASE key = "interval-ms"
    <3>1. key \in Numbers /\ key \notin FlagKey /\ key # "enabled"
      BY <2>3, KeysApart DEF Flags, Numbers
    <3>2. SetInterval(text.number)
      BY <1>2, <2>3, <3>1 DEF CommandConfigSet
    <3>3. text.number >= MinInterval /\ text.number # NotANumber
      <4>1. Minimum(key) = MinInterval
        BY <2>3 DEF Minimum
      <4>. QED BY <2>1, <3>1, <4>1, AcceptedKind DEF SetAccepts
    <3>4. text.number \in Interval
      BY <3>3, IntervalAssumption
    <3>. QED BY <3>2, <3>4 DEF Next
  <2>4. CASE key \in FlagKey \cup NumberKey
    <3>1. key # "enabled" /\ key # "interval-ms"
      BY <2>4, KeysApart DEF Flags
    <3>2. UNCHANGED vars
      BY <1>2, <2>4, <3>1 DEF CommandConfigSet
    <3>. QED BY <3>2
  <2>. QED BY <2>2, <2>3, <2>4 DEF Flags, Numbers
<1>3. CASE UNCHANGED ftdcVars
  BY <1>3 DEF ftdcVars, config, timerState, vars
<1>4. CASE \E args \in LoadArguments : LoadRefused(args)
  BY <1>4, <1>3 DEF LoadRefused
<1>5. CASE CommandRotate \/ CommandSetPath \/ Disturbance
  BY <1>5 DEF CommandRotate, CommandSetPath, Disturbance, config, timerState, vars
<1>6. CASE \/ CommandRead
           \/ \E key \in Flags \cup Numbers, text \in Text :
                CommandConfigRefused(key, text)
  BY <1>6, <1>3 DEF CommandRead, CommandConfigRefused
<1>7. CASE ModuleUnload \/ ProcessRestart \/ TimePasses
  BY <1>7 DEF ModuleUnload, ProcessRestart, TimePasses, Next
<1>8. CASE \E id \in TimerId : Callback(id)
  BY <1>8 DEF Callback, Next
<1>. QED BY <1>1, <1>2, <1>3, <1>4, <1>5, <1>6, <1>7, <1>8 DEF FtdcNext

\* So the invariant of the timer holds of the module, with its commands,
\* its arguments and its write path (src/ftdc.c:67-101, 296-308, 414-432).
THEOREM TimerInvHolds == FtdcSpec => []Inv
<1>1. FtdcInit => Inv
  BY InitInv DEF FtdcInit
<1>2. Inv /\ [FtdcNext]_ftdcVars => Inv'
  BY TimerStep, NextInv
<1>. QED BY <1>1, <1>2, PTL DEF FtdcSpec

\* The variables of the timer stay within their types.
THEOREM ModuleTypeCorrect == FtdcSpec => []TypeOK
<1>1. Inv => TypeOK
  BY DEF Inv
<1>. QED BY <1>1, TimerInvHolds, PTL

\* While sampling is enabled the server holds exactly one timer of the module,
\* and none otherwise (src/ftdc.c:67-101, 296-308, 430-432).
THEOREM ModuleHasOneTimer == FtdcSpec => []OneTimer
<1>1. Inv => OneTimer
  BY DEF Inv
<1>. QED BY <1>1, TimerInvHolds, PTL

\* The next sample is never further away than the interval that is configured,
\* by an argument or by a command (src/ftdc.c:304-308).
THEOREM ModuleSamplesWithinInterval == FtdcSpec => []NextSampleWithinInterval
<1>1. Inv => NextSampleWithinInterval
  BY DEF Inv
<1>. QED BY <1>1, TimerInvHolds, PTL
=============================================================================
