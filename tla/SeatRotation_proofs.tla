------------------------ MODULE SeatRotation_proofs -------------------------
(***************************************************************************)
(* Theorems about SeatRotation for every set of clients, drivers and       *)
(* timers.                                                                 *)
(*                                                                         *)
(* The argument: a pair just issued is known to the party that received it *)
(* and to nobody else until it is written to the row, so no other party    *)
(* can trade it; and the last pair a client has on its way is live.        *)
(***************************************************************************)
EXTENDS SeatRotation, TLAPS

-----------------------------------------------------------------------------
(* The inductive invariant.                                                *)

Hand(d)  == pc[d] \in {"answered", "applied"}
Turned(t) == timer[t].at = "turned"

Distinct(s)  == \A i, j \in DOMAIN s : s[i] = s[j] => i = j
Ascending(s) == \A i, j \in DOMAIN s : i < j => s[i] < s[j]

Bounds ==
  /\ \A g \in live : g <= issued
  /\ row.token <= issued
  /\ \A c \in Clients : memory[c] <= issued
  /\ \A c \in Clients : \A g \in Queued(c) : g <= issued
  /\ \A d \in Drivers : held[d] <= issued
  /\ \A t \in Timers : timer[t].token <= issued

(* The flush finds no driver at work, and takes all of the queue.          *)
PhaseInv ==
  \A c \in Clients :
    /\ phase[c] \in {"off", "flushing", "ended"} =>
         queue[c] = <<>> /\ \A d \in Drivers : ClientOf[d] = c => pc[d] = "idle"
    /\ phase[c] # "flushing" => taken[c] = <<>>

NoRepeats == \A c \in Clients : Distinct(queue[c]) /\ Distinct(taken[c])

(* Who else knows a pair that is queued, ...                               *)
QueuedPrivate ==
  \A c \in Clients : \A g \in Queued(c) :
    /\ row.token # g
    /\ \A t \in Timers : timer[t].token # g
    /\ \A b \in Clients : b # c => memory[b] # g /\ g \notin Queued(b)
    /\ \A d \in Drivers : ClientOf[d] # c \/ Hand(d) => held[d] # g

(* ... one in the hands of a driver, ...                                   *)
HandPrivate ==
  \A d \in Drivers : Hand(d) =>
    /\ held[d] # NoToken /\ row.token # held[d]
    /\ \A t \in Timers : timer[t].token # held[d]
    /\ \A b \in Clients : b # ClientOf[d] => memory[b] # held[d]
    /\ \A e \in Drivers : e # d =>
         (ClientOf[e] # ClientOf[d] \/ Hand(e) => held[e] # held[d])

(* ... and one in the hands of a timer: nobody.                            *)
TurnedPrivate ==
  \A t \in Timers : Turned(t) =>
    /\ timer[t].token \in live /\ row.token # timer[t].token
    /\ \A c \in Clients : memory[c] # timer[t].token
    /\ \A d \in Drivers : held[d] # timer[t].token
    /\ \A u \in Timers : u # t => timer[u].token # timer[t].token

(* A timer whose version still stands has read the token that stands.      *)
VersionInv ==
  \A t \in Timers :
    /\ timer[t].seen <= row.version
    /\ timer[t].at = "asking" => (timer[t].seen = row.version <=> timer[t].token = row.token)
    /\ Turned(t) /\ timer[t].seen = row.version => row.token \notin live

AInv == /\ TypeOK /\ Bounds /\ PhaseInv /\ NoRepeats
        /\ QueuedPrivate /\ HandPrivate /\ TurnedPrivate /\ VersionInv

-----------------------------------------------------------------------------
(* Sequences.                                                              *)

LEMMA EmptyFacts == /\ ToSet(<<>>) = {} /\ Distinct(<<>>) /\ Ascending(<<>>)
BY DEF ToSet, Distinct, Ascending

LEMMA AppendFacts ==
  ASSUME NEW s \in Seq(Tokens), NEW x \in Tokens
  PROVE  /\ Append(s, x) \in Seq(Tokens)
         /\ ToSet(Append(s, x)) = ToSet(s) \cup {x}
         /\ Distinct(s) /\ x \notin ToSet(s) => Distinct(Append(s, x))
         /\ Ascending(s) /\ (\A g \in ToSet(s) : g < x) => Ascending(Append(s, x))
<1> DEFINE a == Append(s, x)
<1>1. /\ a \in Seq(Tokens) /\ DOMAIN s = 1 .. Len(s) /\ Len(s) \in Nat
      /\ DOMAIN a = 1 .. Len(s) + 1
      /\ \A i \in 1 .. Len(s) : a[i] = s[i] /\ s[i] \in Tokens
      /\ a[Len(s) + 1] = x
  OBVIOUS
<1> HIDE DEF a
<1>2. ToSet(a) = ToSet(s) \cup {x}
  <2>1. ASSUME NEW g \in ToSet(a) PROVE g \in ToSet(s) \cup {x}
    <3>1. PICK i \in 1 .. Len(s) + 1 : g = a[i]
      BY <1>1 DEF ToSet
    <3>2. i \in 1 .. Len(s) \/ i = Len(s) + 1
      BY <1>1
    <3> QED BY <3>1, <3>2, <1>1 DEF ToSet
  <2>2. ASSUME NEW g \in ToSet(s) \cup {x} PROVE g \in ToSet(a)
    <3>1. CASE g = x
      <4>1. Len(s) + 1 \in DOMAIN a
        BY <1>1
      <4> QED BY <3>1, <4>1, <1>1 DEF ToSet
    <3>2. CASE g \in ToSet(s)
      <4>1. PICK i \in 1 .. Len(s) : g = s[i]
        BY <3>2, <1>1 DEF ToSet
      <4>2. i \in DOMAIN a /\ a[i] = g
        BY <4>1, <1>1
      <4> QED BY <4>2 DEF ToSet
    <3> QED BY <3>1, <3>2
  <2> QED BY <2>1, <2>2
<1>3. \A i \in 1 .. Len(s) : s[i] \in ToSet(s)
  BY <1>1 DEF ToSet
<1>4. ASSUME Distinct(s), x \notin ToSet(s) PROVE Distinct(a)
  <2> SUFFICES ASSUME NEW i \in DOMAIN a, NEW j \in DOMAIN a, a[i] = a[j] PROVE i = j
    BY DEF Distinct
  <2>1. CASE i \in 1 .. Len(s) /\ j \in 1 .. Len(s)
    BY <2>1, <1>1, <1>4 DEF Distinct
  <2>2. CASE i = Len(s) + 1 \/ j = Len(s) + 1
    BY <2>2, <1>1, <1>3, <1>4
  <2> QED BY <2>1, <2>2, <1>1
<1>5. ASSUME Ascending(s), \A g \in ToSet(s) : g < x PROVE Ascending(a)
  <2> SUFFICES ASSUME NEW i \in DOMAIN a, NEW j \in DOMAIN a, i < j PROVE a[i] < a[j]
    BY DEF Ascending
  <2>1. i \in 1 .. Len(s)
    BY <1>1
  <2>2. CASE j \in 1 .. Len(s)
    BY <2>1, <2>2, <1>1, <1>5 DEF Ascending
  <2>3. CASE j = Len(s) + 1
    BY <2>1, <2>3, <1>1, <1>3, <1>5
  <2> QED BY <2>2, <2>3, <1>1
<1> QED BY <1>1, <1>2, <1>4, <1>5 DEF a

LEMMA TailFacts ==
  ASSUME NEW s \in Seq(Tokens), s # <<>>
  PROVE  /\ Tail(s) \in Seq(Tokens) /\ Head(s) \in Tokens
         /\ ToSet(s) = ToSet(Tail(s)) \cup {Head(s)}
         /\ Distinct(s) => Distinct(Tail(s)) /\ Head(s) \notin ToSet(Tail(s))
         /\ Ascending(s) => Ascending(Tail(s)) /\ \A g \in ToSet(Tail(s)) : Head(s) < g
<1> DEFINE b == Tail(s)
<1>1. /\ b \in Seq(Tokens) /\ Len(s) \in Nat \ {0} /\ DOMAIN s = 1 .. Len(s)
      /\ DOMAIN b = 1 .. Len(s) - 1
      /\ \A i \in 1 .. Len(s) - 1 : b[i] = s[i + 1] /\ i + 1 \in 1 .. Len(s)
      /\ Head(s) = s[1] /\ s[1] \in Tokens
      /\ \A j \in 1 .. Len(s) : j # 1 => j - 1 \in 1 .. Len(s) - 1 /\ b[j - 1] = s[j]
  OBVIOUS
<1> HIDE DEF b
<1>2. ToSet(s) = ToSet(b) \cup {s[1]}
  <2>1. ASSUME NEW g \in ToSet(s) PROVE g \in ToSet(b) \cup {s[1]}
    <3>1. PICK j \in 1 .. Len(s) : g = s[j]
      BY <1>1 DEF ToSet
    <3> QED BY <3>1, <1>1 DEF ToSet
  <2>2. ASSUME NEW g \in ToSet(b) PROVE g \in ToSet(s)
    <3>1. PICK i \in 1 .. Len(s) - 1 : g = b[i]
      BY <1>1 DEF ToSet
    <3> QED BY <3>1, <1>1 DEF ToSet
  <2>3. s[1] \in ToSet(s)
    BY <1>1 DEF ToSet
  <2> QED BY <2>1, <2>2, <2>3
<1>3. ASSUME Distinct(s) PROVE Distinct(b) /\ s[1] \notin ToSet(b)
  <2>1. ASSUME NEW i \in DOMAIN b, NEW j \in DOMAIN b, b[i] = b[j] PROVE i = j
    <3>1. i + 1 \in DOMAIN s /\ j + 1 \in DOMAIN s
          /\ b[i] = s[i + 1] /\ b[j] = s[j + 1]
      BY <1>1
    <3>2. i + 1 = j + 1
      BY <3>1, <2>1, <1>3 DEF Distinct
    <3> QED BY <3>2, <1>1
  <2>2. ASSUME NEW i \in DOMAIN b PROVE s[1] # b[i]
    <3>1. i + 1 \in DOMAIN s /\ 1 \in DOMAIN s /\ i + 1 # 1 /\ b[i] = s[i + 1]
      BY <1>1
    <3> QED BY <3>1, <1>3 DEF Distinct
  <2> QED BY <2>1, <2>2 DEF Distinct, ToSet
<1>4. ASSUME Ascending(s) PROVE Ascending(b) /\ \A g \in ToSet(b) : s[1] < g
  <2>1. ASSUME NEW i \in DOMAIN b, NEW j \in DOMAIN b, i < j PROVE b[i] < b[j]
    <3>1. i + 1 \in DOMAIN s /\ j + 1 \in DOMAIN s /\ i + 1 < j + 1
          /\ b[i] = s[i + 1] /\ b[j] = s[j + 1]
      BY <2>1, <1>1
    <3> QED BY <3>1, <1>4 DEF Ascending
  <2>2. ASSUME NEW i \in DOMAIN b PROVE s[1] < b[i]
    <3>1. i + 1 \in DOMAIN s /\ 1 \in DOMAIN s /\ 1 < i + 1 /\ b[i] = s[i + 1]
      BY <1>1
    <3> QED BY <3>1, <1>4 DEF Ascending
  <2> QED BY <2>1, <2>2 DEF Ascending, ToSet
<1>5. b = Tail(s) /\ Head(s) = s[1]
  BY <1>1 DEF b
<1> QED BY <1>1, <1>2, <1>3, <1>4, <1>5, Zenon

-----------------------------------------------------------------------------
(* The part of the invariant that no misfortune breaks.                    *)

LEMMA SameQueued ==
  UNCHANGED <<queue, taken>> => \A c \in Clients : Queued(c)' = Queued(c)
BY DEF Queued

LEMMA TokenFacts == Tokens \subseteq Nat /\ NoToken \notin Tokens /\ NoToken \in Nat
BY SeatAssumption DEF Tokens, NoToken

LEMMA QueuedTokens == TypeOK => \A c \in Clients : Queued(c) \subseteq Tokens
BY DEF TypeOK, Queued, ToSet

LEMMA TradeFacts ==
  ASSUME TypeOK, Bounds, NEW old, Trade(old)
  PROVE  /\ issued' = issued + 1 /\ issued \in Nat /\ issued' \in Tokens
         /\ live' \subseteq Tokens /\ issued' \in live'
         /\ \A g \in live' : g <= issued'
         /\ \A g \in live : g # old => g \in live'
         /\ \A g \in live' : g \in live \/ g = issued'
         /\ old \in live /\ old \notin live' /\ old # NoToken
         /\ aged' = aged /\ logins' = logins /\ aged' \in 0 .. issued'
<1>1. issued' = issued + 1 /\ issued \in Nat /\ issued' \in Tokens
  BY SeatAssumption DEF TypeOK, Trade, Tokens
<1>2. live' = (live \ {old}) \cup {issued'} /\ old \in live /\ old \in Tokens
  BY <1>1 DEF TypeOK, Trade
<1>3. \A g \in live : g <= issued /\ g \in Nat
  BY SeatAssumption DEF TypeOK, Bounds, Tokens
<1>4. old # NoToken /\ old # issued'
  BY <1>1, <1>2, <1>3 DEF Tokens, NoToken
<1>5. \A g \in live' : g <= issued'
  BY <1>1, <1>2, <1>3
<1>6. aged' = aged /\ logins' = logins /\ aged' \in 0 .. issued'
  BY <1>1 DEF Trade, TypeOK
<1> QED BY <1>1, <1>2, <1>4, <1>5, <1>6 DEF TypeOK

(* A step of a driver that gives it no new pair.                           *)
LEMMA QuietDriver ==
  ASSUME AInv, NEW d \in Drivers, ~Hand(d),
         NEW x \in {"idle", "calling", "asking"},
         NEW h \in {NoToken, memory[ClientOf[d]]},
         \/ x = "idle" \/ pc[d] # "idle"
         \/ phase[ClientOf[d]] \notin {"off", "flushing", "ended"},
         pc' = [pc EXCEPT ![d] = x], held' = [held EXCEPT ![d] = h],
         UNCHANGED <<live, issued, aged, logins>> \/ Trade(held[d]),
         UNCHANGED <<row, clientVars, timer>>, spoilt' \subseteq Misfortunes
  PROVE  AInv'
<1> USE DEF AInv, clientVars
<1>1. /\ \A c \in Clients : Queued(c)' = Queued(c)
      /\ UNCHANGED <<row, memory, queue, taken, phase, timer>>
  BY SameQueued
<1>2. ClientOf[d] \in Clients /\ h \in Tokens \cup {NoToken}
  BY SeatAssumption DEF TypeOK
<1>3. /\ \A e \in Drivers : e # d => pc'[e] = pc[e] /\ held'[e] = held[e]
      /\ pc'[d] = x /\ held'[d] = h
      /\ \A e \in Drivers : Hand(e)' <=> (e # d /\ Hand(e))
      /\ \A t \in Timers : Turned(t)' <=> Turned(t)
  BY <1>1 DEF TypeOK, Hand, Turned
<1>4. /\ issued \in Nat /\ issued' \in Tokens /\ issued <= issued'
      /\ live' \subseteq Tokens /\ aged' \in 0 .. issued' /\ logins' = logins
      /\ \A g \in live' : g <= issued' /\ (g \in live \/ g > issued)
      /\ \A g \in live : g # held[d] => g \in live'
  <2>1. CASE Trade(held[d])
    BY <2>1, TradeFacts
  <2>2. CASE UNCHANGED <<live, issued, aged, logins>>
    BY <2>2, SeatAssumption DEF TypeOK, Bounds, Tokens
  <2> QED BY <2>1, <2>2
<1>5. TypeOK'
  BY <1>1, <1>2, <1>4 DEF TypeOK
<1>6. Bounds'
  <2>0. h <= issued /\ h \in Nat
    BY <1>2, <1>4, TokenFacts DEF Bounds, NoToken
  <2>1. \A e \in Drivers : held'[e] <= issued'
    <3> SUFFICES ASSUME NEW e \in Drivers PROVE held'[e] <= issued'
      OBVIOUS
    <3>1. held[e] <= issued /\ held[e] \in Nat
      BY TokenFacts DEF Bounds, TypeOK
    <3>2. issued' \in Nat
      BY <1>4, TokenFacts
    <3>3. held'[e] = held[e] \/ held'[e] = h
      BY <1>3
    <3> QED BY <2>0, <3>1, <3>2, <3>3, <1>4
  <2>2. \A c \in Clients : Queued(c) \subseteq Tokens
    BY QueuedTokens
  <2>3. row.token \in Nat /\ \A c \in Clients : memory[c] \in Nat
    BY DEF TypeOK, Tokens, NoToken
  <2>4. \A t \in Timers : timer[t].token \in Nat
    BY DEF TypeOK, Tokens, NoToken
  <2>5. \A c \in Clients : \A g \in Queued(c) : g <= issued'
    BY <2>2, <1>4 DEF Bounds, Tokens
  <2>6. row.token <= issued' /\ \A c \in Clients : memory[c] <= issued'
    BY <2>3, <1>4 DEF Bounds, Tokens
  <2>7. \A t \in Timers : timer[t].token <= issued'
    BY <2>4, <1>4 DEF Bounds, Tokens
  <2> QED BY <2>1, <2>5, <2>6, <2>7, <1>1, <1>4 DEF Bounds
<1>7. PhaseInv'
  BY <1>1, <1>2, <1>3 DEF PhaseInv
<1>8. NoRepeats'
  BY <1>1 DEF NoRepeats
<1>9. QueuedPrivate'
  <2>1. \A c \in Clients : \A g \in Queued(c) : g # NoToken
    BY QueuedTokens, TokenFacts
  <2>2. \A c \in Clients : \A g \in Queued(c) : \A e \in Drivers :
          (ClientOf[e] # c \/ Hand(e)') => held'[e] # g
    BY <2>1, <1>2, <1>3 DEF QueuedPrivate
  <2> QED BY <2>2, <1>1 DEF QueuedPrivate
<1>10. HandPrivate'
  <2> SUFFICES ASSUME NEW e \in Drivers, e # d, Hand(e)
               PROVE  /\ held[e] # NoToken /\ row.token # held[e]
                      /\ \A t \in Timers : timer[t].token # held[e]
                      /\ \A b \in Clients : b # ClientOf[e] => memory[b] # held[e]
                      /\ \A f \in Drivers : f # e =>
                          (ClientOf[f] # ClientOf[e] \/ Hand(f)' => held'[f] # held[e])
    BY <1>1, <1>3 DEF HandPrivate
  <2>1. \A f \in Drivers : f # e =>
                          (ClientOf[f] # ClientOf[e] \/ Hand(f)' => held'[f] # held[e])
    BY <1>2, <1>3 DEF HandPrivate
  <2> QED BY <2>1 DEF HandPrivate
<1>11. TurnedPrivate'
  <2>1. \A t \in Timers : Turned(t) =>
          timer[t].token \in live' /\ \A e \in Drivers : held'[e] # timer[t].token
    <3> SUFFICES ASSUME NEW t \in Timers, Turned(t), NEW e \in Drivers
                 PROVE  timer[t].token \in live' /\ held'[e] # timer[t].token
      BY DEF TurnedPrivate
    <3>1. timer[t].token \in live /\ timer[t].token # NoToken
      BY TokenFacts DEF TurnedPrivate, TypeOK
    <3>2. h # timer[t].token /\ held[e] # timer[t].token
      BY <3>1, <1>2 DEF TurnedPrivate
    <3> QED BY <3>1, <3>2, <1>3, <1>4 DEF TurnedPrivate
  <2> QED BY <2>1, <1>1, <1>3 DEF TurnedPrivate
<1>12. VersionInv'
  <2>1. row.token \in Nat /\ row.token <= issued
    BY DEF TypeOK, Bounds, Tokens
  <2>2. row.token \notin live => row.token \notin live'
    BY <2>1, <1>4 DEF Tokens
  <2> QED BY <2>2, <1>1, <1>3 DEF VersionInv
<1> QED BY <1>5, <1>6, <1>7, <1>8, <1>9, <1>10, <1>11, <1>12

(* The pair just issued is unlike any other.                               *)
LEMMA FreshFacts ==
  ASSUME TypeOK, Bounds, NEW g, g = issued + 1
  PROVE  /\ row.token # g
         /\ \A t \in Timers : timer[t].token # g
         /\ \A c \in Clients : memory[c] # g /\ g \notin Queued(c)
         /\ \A d \in Drivers : held[d] # g
         /\ g \notin live /\ issued \in Nat
<1>1. issued \in Nat
  BY TokenFacts DEF TypeOK
<1>2. \A n \in Tokens \cup {NoToken} : n <= issued => n # g
  BY <1>1, TokenFacts
<1>3. row.token # g /\ g \notin live
  BY <1>2 DEF TypeOK, Bounds
<1>4. \A t \in Timers : timer[t].token # g
  BY <1>2 DEF TypeOK, Bounds
<1>5. \A c \in Clients : memory[c] # g
  BY <1>2 DEF TypeOK, Bounds
<1>6. \A c \in Clients : g \notin Queued(c)
  BY <1>2, QueuedTokens DEF Bounds
<1>7. \A d \in Drivers : held[d] # g
  BY <1>2 DEF TypeOK, Bounds
<1> QED BY <1>1, <1>3, <1>4, <1>5, <1>6, <1>7

(* What a trade leaves of the bounds that nobody else moves.               *)
LEMMA BoundsGrow ==
  ASSUME TypeOK, Bounds, issued' \in Nat, issued <= issued'
  PROVE  /\ row.token <= issued'
         /\ \A c \in Clients : memory[c] <= issued' /\ \A g \in Queued(c) : g <= issued'
         /\ \A d \in Drivers : held[d] <= issued'
         /\ \A t \in Timers : timer[t].token <= issued'
<1>1. issued \in Nat
  BY TokenFacts DEF TypeOK
<1>2. \A n \in Tokens \cup {NoToken} : n <= issued => n <= issued'
  BY <1>1, TokenFacts
<1>3. row.token <= issued'
  BY <1>2 DEF TypeOK, Bounds
<1>4. \A t \in Timers : timer[t].token <= issued'
  BY <1>2 DEF TypeOK, Bounds
<1>5. \A c \in Clients : memory[c] <= issued'
  BY <1>2 DEF TypeOK, Bounds
<1>6. \A c \in Clients : \A g \in Queued(c) : g <= issued'
  BY <1>2, QueuedTokens DEF Bounds
<1>7. \A d \in Drivers : held[d] <= issued'
  BY <1>2 DEF TypeOK, Bounds
<1> QED BY <1>3, <1>4, <1>5, <1>6, <1>7

LEMMA AnsweredKeeps ==
  ASSUME AInv, NEW d \in Drivers, Answered(d)
  PROVE  AInv'
<1> USE DEF AInv, clientVars
<1>1. /\ \A c \in Clients : Queued(c)' = Queued(c)
      /\ UNCHANGED <<row, memory, queue, taken, phase, timer>>
      /\ spoilt' \subseteq Misfortunes
  BY SameQueued DEF Answered, Spoils, Misfortunes, TypeOK
<1>2. pc[d] = "asking" /\ ~Hand(d) /\ Trade(held[d])
  BY DEF Answered, Hand
<1>3. /\ issued' = issued + 1 /\ issued \in Nat /\ issued' \in Tokens
      /\ live' \subseteq Tokens /\ issued' \in live' /\ aged' \in 0 .. issued'
      /\ logins' = logins
      /\ \A g \in live' : g <= issued' /\ (g \in live \/ g = issued')
      /\ \A g \in live : g # held[d] => g \in live'
  BY <1>2, TradeFacts
<1>4. /\ \A e \in Drivers : e # d => pc'[e] = pc[e] /\ held'[e] = held[e]
      /\ pc'[d] = "answered" /\ held'[d] = issued'
      /\ \A e \in Drivers : Hand(e)' <=> (e = d \/ Hand(e))
      /\ \A t \in Timers : Turned(t)' <=> Turned(t)
  BY <1>1, <1>3 DEF TypeOK, Hand, Turned, Answered, Received
<1> DEFINE n == issued'
<1>5. /\ row.token # n
      /\ \A t \in Timers : timer[t].token # n
      /\ \A c \in Clients : memory[c] # n /\ n \notin Queued(c)
      /\ \A e \in Drivers : held[e] # n
      /\ n \notin live /\ n # NoToken
  BY <1>3, FreshFacts, TokenFacts
<1> HIDE DEF n
<1>6. held'[d] = n
  BY <1>4 DEF n
<1>7. TypeOK'
  BY <1>1, <1>3, <1>4 DEF TypeOK, Answered
<1>8. Bounds'
  <2>1. issued' \in Nat /\ issued <= issued'
    BY <1>3
  <2>2. \A e \in Drivers : held'[e] <= issued'
    BY <2>1, <1>4, BoundsGrow
  <2> QED BY <2>1, <2>2, <1>1, <1>3, BoundsGrow DEF Bounds
<1>9. PhaseInv'
  BY <1>1, <1>2, <1>4, SeatAssumption DEF PhaseInv
<1>10. NoRepeats'
  BY <1>1 DEF NoRepeats
<1>11. QueuedPrivate'
  <2>1. \A c \in Clients : \A g \in Queued(c) : \A e \in Drivers :
          (ClientOf[e] # c \/ Hand(e)') => held'[e] # g
    BY <1>4, <1>5, <1>6 DEF QueuedPrivate
  <2> QED BY <2>1, <1>1 DEF QueuedPrivate
<1>12. HandPrivate'
  <2>1. ASSUME NEW e \in Drivers, Hand(e)', NEW f \in Drivers, f # e,
               ClientOf[f] # ClientOf[e] \/ Hand(f)'
        PROVE  held'[f] # held'[e]
    BY <2>1, <1>4, <1>5, <1>6 DEF HandPrivate
  <2>2. ASSUME NEW e \in Drivers, Hand(e)'
        PROVE  /\ held'[e] # NoToken /\ row.token # held'[e]
               /\ \A t \in Timers : timer[t].token # held'[e]
               /\ \A b \in Clients : b # ClientOf[e] => memory[b] # held'[e]
    BY <2>2, <1>4, <1>5, <1>6 DEF HandPrivate
  <2> QED BY <2>1, <2>2, <1>1 DEF HandPrivate
<1>13. TurnedPrivate'
  <2>1. ASSUME NEW t \in Timers, Turned(t)
        PROVE  timer[t].token \in live' /\ \A e \in Drivers : held'[e] # timer[t].token
    BY <2>1, <1>3, <1>4, <1>5, <1>6 DEF TurnedPrivate
  <2> QED BY <2>1, <1>1, <1>4 DEF TurnedPrivate
<1>14. VersionInv'
  <2>1. row.token \notin live => row.token \notin live'
    BY <1>3, <1>5 DEF n
  <2> QED BY <2>1, <1>1, <1>4 DEF VersionInv
<1> QED BY <1>7, <1>8, <1>9, <1>10, <1>11, <1>12, <1>13, <1>14

LEMMA ApplyKeeps ==
  ASSUME AInv, NEW d \in Drivers, Apply(d)
  PROVE  AInv'
<1> USE DEF AInv, providerVars
<1>1. /\ \A c \in Clients : Queued(c)' = Queued(c)
      /\ UNCHANGED <<live, issued, aged, logins, row, queue, taken, phase, held, timer, spoilt>>
      /\ pc[d] = "answered" /\ Hand(d) /\ ClientOf[d] \in Clients
  BY SameQueued, SeatAssumption DEF Apply, Hand
<1>2. /\ \A e \in Drivers : (Hand(e)' <=> Hand(e)) /\ (pc'[e] = "idle" <=> pc[e] = "idle")
      /\ \A t \in Timers : Turned(t)' <=> Turned(t)
      /\ \A c \in Clients : memory'[c] = IF c = ClientOf[d] THEN held[d] ELSE memory[c]
  BY <1>1 DEF TypeOK, Hand, Turned, Apply
<1>3. TypeOK'
  BY <1>1 DEF TypeOK, Apply
<1>4. Bounds'
  BY <1>1, <1>2 DEF Bounds
<1>5. PhaseInv'
  BY <1>1, <1>2 DEF PhaseInv
<1>6. NoRepeats'
  BY <1>1 DEF NoRepeats
<1>7. QueuedPrivate'
  <2>1. \A c \in Clients : \A g \in Queued(c) : \A b \in Clients : b # c => memory'[b] # g
    BY <1>1, <1>2 DEF QueuedPrivate
  <2> QED BY <2>1, <1>1, <1>2 DEF QueuedPrivate
<1>8. HandPrivate'
  <2>1. ASSUME NEW e \in Drivers, Hand(e), NEW b \in Clients, b # ClientOf[e]
        PROVE  memory'[b] # held[e]
    <3>1. CASE e = d
      BY <3>1, <2>1, <1>2 DEF HandPrivate
    <3>2. CASE e # d
      BY <3>2, <2>1, <1>1, <1>2 DEF HandPrivate
    <3> QED BY <3>1, <3>2
  <2> QED BY <2>1, <1>1, <1>2 DEF HandPrivate
<1>9. TurnedPrivate'
  BY <1>1, <1>2 DEF TurnedPrivate
<1>10. VersionInv'
  BY <1>1, <1>2 DEF VersionInv
<1> QED BY <1>3, <1>4, <1>5, <1>6, <1>7, <1>8, <1>9, <1>10

LEMMA PushKeeps ==
  ASSUME AInv, NEW d \in Drivers, Push(d)
  PROVE  AInv'
<1> USE DEF AInv, providerVars
<1> DEFINE c == ClientOf[d]
           g == held[d]
<1>1. /\ UNCHANGED <<live, issued, aged, logins, row, memory, taken, phase, timer>>
      /\ pc[d] = "applied" /\ Hand(d) /\ c \in Clients /\ g \in Tokens
      /\ spoilt' \subseteq Misfortunes
  BY SeatAssumption DEF Push, Hand, HandPrivate, TypeOK, Spoils, Misfortunes
<1>2. queue' = [queue EXCEPT ![c] = Append(queue[c], g)] /\ queue[c] \in Seq(Tokens)
  BY <1>1 DEF Push, TypeOK
<1>3. /\ \A b \in Clients : b # c => queue'[b] = queue[b]
      /\ queue'[c] = Append(queue[c], g) /\ queue' \in [Clients -> Seq(Tokens)]
      /\ ToSet(queue'[c]) = ToSet(queue[c]) \cup {g}
  BY <1>1, <1>2, AppendFacts DEF TypeOK
<1>4. /\ \A b \in Clients : b # c => Queued(b)' = Queued(b)
      /\ Queued(c)' = Queued(c) \cup {g}
      /\ g \notin Queued(c)
  <2>1. \A b \in Clients : Queued(b)' = ToSet(queue'[b]) \cup ToSet(taken[b])
    BY <1>1 DEF Queued
  <2> QED BY <2>1, <1>1, <1>3 DEF Queued, QueuedPrivate
<1>5. /\ \A e \in Drivers : e # d => pc'[e] = pc[e] /\ held'[e] = held[e]
      /\ pc'[d] = "again" /\ held'[d] = NoToken
      /\ \A e \in Drivers : Hand(e)' <=> (e # d /\ Hand(e))
      /\ \A t \in Timers : Turned(t)' <=> Turned(t)
  BY <1>1 DEF TypeOK, Hand, Turned, Push
<1>6. /\ g # NoToken /\ row.token # g
      /\ \A t \in Timers : timer[t].token # g
      /\ \A b \in Clients : b # c => memory[b] # g
      /\ \A e \in Drivers : e # d => (ClientOf[e] # c \/ Hand(e) => held[e] # g)
      /\ \A b \in Clients : g \notin Queued(b)
  BY <1>1, SeatAssumption DEF HandPrivate, QueuedPrivate
<1> HIDE DEF c, g
<1>7. TypeOK'
  BY <1>1, <1>3, <1>5, TokenFacts DEF TypeOK, Push, providerVars
<1>8. Bounds'
  <2>1. g <= issued /\ NoToken <= issued
    BY SeatAssumption DEF Bounds, g, TypeOK, Tokens, NoToken
  <2>2. \A e \in Drivers : held'[e] <= issued'
    BY <2>1, <1>1, <1>5 DEF Bounds
  <2>3. \A b \in Clients : \A h \in Queued(b)' : h <= issued'
    BY <2>1, <1>1, <1>4 DEF Bounds
  <2> QED BY <2>2, <2>3, <1>1 DEF Bounds
<1>9. PhaseInv'
  BY <1>1, <1>3, <1>5 DEF PhaseInv, c
<1>10. NoRepeats'
  <2>1. Distinct(queue'[c])
    BY <1>1, <1>2, <1>3, <1>4, AppendFacts DEF NoRepeats, Queued
  <2> QED BY <2>1, <1>1, <1>3 DEF NoRepeats
<1>11. QueuedPrivate'
  <2>1. ASSUME NEW b \in Clients, NEW h \in Queued(b)', NEW e \in Drivers,
               ClientOf[e] # b \/ Hand(e)'
        PROVE  held'[e] # h
    <3>1. h # NoToken
      BY <2>1, <1>4, <1>6, QueuedTokens, TokenFacts
    <3>2. CASE h \in Queued(b)
      BY <3>1, <3>2, <2>1, <1>5 DEF QueuedPrivate
    <3>3. CASE b = c /\ h = g
      BY <3>1, <3>3, <2>1, <1>5, <1>6
    <3> QED BY <3>2, <3>3, <1>4
  <2>2. ASSUME NEW b \in Clients, NEW h \in Queued(b)'
        PROVE  /\ row.token # h
               /\ \A t \in Timers : timer[t].token # h
               /\ \A a \in Clients : a # b => memory[a] # h /\ h \notin Queued(a)'
    BY <2>2, <1>4, <1>6 DEF QueuedPrivate
  <2> QED BY <2>1, <2>2, <1>1 DEF QueuedPrivate
<1>12. HandPrivate'
  <2>1. ASSUME NEW e \in Drivers, Hand(e)', NEW f \in Drivers, f # e,
               ClientOf[f] # ClientOf[e] \/ Hand(f)'
        PROVE  held'[f] # held'[e]
    BY <2>1, <1>5 DEF HandPrivate
  <2> QED BY <2>1, <1>1, <1>5 DEF HandPrivate
<1>13. TurnedPrivate'
  <2>1. \A t \in Timers : Turned(t) => timer[t].token # NoToken
    BY TokenFacts DEF TurnedPrivate, TypeOK
  <2>2. \A t \in Timers : Turned(t) => \A e \in Drivers : held'[e] # timer[t].token
    BY <2>1, <1>5 DEF TurnedPrivate
  <2> QED BY <2>2, <1>1, <1>5 DEF TurnedPrivate
<1>14. VersionInv'
  BY <1>1, <1>5 DEF VersionInv
<1> QED BY <1>7, <1>8, <1>9, <1>10, <1>11, <1>12, <1>13, <1>14

(* The steps of a run that only change its phase, or read the row.         *)
LEMMA PhaseKeeps ==
  ASSUME AInv, NEW c \in Clients, NEW x \in Running \cup {"ended", "cut"},
         phase[c] # "flushing" \/ taken[c] = <<>>,
         x \in {"flushing", "ended"} => phase[c] \in {"flushing", "ended"},
         NEW m \in {memory[c], row.token},
         phase' = [phase EXCEPT ![c] = x], memory' = [memory EXCEPT ![c] = m],
         UNCHANGED <<providerVars, row, queue, taken, driverVars, timer, spoilt>>
  PROVE  AInv'
<1> USE DEF AInv, providerVars, driverVars
<1>1. /\ \A b \in Clients : Queued(b)' = Queued(b)
      /\ UNCHANGED <<live, issued, aged, logins, row, queue, taken, pc, held, timer, spoilt>>
  BY SameQueued
<1>2. /\ \A b \in Clients : phase'[b] = IF b = c THEN x ELSE phase[b]
      /\ \A b \in Clients : memory'[b] = IF b = c THEN m ELSE memory[b]
      /\ \A e \in Drivers : Hand(e)' <=> Hand(e)
      /\ \A t \in Timers : Turned(t)' <=> Turned(t)
  BY <1>1 DEF TypeOK, Hand, Turned
<1>3. TypeOK'
  BY <1>1 DEF TypeOK
<1>4. Bounds'
  BY <1>1, <1>2 DEF Bounds
<1>5. PhaseInv'
  BY <1>1, <1>2 DEF PhaseInv, Running
<1>6. NoRepeats'
  BY <1>1 DEF NoRepeats
<1>7. QueuedPrivate'
  BY <1>1, <1>2 DEF QueuedPrivate
<1>8. HandPrivate'
  <2>1. \A d \in Drivers : Hand(d) => \A b \in Clients : b # ClientOf[d] => memory'[b] # held[d]
    BY <1>2 DEF HandPrivate
  <2> QED BY <2>1, <1>1, <1>2 DEF HandPrivate
<1>9. TurnedPrivate'
  BY <1>1, <1>2 DEF TurnedPrivate
<1>10. VersionInv'
  BY <1>1, <1>2 DEF VersionInv
<1> QED BY <1>3, <1>4, <1>5, <1>6, <1>7, <1>8, <1>9, <1>10

(* The queue moves to the flush, or goes with the run.                     *)
LEMMA DropKeeps ==
  ASSUME AInv, NEW c \in Clients, NEW x \in {"flushing", "cut"},
         NEW q \in {queue[c], <<>>}, NEW k \in {queue[c], <<>>},
         q = <<>> \/ k = <<>>, x = "cut" => k = <<>>,
         x = "flushing" => q = <<>> /\ Idle(c),
         phase' = [phase EXCEPT ![c] = x],
         queue' = [queue EXCEPT ![c] = q], taken' = [taken EXCEPT ![c] = k],
         UNCHANGED <<providerVars, row, memory, driverVars, timer>>,
         spoilt' \subseteq Misfortunes
  PROVE  AInv'
<1> USE DEF AInv, providerVars, driverVars
<1>1. /\ UNCHANGED <<live, issued, aged, logins, row, memory, pc, held, timer>>
      /\ \A b \in Clients : phase'[b] = IF b = c THEN x ELSE phase[b]
      /\ \A b \in Clients : queue'[b] = IF b = c THEN q ELSE queue[b]
      /\ \A b \in Clients : taken'[b] = IF b = c THEN k ELSE taken[b]
      /\ \A e \in Drivers : Hand(e)' <=> Hand(e)
      /\ \A t \in Timers : Turned(t)' <=> Turned(t)
  BY DEF TypeOK, Hand, Turned
<1>2. q \in Seq(Tokens) /\ k \in Seq(Tokens) /\ ToSet(q) \cup ToSet(k) \subseteq Queued(c)
  <2>1. queue[c] \in Seq(Tokens) /\ <<>> \in Seq(Tokens)
    BY DEF TypeOK
  <2>2. ToSet(queue[c]) \subseteq Queued(c)
    BY DEF Queued
  <2> QED BY <2>1, <2>2, EmptyFacts
<1>3. \A b \in Clients : Queued(b)' \subseteq Queued(b)
  <2>1. \A b \in Clients : Queued(b)' = ToSet(queue'[b]) \cup ToSet(taken'[b])
    BY DEF Queued
  <2> QED BY <2>1, <1>1, <1>2 DEF Queued
<1>4. TypeOK'
  BY <1>1, <1>2 DEF TypeOK, Running
<1>5. Bounds'
  BY <1>1, <1>3 DEF Bounds
<1>6. PhaseInv'
  BY <1>1 DEF PhaseInv, Idle, DriversOf
<1>7. NoRepeats'
  BY <1>1, EmptyFacts DEF NoRepeats
<1>8. QueuedPrivate'
  BY <1>1, <1>3 DEF QueuedPrivate
<1>9. HandPrivate'
  BY <1>1 DEF HandPrivate
<1>10. TurnedPrivate'
  BY <1>1 DEF TurnedPrivate
<1>11. VersionInv'
  BY <1>1 DEF VersionInv
<1> QED BY <1>4, <1>5, <1>6, <1>7, <1>8, <1>9, <1>10, <1>11

(* A write of the row by a pair that no other party knows.                 *)
LEMMA MergeKeeps ==
  ASSUME AInv, NEW c \in Clients, Merge(c)
  PROVE  AInv'
<1> USE DEF AInv, providerVars, driverVars
<1> DEFINE s == taken[c]
           g == Head(s)
<1>1. /\ UNCHANGED <<live, issued, aged, logins, memory, queue, phase, pc, held, timer, spoilt>>
      /\ phase[c] = "flushing" /\ s # <<>> /\ s \in Seq(Tokens) /\ queue[c] = <<>>
      /\ row' = [row EXCEPT !.token = g, !.version = row.version + 1]
      /\ taken' = [taken EXCEPT ![c] = Tail(s)]
      /\ \A e \in Drivers : (Hand(e)' <=> Hand(e)) /\ (ClientOf[e] = c => ~Hand(e))
      /\ \A t \in Timers : Turned(t)' <=> Turned(t)
  BY DEF Merge, Others, TypeOK, PhaseInv, Hand, Turned
<1>2. /\ Tail(s) \in Seq(Tokens) /\ g \in Tokens
      /\ ToSet(s) = ToSet(Tail(s)) \cup {g} /\ g \notin ToSet(Tail(s))
      /\ Distinct(Tail(s))
  BY <1>1, TailFacts DEF NoRepeats
<1>3. /\ \A b \in Clients : b # c => Queued(b)' = Queued(b) /\ taken'[b] = taken[b]
      /\ taken'[c] = Tail(s) /\ taken' \in [Clients -> Seq(Tokens)]
      /\ Queued(c)' = ToSet(Tail(s)) /\ Queued(c) = ToSet(s) /\ g \in Queued(c)
  <2>1. \A b \in Clients : Queued(b)' = ToSet(queue[b]) \cup ToSet(taken'[b])
    BY <1>1 DEF Queued
  <2> QED BY <2>1, <1>1, <1>2, EmptyFacts DEF Queued, TypeOK
<1>4. /\ \A t \in Timers : timer[t].token # g
      /\ \A b \in Clients : b # c => memory[b] # g /\ g \notin Queued(b)
      /\ \A e \in Drivers : ClientOf[e] # c \/ Hand(e) => held[e] # g
      /\ g <= issued
  BY <1>3 DEF QueuedPrivate, Bounds
<1>5. /\ row' \in [token : Tokens, dated : Tokens, version : Nat]
      /\ row'.token = g /\ row'.version = row.version + 1 /\ row.version \in Nat
  <2>1. row.dated \in Tokens /\ row.version \in Nat
    BY DEF TypeOK
  <2>2. row' = [token |-> g, dated |-> row.dated, version |-> row.version + 1]
    BY <1>1 DEF TypeOK
  <2> QED BY <2>1, <2>2, <1>2
<1> HIDE DEF s, g
<1>6. TypeOK'
  BY <1>1, <1>3, <1>5 DEF TypeOK
<1>7. Bounds'
  BY <1>1, <1>2, <1>3, <1>4, <1>5 DEF Bounds
<1>8. PhaseInv'
  BY <1>1, <1>3 DEF PhaseInv
<1>9. NoRepeats'
  BY <1>1, <1>2, <1>3 DEF NoRepeats
<1>10. QueuedPrivate'
  <2>1. \A b \in Clients : Queued(b)' \subseteq Queued(b) /\ g \notin Queued(b)'
    BY <1>2, <1>3, <1>4
  <2> QED BY <2>1, <1>1, <1>5 DEF QueuedPrivate
<1>11. HandPrivate'
  <2>1. \A e \in Drivers : Hand(e) => held[e] # g
    BY <1>4
  <2> QED BY <2>1, <1>1, <1>5 DEF HandPrivate
<1>12. TurnedPrivate'
  BY <1>1, <1>4, <1>5 DEF TurnedPrivate
<1>13. VersionInv'
  <2> SUFFICES ASSUME NEW t \in Timers
               PROVE  /\ timer[t].seen <= row'.version /\ timer[t].seen # row'.version
                      /\ timer[t].token # row'.token
    BY <1>1 DEF VersionInv
  <2>1. timer[t].seen \in Nat /\ timer[t].seen <= row.version
    BY DEF TypeOK, VersionInv
  <2> QED BY <2>1, <1>4, <1>5
<1> QED BY <1>6, <1>7, <1>8, <1>9, <1>10, <1>11, <1>12, <1>13

LEMMA LoginKeeps ==
  ASSUME AInv, Login
  PROVE  AInv'
<1> USE DEF AInv, clientVars, driverVars
<1> DEFINE n == issued + 1
<1>1. /\ UNCHANGED <<aged, memory, queue, taken, phase, pc, held, timer, spoilt>>
      /\ \A c \in Clients : Queued(c)' = Queued(c)
      /\ \A e \in Drivers : Hand(e)' <=> Hand(e)
      /\ \A t \in Timers : Turned(t)' <=> Turned(t)
  BY SameQueued DEF Login, Hand, Turned
<1>2. /\ issued \in Nat /\ issued' = n /\ n \in Tokens /\ live' = live \cup {n}
      /\ logins' \in 0 .. MaxLogins /\ aged' \in 0 .. issued'
      /\ row' = [token |-> n, dated |-> n, version |-> row.version + 1]
      /\ row.version \in Nat
  BY <1>1, SeatAssumption DEF Login, TypeOK, Tokens
<1>3. /\ \A t \in Timers : timer[t].token # n
      /\ \A c \in Clients : memory[c] # n /\ n \notin Queued(c)
      /\ \A d \in Drivers : held[d] # n
  BY FreshFacts
<1>4. row'.token = n /\ row'.version = row.version + 1
      /\ row' \in [token : Tokens, dated : Tokens, version : Nat]
  BY <1>2
<1> HIDE DEF n
<1>5. n \in Nat /\ issued <= n
  BY <1>2 DEF n
<1>6. TypeOK'
  BY <1>1, <1>2, <1>4 DEF TypeOK
<1>7. Bounds'
  <2>1. \A g \in live' : g <= n
    BY <1>2, <1>5, TokenFacts DEF Bounds, TypeOK
  <2>2. issued' \in Nat /\ issued <= issued'
    BY <1>2, <1>5
  <2> QED BY <2>1, <2>2, <1>1, <1>2, <1>4, <1>5, BoundsGrow DEF Bounds
<1>8. PhaseInv' /\ NoRepeats'
  BY <1>1 DEF PhaseInv, NoRepeats
<1>9. QueuedPrivate'
  BY <1>1, <1>3, <1>4 DEF QueuedPrivate
<1>10. HandPrivate'
  BY <1>1, <1>3, <1>4 DEF HandPrivate
<1>11. TurnedPrivate'
  BY <1>1, <1>2, <1>3, <1>4 DEF TurnedPrivate
<1>12. VersionInv'
  <2> SUFFICES ASSUME NEW t \in Timers
               PROVE  /\ timer[t].seen <= row'.version /\ timer[t].seen # row'.version
                      /\ timer[t].token # row'.token
    BY <1>1 DEF VersionInv
  <2>1. timer[t].seen \in Nat /\ timer[t].seen <= row.version
    BY DEF TypeOK, VersionInv
  <2> QED BY <2>1, <1>2, <1>3, <1>4
<1> QED BY <1>6, <1>7, <1>8, <1>9, <1>10, <1>11, <1>12

(* A step of a timer that leaves it nothing, or what the row holds.        *)
LEMMA QuietTimer ==
  ASSUME AInv, NEW t \in Timers,
         NEW r \in {Resting, [at |-> "asking", token |-> row.token, seen |-> row.version]},
         timer' = [timer EXCEPT ![t] = r],
         \/ UNCHANGED <<live, issued, aged, logins>>
         \/ timer[t].at = "asking" /\ Trade(timer[t].token),
         UNCHANGED <<row, clientVars, driverVars>>, spoilt' \subseteq Misfortunes
  PROVE  AInv'
<1> USE DEF AInv, clientVars, driverVars
<1>1. /\ \A c \in Clients : Queued(c)' = Queued(c)
      /\ UNCHANGED <<row, memory, queue, taken, phase, pc, held>>
      /\ \A e \in Drivers : Hand(e)' <=> Hand(e)
  BY SameQueued DEF Hand
<1>2. /\ \A u \in Timers : u # t => timer'[u] = timer[u] /\ (Turned(u)' <=> Turned(u))
      /\ timer'[t] = r /\ ~Turned(t)'
      /\ r.token \in {NoToken, row.token} /\ r.seen <= row.version
      /\ r.at = "asking" => r.seen = row.version /\ r.token = row.token
  BY DEF TypeOK, Turned, Resting
<1>3. /\ issued \in Nat /\ issued' \in Tokens /\ issued <= issued'
      /\ live' \subseteq Tokens /\ aged' \in 0 .. issued' /\ logins' = logins
      /\ \A g \in live' : g <= issued' /\ (g \in live \/ g > issued)
      /\ \A u \in Timers : u # t /\ Turned(u) => timer[u].token \in live'
  <2>1. CASE timer[t].at = "asking" /\ Trade(timer[t].token)
    <3>1. \A u \in Timers : u # t /\ Turned(u) =>
            timer[u].token \in live /\ timer[u].token # timer[t].token
      BY DEF TurnedPrivate
    <3> QED BY <2>1, <3>1, TradeFacts
  <2>2. CASE UNCHANGED <<live, issued, aged, logins>>
    BY <2>2, TokenFacts DEF TypeOK, Bounds, TurnedPrivate
  <2> QED BY <2>1, <2>2
<1>4. TypeOK'
  <2>1. r \in [at : {"idle", "asking", "turned"}, token : Tokens \cup {NoToken}, seen : Nat]
    BY DEF TypeOK, Resting
  <2>2. timer' \in [Timers -> [at : {"idle", "asking", "turned"},
                               token : Tokens \cup {NoToken}, seen : Nat]]
    BY <2>1 DEF TypeOK
  <2> QED BY <2>2, <1>1, <1>3 DEF TypeOK
<1>5. Bounds'
  <2>1. issued' \in Nat
    BY <1>3, TokenFacts
  <2>2. \A u \in Timers : timer'[u].token <= issued'
    BY <1>2, <1>3, <2>1, BoundsGrow DEF NoToken
  <2> QED BY <2>1, <2>2, <1>1, <1>3, BoundsGrow DEF Bounds
<1>6. PhaseInv' /\ NoRepeats'
  BY <1>1 DEF PhaseInv, NoRepeats
<1>7. QueuedPrivate'
  <2>1. ASSUME NEW c \in Clients, NEW g \in Queued(c), NEW u \in Timers
        PROVE  timer'[u].token # g
    <3>1. g # NoToken /\ row.token # g /\ timer[u].token # g
      BY QueuedTokens, TokenFacts DEF QueuedPrivate
    <3> QED BY <3>1, <1>2
  <2> QED BY <2>1, <1>1 DEF QueuedPrivate
<1>8. HandPrivate'
  <2>1. ASSUME NEW d \in Drivers, Hand(d), NEW u \in Timers
        PROVE  timer'[u].token # held[d]
    BY <2>1, <1>2 DEF HandPrivate
  <2> QED BY <2>1, <1>1 DEF HandPrivate
<1>9. TurnedPrivate'
  <2>1. ASSUME NEW u \in Timers, u # t, Turned(u)
        PROVE  \A v \in Timers : v # u => timer'[v].token # timer[u].token
    <3>1. timer[u].token # NoToken /\ row.token # timer[u].token
      BY <2>1, TokenFacts DEF TurnedPrivate, TypeOK
    <3> QED BY <2>1, <3>1, <1>2 DEF TurnedPrivate
  <2> QED BY <2>1, <1>1, <1>2, <1>3 DEF TurnedPrivate
<1>10. VersionInv'
  <2>1. row.token \in Nat /\ row.token <= issued
    BY TokenFacts DEF TypeOK, Bounds
  <2>2. row.token \notin live => row.token \notin live'
    BY <2>1, <1>3
  <2> QED BY <2>2, <1>1, <1>2 DEF VersionInv
<1> QED BY <1>4, <1>5, <1>6, <1>7, <1>8, <1>9, <1>10

LEMMA TurnsKeeps ==
  ASSUME AInv, NEW t \in Timers, TimerTurns(t)
  PROVE  AInv'
<1> USE DEF AInv, clientVars, driverVars
<1> DEFINE n == issued'
<1>1. /\ \A c \in Clients : Queued(c)' = Queued(c)
      /\ UNCHANGED <<row, memory, queue, taken, phase, pc, held, spoilt>>
      /\ \A e \in Drivers : Hand(e)' <=> Hand(e)
      /\ timer[t].at = "asking" /\ ~Turned(t) /\ Trade(timer[t].token)
  BY SameQueued DEF Hand, TimerTurns, Turned
<1>2. /\ issued' = issued + 1 /\ issued \in Nat /\ issued' \in Tokens
      /\ live' \subseteq Tokens /\ n \in live' /\ aged' \in 0 .. issued'
      /\ logins' = logins
      /\ \A g \in live' : g <= issued' /\ (g \in live \/ g = n)
      /\ \A g \in live : g # timer[t].token => g \in live'
      /\ timer[t].token \notin live'
  BY <1>1, TradeFacts
<1>3. /\ \A u \in Timers : u # t => timer'[u] = timer[u]
      /\ timer'[t].at = "turned" /\ timer'[t].token = n /\ timer'[t].seen = timer[t].seen
      /\ timer' \in [Timers -> [at : {"idle", "asking", "turned"},
                                token : Tokens \cup {NoToken}, seen : Nat]]
  <2> DEFINE r == [at |-> "turned", token |-> n, seen |-> timer[t].seen]
  <2>1. timer' = [timer EXCEPT ![t] = r] /\ timer[t].seen \in Nat
    BY <1>2 DEF TypeOK, TimerTurns
  <2>2. r.at = "turned" /\ r.token = n /\ r.seen = timer[t].seen
        /\ r \in [at : {"idle", "asking", "turned"},
                  token : Tokens \cup {NoToken}, seen : Nat]
    BY <2>1, <1>2
  <2> HIDE DEF r
  <2> QED BY <2>1, <2>2 DEF TypeOK
<1>4. /\ \A u \in Timers : Turned(u)' <=> (u = t \/ Turned(u))
      /\ timer'[t].at = "turned" /\ timer'[t].token = n /\ timer'[t].seen = timer[t].seen
  BY <1>3 DEF Turned
<1>5. /\ row.token # n
      /\ \A u \in Timers : timer[u].token # n
      /\ \A c \in Clients : memory[c] # n /\ n \notin Queued(c)
      /\ \A e \in Drivers : held[e] # n
      /\ n \notin live /\ n # NoToken
  BY <1>2, FreshFacts, TokenFacts
<1>6. TypeOK'
  BY <1>1, <1>2, <1>3 DEF TypeOK
<1>7. Bounds'
  <2>1. issued' \in Nat /\ issued <= issued'
    BY <1>2
  <2>2. \A u \in Timers : timer'[u].token <= issued'
    BY <2>1, <1>3, <1>4, BoundsGrow
  <2> QED BY <2>1, <2>2, <1>1, <1>2, BoundsGrow DEF Bounds
<1> HIDE DEF n
<1>8. PhaseInv' /\ NoRepeats'
  BY <1>1 DEF PhaseInv, NoRepeats
<1>9. QueuedPrivate'
  <2>1. \A c \in Clients : \A g \in Queued(c) : \A u \in Timers : timer'[u].token # g
    BY <1>3, <1>4, <1>5 DEF QueuedPrivate
  <2> QED BY <2>1, <1>1 DEF QueuedPrivate
<1>10. HandPrivate'
  <2>1. \A d \in Drivers : Hand(d) => \A u \in Timers : timer'[u].token # held[d]
    BY <1>3, <1>4, <1>5 DEF HandPrivate
  <2> QED BY <2>1, <1>1 DEF HandPrivate
<1>11. TurnedPrivate'
  <2>1. ASSUME NEW u \in Timers, Turned(u)'
        PROVE  /\ timer'[u].token \in live' /\ row.token # timer'[u].token
               /\ \A c \in Clients : memory[c] # timer'[u].token
               /\ \A d \in Drivers : held[d] # timer'[u].token
    BY <2>1, <1>1, <1>2, <1>3, <1>4, <1>5 DEF TurnedPrivate
  <2>2. ASSUME NEW u \in Timers, Turned(u)', NEW v \in Timers, v # u
        PROVE  timer'[v].token # timer'[u].token
    <3>1. CASE u = t
      BY <3>1, <2>2, <1>3, <1>4, <1>5
    <3>2. CASE v = t
      BY <3>2, <2>2, <1>3, <1>4, <1>5
    <3>3. CASE u # t /\ v # t
      BY <3>3, <2>2, <1>3, <1>4 DEF TurnedPrivate
    <3> QED BY <3>1, <3>2, <3>3
  <2> QED BY <2>1, <2>2, <1>1 DEF TurnedPrivate
<1>12. VersionInv'
  <2>1. row.token \notin live => row.token \notin live'
    BY <1>2, <1>5
  <2>2. timer[t].seen = row.version => row.token \notin live'
    BY <1>1, <1>2 DEF VersionInv
  <2>3. ASSUME NEW u \in Timers
        PROVE  /\ timer'[u].seen <= row.version
               /\ timer'[u].at = "asking" =>
                    (timer'[u].seen = row.version <=> timer'[u].token = row.token)
               /\ Turned(u)' /\ timer'[u].seen = row.version => row.token \notin live'
    BY <2>1, <2>2, <1>3, <1>4 DEF VersionInv
  <2> QED BY <2>3, <1>1 DEF VersionInv
<1> QED BY <1>6, <1>7, <1>8, <1>9, <1>10, <1>11, <1>12

LEMMA RotatesKeeps ==
  ASSUME AInv, NEW t \in Timers, TimerRotates(t)
  PROVE  AInv'
<1> USE DEF AInv, clientVars, driverVars, providerVars
<1> DEFINE g == timer[t].token
<1>1. /\ \A c \in Clients : Queued(c)' = Queued(c)
      /\ UNCHANGED <<live, issued, aged, logins, memory, queue, taken, phase, pc, held, spoilt>>
      /\ \A e \in Drivers : Hand(e)' <=> Hand(e)
      /\ Turned(t)
  BY SameQueued DEF Hand, TimerRotates, Turned
<1>2. /\ g \in live /\ g \in Tokens /\ g # NoToken /\ g <= issued
      /\ \A c \in Clients : memory[c] # g /\ g \notin Queued(c)
      /\ \A d \in Drivers : held[d] # g
      /\ \A u \in Timers : u # t => timer[u].token # g
  BY <1>1, TokenFacts DEF TurnedPrivate, TypeOK, QueuedPrivate, Bounds
<1>3. /\ \A u \in Timers : u # t => timer'[u] = timer[u]
      /\ timer'[t] = Resting
      /\ \A u \in Timers : Turned(u)' <=> (u # t /\ Turned(u))
  BY DEF TimerRotates, TypeOK, Turned, Resting
<1>4. /\ row' = [token |-> g, dated |-> g, version |-> row.version + 1]
      /\ row.version \in Nat
  BY DEF TimerRotates, TypeOK
<1>5. row'.token = g /\ row'.version = row.version + 1
      /\ row' \in [token : Tokens, dated : Tokens, version : Nat]
  BY <1>2, <1>4
<1> HIDE DEF g
<1>6. /\ Resting \in [at : {"idle", "asking", "turned"},
                      token : Tokens \cup {NoToken}, seen : Nat]
      /\ Resting.token = NoToken /\ Resting.seen = 0 /\ Resting.at = "idle"
  BY DEF Resting
<1>7. TypeOK'
  <2>1. timer' \in [Timers -> [at : {"idle", "asking", "turned"},
                               token : Tokens \cup {NoToken}, seen : Nat]]
    BY <1>6 DEF TimerRotates, TypeOK
  <2> QED BY <2>1, <1>1, <1>5 DEF TypeOK
<1>8. Bounds'
  <2>1. NoToken <= issued
    BY TokenFacts DEF TypeOK, NoToken
  <2> QED BY <2>1, <1>1, <1>2, <1>3, <1>5, <1>6 DEF Bounds
<1>9. PhaseInv' /\ NoRepeats'
  BY <1>1 DEF PhaseInv, NoRepeats
<1>10. QueuedPrivate'
  <2>1. ASSUME NEW c \in Clients, NEW h \in Queued(c), NEW u \in Timers
        PROVE  timer'[u].token # h
    <3>1. h # NoToken
      BY QueuedTokens, TokenFacts
    <3> QED BY <3>1, <1>3, <1>6 DEF QueuedPrivate
  <2> QED BY <2>1, <1>1, <1>2, <1>5 DEF QueuedPrivate
<1>11. HandPrivate'
  <2>1. \A d \in Drivers : Hand(d) => \A u \in Timers : timer'[u].token # held[d]
    BY <1>3, <1>6 DEF HandPrivate
  <2> QED BY <2>1, <1>1, <1>2, <1>5 DEF HandPrivate
<1>12. TurnedPrivate'
  <2>1. ASSUME NEW u \in Timers, u # t, Turned(u), NEW v \in Timers, v # u
        PROVE  timer'[v].token # timer[u].token
    <3>1. timer[u].token # NoToken
      BY <2>1, TokenFacts DEF TurnedPrivate, TypeOK
    <3> QED BY <2>1, <3>1, <1>3, <1>6 DEF TurnedPrivate
  <2> QED BY <2>1, <1>1, <1>2, <1>3, <1>5 DEF TurnedPrivate
<1>13. VersionInv'
  <2> SUFFICES ASSUME NEW u \in Timers
               PROVE  /\ timer'[u].seen <= row'.version
                      /\ u # t => timer[u].seen # row'.version /\ timer[u].token # row'.token
    BY <1>3, <1>6 DEF VersionInv
  <2>1. timer[u].seen \in Nat /\ timer[u].seen <= row.version
    BY DEF TypeOK, VersionInv
  <2> QED BY <2>1, <1>2, <1>3, <1>4, <1>5, <1>6
<1> QED BY <1>7, <1>8, <1>9, <1>10, <1>11, <1>12, <1>13

LEMMA AgeKeeps ==
  ASSUME AInv, Age
  PROVE  AInv'
<1> USE DEF AInv, clientVars, driverVars
<1>1. /\ UNCHANGED <<live, issued, logins, row, memory, queue, taken, phase, pc, held, timer, spoilt>>
      /\ \A c \in Clients : Queued(c)' = Queued(c)
      /\ \A e \in Drivers : Hand(e)' <=> Hand(e)
      /\ \A t \in Timers : Turned(t)' <=> Turned(t)
      /\ aged' \in 0 .. issued'
  BY SameQueued, TokenFacts DEF Age, Hand, Turned, TypeOK
<1>2. TypeOK' /\ Bounds' /\ PhaseInv' /\ NoRepeats'
  BY <1>1 DEF TypeOK, Bounds, PhaseInv, NoRepeats
<1>3. QueuedPrivate' /\ HandPrivate'
  BY <1>1 DEF QueuedPrivate, HandPrivate
<1>4. TurnedPrivate' /\ VersionInv'
  BY <1>1 DEF TurnedPrivate, VersionInv
<1> QED BY <1>2, <1>3, <1>4

LEMMA StutterKeeps ==
  ASSUME AInv, UNCHANGED vars
  PROVE  AInv'
<1> USE DEF AInv, vars, providerVars, clientVars, driverVars
<1>1. /\ \A c \in Clients : Queued(c)' = Queued(c)
      /\ \A e \in Drivers : Hand(e)' <=> Hand(e)
      /\ \A t \in Timers : Turned(t)' <=> Turned(t)
  BY SameQueued DEF Hand, Turned
<1>2. TypeOK' /\ Bounds' /\ PhaseInv' /\ NoRepeats'
  BY <1>1 DEF TypeOK, Bounds, PhaseInv, NoRepeats
<1>3. QueuedPrivate' /\ HandPrivate'
  BY <1>1 DEF QueuedPrivate, HandPrivate
<1>4. TurnedPrivate' /\ VersionInv'
  BY <1>1 DEF TurnedPrivate, VersionInv
<1> QED BY <1>2, <1>3, <1>4

LEMMA AInit == Init => AInv
<1> SUFFICES ASSUME Init PROVE AInv
  OBVIOUS
<1>1. 1 \in Tokens /\ Resting.token = NoToken /\ Resting.seen = 0 /\ Resting.at = "idle"
      /\ Resting \in [at : {"idle", "asking", "turned"},
                      token : Tokens \cup {NoToken}, seen : Nat]
  BY SeatAssumption DEF Tokens, Resting
<1>2. \A c \in Clients : Queued(c) = {}
  BY EmptyFacts DEF Init, Queued
<1>3. /\ \A d \in Drivers : ~Hand(d) /\ held[d] = NoToken
      /\ \A t \in Timers : ~Turned(t) /\ timer[t] = Resting
      /\ \A c \in Clients : memory[c] = NoToken /\ queue[c] = <<>> /\ taken[c] = <<>>
      /\ row.token = 1 /\ row.version = 0
  BY <1>1 DEF Init, Hand, Turned
<1>4. TypeOK
  <2>1. row \in [token : Tokens, dated : Tokens, version : Nat]
    BY <1>1 DEF Init
  <2>2. timer \in [Timers -> [at : {"idle", "asking", "turned"},
                              token : Tokens \cup {NoToken}, seen : Nat]]
    BY <1>1 DEF Init
  <2>3. queue \in [Clients -> Seq(Tokens)] /\ taken \in [Clients -> Seq(Tokens)]
    BY DEF Init
  <2> QED BY <2>1, <2>2, <2>3, <1>1, SeatAssumption DEF Init, TypeOK, Running
<1>5. Bounds
  BY <1>1, <1>2, <1>3 DEF Init, Bounds, NoToken
<1>6. PhaseInv /\ NoRepeats
  BY <1>3, EmptyFacts DEF Init, PhaseInv, NoRepeats
<1>7. QueuedPrivate /\ HandPrivate /\ TurnedPrivate
  BY <1>2, <1>3 DEF QueuedPrivate, HandPrivate, TurnedPrivate
<1>8. VersionInv
  BY <1>1, <1>3, TokenFacts DEF VersionInv
<1> QED BY <1>4, <1>5, <1>6, <1>7, <1>8 DEF AInv

LEMMA AStep == AInv /\ [Next]_vars => AInv'
<1> SUFFICES ASSUME AInv, [Next]_vars PROVE AInv'
  OBVIOUS
<1>1. CASE Age
  BY <1>1, AgeKeeps
<1>2. CASE Login
  BY <1>2, LoginKeeps
<1>3. ASSUME NEW d \in Drivers, DriverStep(d) PROVE AInv'
  <2> USE DEF providerVars, clientVars, Spoils
  <2>0. spoilt \subseteq Misfortunes /\ ClientOf[d] \in Clients
    BY SeatAssumption DEF AInv, TypeOK
  <2>1. CASE Call(d)
    BY <2>1, <2>0, QuietDriver DEF Call, Hand
  <2>2. CASE Settle(d)
    BY <2>2, <2>0, QuietDriver DEF Settle, Hand
  <2>3. CASE Unauthorised(d)
    BY <2>3, <2>0, QuietDriver DEF Unauthorised, Hand
  <2>4. CASE Answered(d)
    BY <2>4, AnsweredKeeps
  <2>5. CASE Refused(d)
    BY <2>5, <2>0, QuietDriver DEF Refused, Hand
  <2>6. CASE AnswerLost(d)
    BY <2>6, <2>0, QuietDriver DEF AnswerLost, Hand, Misfortunes
  <2>7. CASE AskFails(d)
    BY <2>7, <2>0, QuietDriver DEF AskFails, Hand
  <2>8. CASE Apply(d)
    BY <2>8, ApplyKeeps
  <2>9. CASE Push(d)
    BY <2>9, PushKeeps
  <2> QED BY <1>3, <2>1, <2>2, <2>3, <2>4, <2>5, <2>6, <2>7, <2>8, <2>9
       DEF DriverStep, CallGoesOn
<1>4. ASSUME NEW c \in Clients, ClientStep(c) PROVE AInv'
  <2> USE DEF providerVars, driverVars, Spoils
  <2>0. spoilt \subseteq Misfortunes /\ memory = [memory EXCEPT ![c] = memory[c]]
        /\ (phase[c] # "flushing" => taken[c] = <<>>)
        /\ (phase[c] = "flushing" => queue[c] = <<>>)
        /\ queue = [queue EXCEPT ![c] = queue[c]]
    BY DEF AInv, TypeOK, PhaseInv
  <2>1. CASE Start(c)
    BY <2>1, <2>0, PhaseKeeps DEF Start, Running
  <2>2. CASE Close(c)
    BY <2>2, <2>0, PhaseKeeps DEF Close, Running
  <2>3. CASE TakeRotations(c)
    BY <2>3, <2>0, DropKeeps DEF TakeRotations, Joined
  <2>4. CASE Merge(c)
    BY <2>4, MergeKeeps
  <2>5. CASE Flushed(c)
    <3>1. PICK x \in {"on", "ended"} : phase' = [phase EXCEPT ![c] = x]
      BY <2>5 DEF Flushed
    <3> QED BY <3>1, <2>5, <2>0, PhaseKeeps DEF Flushed, Running
  <2>6. CASE MergeFails(c)
    BY <2>6, <2>0, DropKeeps DEF MergeFails, Misfortunes
  <2>7. CASE Cut(c)
    BY <2>7, <2>0, DropKeeps DEF Cut, Misfortunes
  <2> QED BY <1>4, <2>1, <2>2, <2>3, <2>4, <2>5, <2>6, <2>7 DEF ClientStep, BatchGoesOn
<1>5. ASSUME NEW t \in Timers, TimerStep(t) PROVE AInv'
  <2> USE DEF providerVars, Spoils
  <2>0. spoilt \subseteq Misfortunes
    BY DEF AInv, TypeOK
  <2>1. CASE TimerReads(t)
    BY <2>1, <2>0, QuietTimer DEF TimerReads
  <2>2. CASE TimerTurns(t)
    BY <2>2, TurnsKeeps
  <2>3. CASE TimerGivesUp(t)
    BY <2>3, <2>0, QuietTimer DEF TimerGivesUp
  <2>4. CASE TimerAnswerLost(t)
    BY <2>4, <2>0, QuietTimer DEF TimerAnswerLost, Misfortunes
  <2>5. CASE TimerRotates(t)
    BY <2>5, RotatesKeeps
  <2>6. CASE TimerLoses(t)
    BY <2>6, <2>0, QuietTimer DEF TimerLoses
  <2>7. CASE TimerFails(t)
    BY <2>7, <2>0, QuietTimer DEF TimerFails, Misfortunes
  <2> QED BY <1>5, <2>1, <2>2, <2>3, <2>4, <2>5, <2>6, <2>7 DEF TimerStep
<1>6. CASE UNCHANGED vars
  BY <1>6, StutterKeeps
<1> QED BY <1>1, <1>2, <1>3, <1>4, <1>5, <1>6 DEF Next

LEMMA AInvariance == Spec => []AInv
<1>1. Init => AInv
  BY AInit
<1>2. AInv /\ [Next]_vars => AInv'
  BY AStep
<1> QED BY <1>1, <1>2, PTL DEF Spec

(* Every variable keeps its type.                                          *)
THEOREM TypeCorrect == Spec => []TypeOK
<1>1. AInv => TypeOK
  BY DEF AInv
<1> QED BY <1>1, AInvariance, PTL

(* A run that ends without an error has written back every pair its drivers *)
(* traded for: the flush comes after the join (backfill_summaries).         *)
THEOREM EndedRunsOweNothing == Spec => []EndOwesNothing
<1>1. AInv => EndOwesNothing
  <2> SUFFICES ASSUME AInv, NEW c \in Clients, phase[c] = "ended" PROVE Pending(c) = {}
    BY DEF EndOwesNothing
  <2>1. Queued(c) = {}
    BY EmptyFacts DEF AInv, PhaseInv, Queued
  <2>2. \A d \in Drivers : ClientOf[d] = c => pc[d] = "idle"
    BY DEF AInv, PhaseInv
  <2>3. InHand(c) = {}
    BY <2>2 DEF InHand, DriversOf
  <2> QED BY <2>1, <2>3 DEF Pending
<1> QED BY <1>1, AInvariance, PTL

LEMMA PendingIs ==
  \A c \in Clients : \A g :
    g \in Pending(c) <=>
      g \in Queued(c) \/ \E d \in Drivers : ClientOf[d] = c /\ Hand(d) /\ held[d] = g
BY DEF Pending, InHand, DriversOf, Hand

LEMMA PendingIsNext ==
  \A c \in Clients : \A g :
    g \in Pending(c)' <=>
      g \in Queued(c)' \/ \E d \in Drivers : ClientOf[d] = c /\ Hand(d)' /\ held'[d] = g
BY DEF Pending, InHand, DriversOf, Hand

(* A pair on its way to the store is in one place only: no other client,    *)
(* timer or row knows it.                                                   *)
THEOREM PairsArePrivate == Spec => []PendingIsPrivate
<1>1. AInv => PendingIsPrivate
  <2> SUFFICES ASSUME AInv, NEW c \in Clients, NEW g \in Pending(c)
               PROVE  /\ row.token # g
                      /\ \A t \in Timers : timer[t].token # g
                      /\ \A b \in Clients \ {c} : memory[b] # g /\ g \notin Pending(b)
                      /\ \A d \in Drivers \ DriversOf(c) : held[d] # g
    BY DEF PendingIsPrivate
  <2> USE DEF AInv
  <2>1. CASE g \in Queued(c)
    <3>1. \A b \in Clients \ {c} : memory[b] # g /\ g \notin Pending(b)
      BY <2>1, PendingIs DEF QueuedPrivate
    <3> QED BY <2>1, <3>1 DEF QueuedPrivate, DriversOf
  <2>2. ASSUME NEW d \in Drivers, ClientOf[d] = c, Hand(d), held[d] = g
        PROVE  /\ row.token # g
               /\ \A t \in Timers : timer[t].token # g
               /\ \A b \in Clients \ {c} : memory[b] # g /\ g \notin Pending(b)
               /\ \A e \in Drivers \ DriversOf(c) : held[e] # g
    <3>1. \A b \in Clients \ {c} : memory[b] # g /\ g \notin Pending(b)
      BY <2>2, PendingIs DEF QueuedPrivate, HandPrivate
    <3>2. \A e \in Drivers \ DriversOf(c) : held[e] # g
      BY <2>2 DEF HandPrivate, DriversOf
    <3> QED BY <2>2, <3>1, <3>2 DEF HandPrivate
  <2> QED BY <2>1, <2>2, PendingIs
<1> QED BY <1>1, AInvariance, PTL

(* rotate_credential never writes over a live token.                        *)
THEOREM RotationsReplaceDead == Spec => RotationReplacesDead
<1>1. AInv => \A t \in Timers : TimerRotates(t) => row.token \notin live
  BY DEF AInv, VersionInv, TimerRotates, SameVersion, Turned
<1>2. AInv /\ [Next]_vars =>
        [\A t \in Timers : TimerRotates(t) => row.token \notin live]_vars
  BY <1>1
<1> QED BY <1>2, AInvariance, PTL DEF Spec, RotationReplacesDead

-----------------------------------------------------------------------------
(* The part that holds until a misfortune.                                 *)

InOrder == \A c \in Clients : Ascending(queue[c]) /\ Ascending(taken[c])

(* The last pair of a run on its way is live.                              *)
LastIsLive ==
  \A c \in Clients : phase[c] \in Running /\ Pending(c) # {} =>
    \E g \in Pending(c) : g \in live /\ \A h \in Pending(c) : h <= g

RowIsCovered ==
  \/ row.token \in live
  \/ \E c \in Clients : phase[c] \in Running /\ Pending(c) # {}
  \/ \E t \in Timers : Turned(t) /\ timer[t].seen = row.version

BInv == spoilt = {} => InOrder /\ LastIsLive /\ RowIsCovered

(* A step that moves no pair out of, or into, what a run has on its way.    *)
LEMMA BSame ==
  ASSUME LastIsLive, RowIsCovered,
         UNCHANGED <<live, row>>,
         \A c \in Clients : Pending(c)' = Pending(c),
         \A c \in Clients : Pending(c) # {} => (phase'[c] \in Running <=> phase[c] \in Running),
         \A t \in Timers : Turned(t) /\ timer[t].seen = row.version =>
           Turned(t)' /\ timer'[t].seen = timer[t].seen
  PROVE  LastIsLive' /\ RowIsCovered'
<1>1. LastIsLive'
  <2> SUFFICES ASSUME NEW c \in Clients, phase'[c] \in Running, Pending(c) # {}
               PROVE  \E g \in Pending(c) : g \in live /\ \A h \in Pending(c) : h <= g
    BY DEF LastIsLive
  <2> QED BY DEF LastIsLive
<1>2. RowIsCovered'
  <2>1. CASE row.token \in live
    BY <2>1 DEF RowIsCovered
  <2>2. CASE \E c \in Clients : phase[c] \in Running /\ Pending(c) # {}
    BY <2>2 DEF RowIsCovered
  <2>3. CASE \E t \in Timers : Turned(t) /\ timer[t].seen = row.version
    BY <2>3 DEF RowIsCovered
  <2> QED BY <2>1, <2>2, <2>3 DEF RowIsCovered
<1> QED BY <1>1, <1>2

(* Only the party that has a pair on its way can trade it.                  *)
LEMMA OthersStayLive ==
  ASSUME LastIsLive, NEW c \in Clients, NEW old,
         phase[c] \in Running, Pending(c) # {}, old \notin Pending(c),
         \A g \in live : g # old => g \in live'
  PROVE  \E g \in Pending(c) : g \in live' /\ \A h \in Pending(c) : h <= g
BY DEF LastIsLive

LEMMA PendingFollows ==
  ASSUME NEW c \in Clients, Queued(c)' = Queued(c),
         \A e \in Drivers : (Hand(e)' <=> Hand(e)) /\ (Hand(e) => held'[e] = held[e])
  PROVE  Pending(c)' = Pending(c)
<1>1. ASSUME NEW g PROVE g \in Pending(c)' <=> g \in Pending(c)
  BY PendingIs, PendingIsNext
<1> QED BY <1>1, Zenon

LEMMA PendingSame ==
  ASSUME UNCHANGED <<queue, taken>>,
         \A e \in Drivers : (Hand(e)' <=> Hand(e)) /\ (Hand(e) => held'[e] = held[e])
  PROVE  \A c \in Clients : Pending(c)' = Pending(c)
<1>1. \A c \in Clients : Queued(c)' = Queued(c)
  BY SameQueued
<1> QED BY <1>1, PendingFollows

LEMMA BDriver ==
  ASSUME AInv, InOrder, LastIsLive, RowIsCovered, spoilt' = {},
         NEW d \in Drivers, DriverStep(d)
  PROVE  InOrder' /\ LastIsLive' /\ RowIsCovered'
<1> USE DEF providerVars, clientVars, Spoils
<1> DEFINE c == ClientOf[d]
<1>0. c \in Clients /\ TypeOK /\ Bounds /\ PhaseInv /\ QueuedPrivate /\ HandPrivate
  BY SeatAssumption DEF AInv
<1>1. CASE Call(d) \/ Settle(d) \/ Unauthorised(d) \/ Refused(d) \/ AskFails(d) \/ Apply(d)
  <2>1. /\ \A e \in Drivers : (Hand(e)' <=> Hand(e)) /\ (Hand(e) => held'[e] = held[e])
        /\ UNCHANGED <<live, row, queue, taken, phase, timer>>
    BY <1>1, <1>0 DEF Call, Settle, Unauthorised, Refused, AskFails, Apply, Hand, TypeOK
  <2>2. \A b \in Clients : Pending(b)' = Pending(b)
    BY <2>1, PendingSame
  <2>3. LastIsLive' /\ RowIsCovered'
    BY <2>1, <2>2, BSame DEF Turned
  <2> QED BY <2>1, <2>3 DEF InOrder
<1>2. CASE AnswerLost(d)
  BY <1>2 DEF AnswerLost
<1>3. CASE Answered(d)
  <2> DEFINE n == issued'
  <2>1. /\ UNCHANGED <<row, queue, taken, phase, timer>>
        /\ pc[d] = "asking" /\ Trade(held[d]) /\ phase[c] # "cut"
        /\ \A b \in Clients : Queued(b)' = Queued(b)
    BY <1>3, SameQueued DEF Answered
  <2>2. /\ n \in live' /\ n \in Nat /\ issued \in Nat /\ issued <= n /\ n = issued + 1
        /\ \A g \in live : g # held[d] => g \in live'
    BY <2>1, <1>0, TradeFacts, TokenFacts
  <2>3. /\ \A e \in Drivers : e # d => (Hand(e)' <=> Hand(e)) /\ held'[e] = held[e]
        /\ ~Hand(d) /\ Hand(d)' /\ held'[d] = n
    BY <1>3, <1>0, <2>2 DEF Answered, Received, Hand, TypeOK
  <2> HIDE DEF n
  <2>4. /\ \A b \in Clients : b # c => Pending(b)' = Pending(b)
        /\ Pending(c)' = Pending(c) \cup {n}
    <3>1. ASSUME NEW b \in Clients, b # c, NEW g PROVE g \in Pending(b)' <=> g \in Pending(b)
      BY <3>1, <2>1, <2>3, PendingIs, PendingIsNext
    <3>2. ASSUME NEW g PROVE g \in Pending(c)' <=> g \in Pending(c) \/ g = n
      BY <1>0, <2>1, <2>3, PendingIs, PendingIsNext
    <3> QED BY <3>1, <3>2, Zenon
  <2>5. phase[c] \in Running
    BY <2>1, <1>0 DEF PhaseInv, TypeOK
  <2>6. LastIsLive'
    <3> SUFFICES ASSUME NEW b \in Clients, phase[b] \in Running, Pending(b)' # {}
                 PROVE  \E g \in Pending(b)' : g \in live' /\ \A h \in Pending(b)' : h <= g
      BY <2>1 DEF LastIsLive
    <3>1. CASE b = c
      <4>1. \A h \in Pending(c) : h <= n
        <5>1. \A h \in Queued(c) : h <= n
          BY <1>0, <2>2, BoundsGrow DEF n
        <5>2. \A e \in Drivers : held[e] <= n
          BY <1>0, <2>2, BoundsGrow DEF n
        <5> SUFFICES ASSUME NEW h \in Pending(c) PROVE h <= n
          OBVIOUS
        <5>3. h \in Queued(c) \/ \E e \in Drivers : held[e] = h
          BY <1>0, PendingIs
        <5> QED BY <5>1, <5>2, <5>3
      <4> QED BY <3>1, <4>1, <2>2, <2>4
    <3>2. CASE b # c
      <4>1. held[d] \notin Pending(b)
        BY <3>2, <1>0, PendingIs DEF QueuedPrivate, HandPrivate
      <4> QED BY <3>2, <4>1, <2>2, <2>4, OthersStayLive
    <3> QED BY <3>1, <3>2
  <2>7. RowIsCovered'
    BY <2>1, <2>4, <2>5, <1>0 DEF RowIsCovered
  <2> QED BY <2>1, <2>6, <2>7 DEF InOrder
<1>4. CASE Push(d)
  <2> DEFINE g == held[d]
  <2>1. /\ UNCHANGED <<live, row, memory, taken, phase, timer>>
        /\ Hand(d) /\ g \in Tokens /\ ~Overtaken(d)
        /\ queue' = [queue EXCEPT ![c] = Append(queue[c], g)] /\ queue[c] \in Seq(Tokens)
    BY <1>4, <1>0 DEF Push, Hand, HandPrivate, TypeOK
  <2>2. /\ \A b \in Clients : b # c => queue'[b] = queue[b]
        /\ queue'[c] = Append(queue[c], g)
        /\ ToSet(queue'[c]) = ToSet(queue[c]) \cup {g}
    BY <1>0, <2>1, AppendFacts DEF TypeOK
  <2>3. /\ \A b \in Clients : b # c => Queued(b)' = Queued(b)
        /\ Queued(c)' = Queued(c) \cup {g}
        /\ g \notin Queued(c) /\ Queued(c) \subseteq Tokens
    <3>1. \A b \in Clients : Queued(b)' = ToSet(queue'[b]) \cup ToSet(taken[b])
      BY <2>1 DEF Queued
    <3> QED BY <3>1, <2>1, <2>2, <1>0, QueuedTokens DEF Queued, QueuedPrivate
  <2>4. /\ \A e \in Drivers : e # d => (Hand(e)' <=> Hand(e)) /\ held'[e] = held[e]
        /\ ~Hand(d)'
    BY <1>4, <1>0 DEF Push, Hand, TypeOK
  <2>5. \A b \in Clients : Pending(b)' = Pending(b)
    <3>1. ASSUME NEW b \in Clients, b # c, NEW h PROVE h \in Pending(b)' <=> h \in Pending(b)
      BY <3>1, <2>3, <2>4, PendingIs, PendingIsNext
    <3>2. ASSUME NEW h PROVE h \in Pending(c)' <=> h \in Pending(c)
      <4>1. h \in Pending(c) <=> h \in Queued(c) \/ h = g
               \/ \E e \in Drivers : e # d /\ ClientOf[e] = c /\ Hand(e) /\ held[e] = h
        BY <1>0, <2>1, PendingIs
      <4>2. h \in Pending(c)' <=> h \in Queued(c) \/ h = g
               \/ \E e \in Drivers : e # d /\ ClientOf[e] = c /\ Hand(e) /\ held[e] = h
        BY <1>0, <2>3, <2>4, PendingIsNext
      <4> QED BY <4>1, <4>2
    <3>3. Pending(c)' = Pending(c)
      BY <3>2, Zenon
    <3>4. \A b \in Clients : b # c => Pending(b)' = Pending(b)
      BY <3>1, Zenon
    <3> QED BY <3>3, <3>4
  <2>6. InOrder'
    <3>1. \A h \in ToSet(queue[c]) : h < g
      <4> SUFFICES ASSUME NEW h \in ToSet(queue[c]) PROVE h < g
        OBVIOUS
      <4>1. h \in Queued(c) /\ ~(h > g)
        BY <2>1 DEF Overtaken, Queued
      <4>2. h \in Nat /\ g \in Nat /\ h # g
        BY <4>1, <2>1, <2>3, TokenFacts
      <4> HIDE DEF g
      <4> QED BY <4>1, <4>2
    <3>2. Ascending(queue'[c])
      BY <3>1, <1>0, <2>1, <2>2, AppendFacts DEF InOrder
    <3> QED BY <3>2, <2>1, <2>2 DEF InOrder
  <2> QED BY <2>1, <2>5, <2>6, BSame DEF Turned
<1> QED BY <1>1, <1>2, <1>3, <1>4 DEF DriverStep, CallGoesOn

LEMMA BClient ==
  ASSUME AInv, InOrder, LastIsLive, RowIsCovered, spoilt' = {},
         NEW c \in Clients, ClientStep(c)
  PROVE  InOrder' /\ LastIsLive' /\ RowIsCovered'
<1> USE DEF providerVars, driverVars, Spoils
<1>0. TypeOK /\ PhaseInv /\ QueuedPrivate /\ NoRepeats
  BY DEF AInv
<1>1. CASE Start(c) \/ Close(c) \/ Flushed(c)
  <2>1. /\ UNCHANGED <<live, row, queue, taken, pc, held, timer>>
        /\ \A b \in Clients : b # c => phase'[b] = phase[b]
    BY <1>1, <1>0 DEF Start, Close, Flushed, TypeOK
  <2>2. \A b \in Clients : Pending(b)' = Pending(b)
    BY <2>1, PendingSame DEF Hand
  <2>3. Pending(c) # {} => (phase'[c] \in Running <=> phase[c] \in Running)
    <3>1. CASE Close(c)
      BY <3>1, <1>0 DEF Close, Running, TypeOK
    <3>2. CASE Start(c) \/ Flushed(c)
      <4>1. /\ queue[c] = <<>> /\ taken[c] = <<>>
            /\ \A d \in Drivers : ClientOf[d] = c => ~Hand(d)
        BY <3>2, <1>0 DEF Start, Flushed, PhaseInv, Hand
      <4> QED BY <4>1, EmptyFacts, PendingIs DEF Queued
    <3> QED BY <3>1, <3>2, <1>1
  <2> QED BY <2>1, <2>2, <2>3, BSame DEF InOrder, Turned
<1>2. CASE TakeRotations(c)
  <2>1. /\ UNCHANGED <<live, row, pc, held, timer>>
        /\ phase[c] = "closing" /\ taken[c] = <<>>
        /\ \A b \in Clients : phase'[b] = IF b = c THEN "flushing" ELSE phase[b]
        /\ \A b \in Clients : queue'[b] = IF b = c THEN <<>> ELSE queue[b]
        /\ \A b \in Clients : taken'[b] = IF b = c THEN queue[c] ELSE taken[b]
    BY <1>2, <1>0 DEF TakeRotations, TypeOK, PhaseInv
  <2>2. \A b \in Clients : Queued(b)' = Queued(b)
    <3>1. \A b \in Clients : Queued(b)' = ToSet(queue'[b]) \cup ToSet(taken'[b])
      BY DEF Queued
    <3> QED BY <3>1, <2>1, EmptyFacts DEF Queued
  <2>3. \A b \in Clients : Pending(b)' = Pending(b)
    BY <2>1, <2>2, PendingFollows DEF Hand
  <2>4. InOrder'
    BY <2>1, EmptyFacts DEF InOrder
  <2> QED BY <2>1, <2>3, <2>4, BSame DEF Turned, Running
<1>3. CASE Merge(c)
  <2> DEFINE s == taken[c]
             g == Head(s)
  <2>1. /\ UNCHANGED <<live, queue, phase, pc, held, timer>>
        /\ phase[c] = "flushing" /\ s # <<>> /\ s \in Seq(Tokens) /\ queue[c] = <<>>
        /\ row'.token = g
        /\ \A b \in Clients : taken'[b] = IF b = c THEN Tail(s) ELSE taken[b]
        /\ \A e \in Drivers : (Hand(e)' <=> Hand(e)) /\ (ClientOf[e] = c => ~Hand(e))
    BY <1>3, <1>0 DEF Merge, Others, TypeOK, PhaseInv, Hand
  <2>2. /\ ToSet(s) = ToSet(Tail(s)) \cup {g} /\ g \in Tokens
        /\ Tail(s) \in Seq(Tokens) /\ Ascending(Tail(s))
        /\ \A h \in ToSet(Tail(s)) : g < h
    BY <2>1, TailFacts DEF InOrder
  <2>3. /\ \A b \in Clients : b # c => Pending(b)' = Pending(b)
        /\ Pending(c)' = ToSet(Tail(s)) /\ Pending(c) = ToSet(s)
    <3>1. /\ \A b \in Clients : b # c => Queued(b)' = Queued(b)
          /\ Queued(c)' = ToSet(Tail(s)) /\ Queued(c) = ToSet(s)
      <4>1. \A b \in Clients : Queued(b)' = ToSet(queue[b]) \cup ToSet(taken'[b])
        BY <2>1 DEF Queued
      <4> QED BY <4>1, <2>1, EmptyFacts DEF Queued
    <3>2. ASSUME NEW b \in Clients, b # c PROVE Pending(b)' = Pending(b)
      BY <3>2, <3>1, <2>1, PendingFollows
    <3>0. \A e \in Drivers : ClientOf[e] = c => ~Hand(e) /\ ~Hand(e)'
      BY <2>1
    <3>3. Pending(c)' = ToSet(Tail(s))
      <4>1. \A x : x \in Pending(c)' <=> x \in Queued(c)'
        BY <3>0, PendingIsNext
      <4> QED BY <3>1, <4>1
    <3>4. Pending(c) = ToSet(s)
      <4>1. \A x : x \in Pending(c) <=> x \in Queued(c)
        BY <3>0, PendingIs
      <4> QED BY <3>1, <4>1
    <3> QED BY <3>2, <3>3, <3>4
  <2>4. InOrder'
    BY <2>1, <2>2 DEF InOrder
  <2>5. PICK last \in Pending(c) : last \in live /\ \A h \in Pending(c) : h <= last
    BY <2>1, <2>2, <2>3 DEF LastIsLive, Running
  <2>6. last \in Nat /\ g \in Nat /\ ToSet(Tail(s)) \subseteq Nat
    <3>1. last \in Tokens
      BY <2>5, <1>0 DEF TypeOK
    <3>2. ToSet(Tail(s)) \subseteq Tokens
      <4>1. Queued(c) \subseteq Tokens /\ ToSet(s) \subseteq Queued(c)
        BY <1>0, QueuedTokens DEF Queued
      <4> QED BY <4>1, <2>2
    <3> QED BY <3>1, <3>2, <2>2, TokenFacts
  <2>7. last # g => last \in ToSet(Tail(s))
    BY <2>2, <2>3, <2>5
  <2>8. last = g => ToSet(Tail(s)) = {}
    <3> SUFFICES ASSUME last = g, NEW h \in ToSet(Tail(s)) PROVE FALSE
      OBVIOUS
    <3>1. g < h /\ h <= g /\ h \in Nat
      BY <2>2, <2>3, <2>5, <2>6
    <3> HIDE DEF g
    <3> QED BY <3>1, <2>6
  <2> HIDE DEF s, g
  <2>9. LastIsLive'
    <3> SUFFICES ASSUME NEW b \in Clients, phase[b] \in Running, Pending(b)' # {}
                 PROVE  \E h \in Pending(b)' : h \in live /\ \A k \in Pending(b)' : k <= h
      BY <2>1 DEF LastIsLive
    <3>1. CASE b = c
      BY <3>1, <2>2, <2>3, <2>5, <2>7, <2>8
    <3>2. CASE b # c
      BY <3>2, <2>3 DEF LastIsLive
    <3> QED BY <3>1, <3>2
  <2>10. RowIsCovered'
    <3>1. CASE last = g
      BY <3>1, <2>1, <2>5 DEF RowIsCovered
    <3>2. CASE last # g
      <4>1. Pending(c)' # {} /\ phase'[c] \in Running
        BY <3>2, <2>1, <2>3, <2>7 DEF Running
      <4> QED BY <4>1 DEF RowIsCovered
    <3> QED BY <3>1, <3>2
  <2> QED BY <2>4, <2>9, <2>10
<1>4. CASE MergeFails(c)
  BY <1>4 DEF MergeFails
<1>5. CASE Cut(c)
  <2>1. /\ UNCHANGED <<live, row, pc, held, timer>> /\ Pending(c) = {}
        /\ \A b \in Clients : phase'[b] = IF b = c THEN "cut" ELSE phase[b]
        /\ \A b \in Clients : queue'[b] = IF b = c THEN <<>> ELSE queue[b]
        /\ \A b \in Clients : taken'[b] = IF b = c THEN <<>> ELSE taken[b]
    BY <1>5, <1>0 DEF Cut, TypeOK
  <2>2. /\ \A b \in Clients : b # c => Queued(b)' = Queued(b)
        /\ Queued(c)' = {}
    <3>1. \A b \in Clients : Queued(b)' = ToSet(queue'[b]) \cup ToSet(taken'[b])
      BY DEF Queued
    <3> QED BY <3>1, <2>1, EmptyFacts DEF Queued
  <2>3. \A b \in Clients : Pending(b)' = Pending(b)
    <3>1. ASSUME NEW b \in Clients, b # c PROVE Pending(b)' = Pending(b)
      BY <3>1, <2>1, <2>2, PendingFollows DEF Hand
    <3>2. \A d \in Drivers : ~(ClientOf[d] = c /\ Hand(d))
      BY <2>1, PendingIs
    <3>3. Pending(c)' = {}
      BY <3>2, <2>1, <2>2, PendingIsNext DEF Hand
    <3> QED BY <3>1, <3>3, <2>1
  <2>4. InOrder'
    BY <2>1, EmptyFacts DEF InOrder
  <2> QED BY <2>1, <2>3, <2>4, BSame DEF Turned
<1> QED BY <1>1, <1>2, <1>3, <1>4, <1>5 DEF ClientStep, BatchGoesOn

LEMMA BTimer ==
  ASSUME AInv, InOrder, LastIsLive, RowIsCovered, spoilt' = {},
         NEW t \in Timers, TimerStep(t)
  PROVE  InOrder' /\ LastIsLive' /\ RowIsCovered'
<1> USE DEF providerVars, driverVars, clientVars, Spoils
<1>0. TypeOK /\ Bounds /\ QueuedPrivate /\ HandPrivate /\ TurnedPrivate /\ VersionInv
  BY DEF AInv
<1>1. CASE TimerReads(t) \/ TimerGivesUp(t) \/ TimerLoses(t)
  <2>1. /\ UNCHANGED <<live, row, queue, taken, phase, pc, held>>
        /\ \A u \in Timers : u # t => timer'[u] = timer[u]
        /\ ~(Turned(t) /\ timer[t].seen = row.version)
    BY <1>1, <1>0 DEF TimerReads, TimerGivesUp, TimerLoses, SameVersion, Turned, TypeOK
  <2>2. \A b \in Clients : Pending(b)' = Pending(b)
    BY <2>1, PendingSame DEF Hand
  <2> QED BY <2>1, <2>2, BSame DEF Turned, InOrder
<1>2. CASE TimerAnswerLost(t) \/ TimerFails(t)
  BY <1>2 DEF TimerAnswerLost, TimerFails
<1>3. CASE TimerTurns(t)
  <2>1. /\ UNCHANGED <<row, queue, taken, phase, pc, held>>
        /\ timer[t].at = "asking" /\ Trade(timer[t].token)
        /\ \A u \in Timers : u # t => timer'[u] = timer[u]
        /\ timer'[t].at = "turned" /\ timer'[t].seen = timer[t].seen
    BY <1>3, <1>0 DEF TimerTurns, TypeOK
  <2>2. \A b \in Clients : Pending(b)' = Pending(b)
    BY <2>1, PendingSame DEF Hand
  <2>3. \A g \in live : g # timer[t].token => g \in live'
    BY <2>1, <1>0, TradeFacts
  <2>4. LastIsLive'
    <3> SUFFICES ASSUME NEW b \in Clients, phase[b] \in Running, Pending(b) # {}
                 PROVE  \E g \in Pending(b) : g \in live' /\ \A h \in Pending(b) : h <= g
      BY <2>1, <2>2 DEF LastIsLive
    <3>1. timer[t].token \notin Pending(b)
      BY <1>0, PendingIs DEF QueuedPrivate, HandPrivate
    <3> QED BY <3>1, <2>3, OthersStayLive
  <2>5. RowIsCovered'
    <3>1. CASE row.token \in live /\ row.token # timer[t].token
      BY <3>1, <2>1, <2>3 DEF RowIsCovered
    <3>2. CASE row.token = timer[t].token
      <4>1. timer[t].seen = row.version
        BY <3>2, <2>1, <1>0 DEF VersionInv
      <4> QED BY <4>1, <2>1 DEF RowIsCovered, Turned
    <3>3. CASE \E c \in Clients : phase[c] \in Running /\ Pending(c) # {}
      BY <3>3, <2>1, <2>2 DEF RowIsCovered
    <3>4. CASE \E u \in Timers : Turned(u) /\ timer[u].seen = row.version
      <4>1. PICK u \in Timers : Turned(u) /\ timer[u].seen = row.version
        BY <3>4
      <4>2. u # t
        BY <4>1, <2>1 DEF Turned
      <4> QED BY <4>1, <4>2, <2>1 DEF RowIsCovered, Turned
    <3> QED BY <3>1, <3>2, <3>3, <3>4 DEF RowIsCovered
  <2> QED BY <2>1, <2>4, <2>5 DEF InOrder
<1>4. CASE TimerRotates(t)
  <2>1. /\ UNCHANGED <<live, queue, taken, phase, pc, held>>
        /\ row'.token = timer[t].token /\ timer[t].token \in live
    BY <1>4, <1>0 DEF TimerRotates, TurnedPrivate, Turned
  <2>2. \A b \in Clients : Pending(b)' = Pending(b)
    BY <2>1, PendingSame DEF Hand
  <2>3. LastIsLive'
    BY <2>1, <2>2 DEF LastIsLive
  <2> QED BY <2>1, <2>3 DEF InOrder, RowIsCovered
<1> QED BY <1>1, <1>2, <1>3, <1>4 DEF TimerStep

LEMMA BStep == AInv /\ BInv /\ [Next]_vars => BInv'
<1> SUFFICES ASSUME AInv, BInv, [Next]_vars, spoilt' = {}
             PROVE  InOrder' /\ LastIsLive' /\ RowIsCovered'
  BY DEF BInv
<1> USE DEF providerVars, clientVars, driverVars
<1>1. CASE Age
  <2>1. UNCHANGED <<live, row, queue, taken, phase, pc, held, timer, spoilt>>
    BY <1>1 DEF Age
  <2>2. \A b \in Clients : Pending(b)' = Pending(b)
    BY <2>1, PendingSame DEF Hand
  <2> QED BY <2>1, <2>2, BSame DEF Turned, InOrder, BInv
<1>2. CASE Login
  <2>1. /\ UNCHANGED <<queue, taken, phase, pc, held, spoilt>>
        /\ live \subseteq live' /\ row'.token \in live'
    BY <1>2 DEF Login
  <2>2. \A b \in Clients : Pending(b)' = Pending(b)
    BY <2>1, PendingSame DEF Hand
  <2>3. LastIsLive'
    BY <2>1, <2>2 DEF LastIsLive, BInv
  <2> QED BY <2>1, <2>3 DEF InOrder, RowIsCovered, BInv
<1>3. ASSUME NEW d \in Drivers, DriverStep(d)
      PROVE  InOrder' /\ LastIsLive' /\ RowIsCovered'
  <2>1. spoilt = {}
    BY <1>3 DEF DriverStep, CallGoesOn, Call, Settle, Unauthorised, Answered, Refused,
                AnswerLost, AskFails, Apply, Push, Spoils
  <2> QED BY <1>3, <2>1, BDriver DEF BInv
<1>4. ASSUME NEW c \in Clients, ClientStep(c)
      PROVE  InOrder' /\ LastIsLive' /\ RowIsCovered'
  <2>1. spoilt = {}
    BY <1>4 DEF ClientStep, BatchGoesOn, Start, Close, TakeRotations, Merge, Flushed,
                MergeFails, Cut, Spoils
  <2> QED BY <1>4, <2>1, BClient DEF BInv
<1>5. ASSUME NEW t \in Timers, TimerStep(t)
      PROVE  InOrder' /\ LastIsLive' /\ RowIsCovered'
  <2>1. spoilt = {}
    BY <1>5 DEF TimerStep, TimerReads, TimerTurns, TimerGivesUp, TimerAnswerLost,
                TimerRotates, TimerLoses, TimerFails, Spoils
  <2> QED BY <1>5, <2>1, BTimer DEF BInv
<1>6. CASE UNCHANGED vars
  <2>1. UNCHANGED <<live, row, queue, taken, phase, pc, held, timer, spoilt>>
    BY <1>6 DEF vars
  <2>2. \A b \in Clients : Pending(b)' = Pending(b)
    BY <2>1, PendingSame DEF Hand
  <2> QED BY <2>1, <2>2, BSame DEF Turned, InOrder, BInv
<1> QED BY <1>1, <1>2, <1>3, <1>4, <1>5, <1>6 DEF Next

LEMMA BInit == Init => BInv
<1> SUFFICES ASSUME Init PROVE InOrder /\ LastIsLive /\ RowIsCovered
  BY DEF BInv
<1>1. InOrder
  BY EmptyFacts DEF Init, InOrder
<1>2. LastIsLive
  BY DEF Init, LastIsLive, Running
<1>3. RowIsCovered
  BY DEF Init, RowIsCovered
<1> QED BY <1>1, <1>2, <1>3

(* The seat needs a browser only after a misfortune: no other order of the  *)
(* steps of runs, timers and logins loses it.                               *)
THEOREM SeatIsNeverLost == Spec => []SeatSurvives
<1>1. Init => AInv /\ BInv
  BY AInit, BInit
<1>2. AInv /\ BInv /\ [Next]_vars => AInv' /\ BInv'
  BY AStep, BStep
<1>3. AInv /\ BInv => SeatSurvives
  <2> SUFFICES ASSUME AInv, LastIsLive, RowIsCovered PROVE Reachable
    BY DEF BInv, SeatSurvives
  <2>1. CASE row.token \in live
    BY <2>1 DEF Reachable
  <2>2. CASE \E c \in Clients : phase[c] \in Running /\ Pending(c) # {}
    BY <2>2 DEF LastIsLive, Reachable
  <2>3. CASE \E t \in Timers : Turned(t) /\ timer[t].seen = row.version
    BY <2>3 DEF AInv, TurnedPrivate, Turned, Reachable
  <2> QED BY <2>1, <2>2, <2>3 DEF RowIsCovered
<1> QED BY <1>1, <1>2, <1>3, PTL DEF Spec
=============================================================================
