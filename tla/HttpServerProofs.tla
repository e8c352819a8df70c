------------------------- MODULE HttpServerProofs -------------------------
(***************************************************************************)
(* Proofs about HttpServer, for any number of requests, sockets and client *)
(* addresses, any limits and any window: the rate limiters keep their      *)
(* limit over every stretch of the window, a drain that did not time out   *)
(* leaves no request behind, and an error answer means a rollback.         *)
(***************************************************************************)
EXTENDS HttpServer, FiniteSetTheorems, SequenceTheorems, TLAPS

Times == 0..MaxTime

(* The types the proofs rest on: TypeOK, but for which answers there are.   *)
Types ==
  /\ now \in Times
  /\ pc \in [Requests -> Places]
  /\ path \in [Requests -> Paths]
  /\ from \in [Requests -> Ips]
  /\ answer = [r \in Requests |-> answer[r]]
  /\ committed \in [Requests -> BOOLEAN]
  /\ window \in [Limiters -> Seq(Times)]
  /\ admitted \in [Limiters -> Seq(Times)]
  /\ active \in Nat /\ drain \in BOOLEAN
  /\ life \in Lives /\ forced \in BOOLEAN

(* A limiter's deque is the tail of the times it admitted, and what it has  *)
(* dropped is out of the window for good.                                   *)
Dropped(k) == Len(admitted[k]) - Len(window[k])

WindowIsTail ==
  \A k \in Limiters :
    /\ Dropped(k) \in Nat
    /\ \A i \in 1..Len(window[k]) : window[k][i] = admitted[k][Dropped(k) + i]
    /\ \A i \in 1..Dropped(k) : admitted[k][i] + Window <= now

LimiterInv == WindowIsTail /\ WindowRespected

(* _active_requests counts the requests past begin_request, and the drain   *)
(* event is set exactly while there are none.                               *)
ActiveCounts ==
  /\ active = Cardinality(Inside)
  /\ drain = (active = 0)

DrainInv == ActiveCounts /\ DrainKept

(* Until a request is done nothing is committed for it, and the only answer *)
(* its client can have is that of the timeout.                              *)
UndoneIsOpen ==
  \A r \in Requests : pc[r] # "done" =>
    ~committed[r] /\ answer[r] \in {NoAnswer, TimedOut}

AnswerInv == UndoneIsOpen /\ ErrorMeansRolledBack

-----------------------------------------------------------------------------
(* Facts about numbers, limits and the deque.                               *)

(* A set of numbers that is not empty has a least member.                   *)
LEMMA Least ==
  ASSUME NEW S \in SUBSET Nat, S # {}
  PROVE  \E n \in S : \A m \in S : n <= m
<1> DEFINE R == OpToRel(<, Nat)
<1>1. PICK n \in S : \A m \in S : ~ (<<m, n>> \in R)
  <2> HIDE DEF R
  <2>1. IsWellFoundedOn(R, Nat) BY NatLessThanWellFounded DEF R
  <2> QED BY <2>1, WFMin
<1>2. \A m \in S : <<m, n>> \in R <=> m < n
  BY DEF OpToRel
<1>3. \A m \in S : ~ (m < n)
  BY <1>1, <1>2, Zenon
<1>4. \A m \in S : m \in Nat /\ n \in Nat
  OBVIOUS
<1> HIDE DEF R
<1>5. \A m \in S : n <= m
  BY <1>3, <1>4
<1> QED BY <1>5

(* Every limiter has a limit of at least one.                               *)
LEMMA LimitType == \A k : Limit(k) \in Nat \ {0}
BY HttpAssumption DEF Limit

(* popleft stops, and everything it has passed is out of the window.        *)
LEMMA ExpiredFacts ==
  ASSUME Types, NEW k \in Limiters
  PROVE  /\ Expired(k) \in 0..Len(window[k])
         /\ \A i \in 1..Expired(k) : window[k][i] + Window <= now
<1> DEFINE w == window[k]
<1>1. w \in Seq(Times) /\ Len(w) \in Nat /\ now \in Nat /\ Window \in Nat /\ Times \subseteq Nat
  BY HttpAssumption DEF Types, Times
<1>2. Stops(k) \in SUBSET Nat /\ Stops(k) \subseteq 0..Len(w) /\ Len(w) \in Stops(k)
  BY <1>1 DEF Stops
<1>3. \E n \in Stops(k) : \A m \in Stops(k) : n <= m
  BY <1>2, Least
<1>4. Expired(k) \in Stops(k) /\ \A m \in Stops(k) : Expired(k) <= m
  BY <1>3 DEF Expired
<1>5. Expired(k) \in 0..Len(w)
  BY <1>2, <1>4
<1>6. ASSUME NEW i \in 1..Expired(k)
      PROVE  w[i] + Window <= now
  <2>1. i - 1 \in 0..Len(w) /\ i - 1 < Expired(k) /\ i \in 1..Len(w)
    BY <1>1, <1>5
  <2>2. i - 1 \notin Stops(k)
    BY <1>4, <1>5, <2>1
  <2>3. ~ (w[i] + Window > now)
    BY <2>1, <2>2 DEF Stops
  <2>4. w[i] \in Times
    BY <1>1, <2>1
  <2>5. w[i] \in Nat /\ now \in Nat /\ Window \in Nat
    BY <1>1, <2>4
  <2> QED BY <2>3, <2>5
<1> QED BY <1>5, <1>6

(* What Append does.                                                        *)
LEMMA AppendFacts ==
  ASSUME NEW S, NEW s \in Seq(S), NEW e \in S
  PROVE  /\ Append(s, e) \in Seq(S) /\ Len(Append(s, e)) = Len(s) + 1 /\ Len(s) \in Nat
         /\ Append(s, e)[Len(s) + 1] = e
         /\ \A i \in 1..Len(s) : Append(s, e)[i] = s[i]
OBVIOUS

(* What is left of the deque.                                               *)
LEMMA RecentFacts ==
  ASSUME Types, NEW k \in Limiters
  PROVE  /\ Recent(k) \in Seq(Times)
         /\ Len(Recent(k)) = Len(window[k]) - Expired(k)
         /\ \A i \in 1..Len(Recent(k)) : Recent(k)[i] = window[k][Expired(k) + i]
<1>1. window[k] \in Seq(Times) /\ Len(window[k]) \in Nat
  BY DEF Types
<1>2. Expired(k) \in 0..Len(window[k])
  BY ExpiredFacts
<1>3. ASSUME NEW i \in Expired(k) + 1 .. Len(window[k])
      PROVE  window[k][i] \in Times
  <2>1. i \in 1..Len(window[k])
    BY <1>1, <1>2
  <2> QED BY <1>1, <2>1
<1> DEFINE n == Len(window[k])
           m == Expired(k) + 1
<1>4. n \in Int /\ m \in Int
  BY <1>1, <1>2
<1>5. /\ SubSeq(window[k], m, n) \in Seq(Times)
      /\ Len(SubSeq(window[k], m, n)) = IF m <= n THEN n - m + 1 ELSE 0
      /\ \A i \in 1 .. n - m + 1 : SubSeq(window[k], m, n)[i] = window[k][m + i - 1]
  BY <1>3, <1>4, SubSeqProperties
<1> HIDE DEF n
<1>6. n - m + 1 = n - Expired(k) /\ (~ (m <= n) => n - Expired(k) = 0)
  BY <1>1, <1>2 DEF n
<1>7. \A i \in 1..Len(Recent(k)) : m + i - 1 = Expired(k) + i
  BY <1>1, <1>2, <1>5 DEF n, Recent
<1> QED BY <1>4, <1>5, <1>6, <1>7 DEF n, Recent

-----------------------------------------------------------------------------
(* The limiters.                                                            *)

(* One key is admitted: its deque held fewer times than the limit, so the   *)
(* admission Limit(k) before this one has left the window.                  *)
LEMMA AdmitOne ==
  ASSUME Types, LimiterInv, now' = now, NEW k \in Limiters, ~Refuses(k),
         window'[k] = Append(Recent(k), now), admitted'[k] = Append(admitted[k], now)
  PROVE  /\ window'[k] \in Seq(Times) /\ admitted'[k] \in Seq(Times)
         /\ Dropped(k)' \in Nat
         /\ \A i \in 1..Len(window'[k]) : window'[k][i] = admitted'[k][Dropped(k)' + i]
         /\ \A i \in 1..Dropped(k)' : admitted'[k][i] + Window <= now
         /\ \A i \in 1..(Len(admitted'[k]) - Limit(k)) :
              admitted'[k][i + Limit(k)] - admitted'[k][i] >= Window
<1> DEFINE a == admitted[k]
           w == window[k]
           r == Recent(k)
           x == Expired(k)
           l == Limit(k)
           d == Dropped(k)
<1>1. /\ a \in Seq(Times) /\ w \in Seq(Times) /\ Len(a) \in Nat /\ Len(w) \in Nat
      /\ now \in Times /\ Times \subseteq Nat /\ Window \in Nat
  BY HttpAssumption DEF Types, Times
<1>2. /\ x \in 0..Len(w) /\ \A i \in 1..x : w[i] + Window <= now
      /\ r \in Seq(Times) /\ Len(r) = Len(w) - x
      /\ \A i \in 1..Len(r) : r[i] = w[x + i]
  BY ExpiredFacts, RecentFacts
<1>3. l \in Nat \ {0} /\ Len(r) < l
  <2>1. l \in Nat \ {0} BY LimitType
  <2>2. Len(r) \in Nat BY <1>2
  <2> QED BY <2>1, <2>2 DEF Refuses
<1>4. /\ d \in Nat /\ d = Len(a) - Len(w)
      /\ \A i \in 1..Len(w) : w[i] = a[d + i]
      /\ \A i \in 1..d : a[i] + Window <= now
      /\ \A i \in 1..(Len(a) - l) : a[i + l] - a[i] >= Window
  BY DEF LimiterInv, WindowIsTail, WindowRespected, Dropped
<1>5. /\ window'[k] \in Seq(Times) /\ admitted'[k] \in Seq(Times)
      /\ Len(window'[k]) = Len(r) + 1 /\ Len(admitted'[k]) = Len(a) + 1
      /\ window'[k][Len(r) + 1] = now /\ admitted'[k][Len(a) + 1] = now
      /\ \A i \in 1..Len(r) : window'[k][i] = r[i]
      /\ \A i \in 1..Len(a) : admitted'[k][i] = a[i]
  BY <1>1, <1>2, AppendFacts
<1>6. Dropped(k)' = Len(admitted'[k]) - Len(window'[k])
  BY DEF Dropped
<1> HIDE DEF a, w, r, x, l, d
<1>sizes. /\ Len(a) \in Nat /\ Len(w) \in Nat /\ Len(r) \in Nat /\ d \in Nat /\ x \in Nat
          /\ l \in Nat /\ l # 0 /\ Len(r) < l
          /\ x <= Len(w) /\ Len(r) = Len(w) - x /\ d = Len(a) - Len(w)
  BY <1>1, <1>2, <1>3, <1>4
<1>7. Dropped(k)' = d + x /\ d + x \in Nat /\ d + x + Len(r) = Len(a)
  BY <1>1, <1>2, <1>4, <1>5, <1>6
<1>8. \A i \in 1..Len(window'[k]) : window'[k][i] = admitted'[k][Dropped(k)' + i]
  <2> SUFFICES ASSUME NEW i \in 1..(Len(r) + 1)
               PROVE  window'[k][i] = admitted'[k][d + x + i]
    BY <1>5, <1>7
  <2>0. Len(r) \in Nat
    BY <1>2
  <2>1. CASE i = Len(r) + 1
    <3>1. d + x + i = Len(a) + 1
      BY <1>1, <1>2, <1>4, <1>7, <2>0, <2>1
    <3> QED BY <1>5, <2>1, <3>1
  <2>2. CASE i \in 1..Len(r)
    <3>1. window'[k][i] = w[x + i] /\ x + i \in 1..Len(w)
      BY <1>1, <1>2, <1>5, <2>0, <2>2
    <3>2. w[x + i] = a[d + (x + i)]
      BY <1>4, <3>1
    <3>3. d + (x + i) = d + x + i /\ d + x + i \in 1..Len(a)
      BY <1>sizes, <2>2
    <3> QED BY <1>5, <3>1, <3>2, <3>3
  <2>3. i = Len(r) + 1 \/ i \in 1..Len(r)
    BY <2>0
  <2> QED BY <2>1, <2>2, <2>3
<1>9. \A i \in 1..(d + x) : a[i] + Window <= now /\ i \in 1..Len(a)
  <2> SUFFICES ASSUME NEW i \in 1..(d + x)
               PROVE  a[i] + Window <= now /\ i \in 1..Len(a)
    OBVIOUS
  <2>0. Len(r) \in Nat
    BY <1>2
  <2>1. i \in 1..Len(a)
    BY <1>1, <1>7, <2>0
  <2>2. CASE i \in 1..d
    BY <1>4, <2>1, <2>2
  <2>3. CASE i \notin 1..d
    <3>1. i - d \in 1..x /\ i - d \in 1..Len(w) /\ d + (i - d) = i
      BY <1>sizes, <2>3
    <3>2. w[i - d] = a[i]
      BY <1>4, <3>1
    <3> QED BY <1>2, <2>1, <3>1, <3>2
  <2> QED BY <2>2, <2>3
<1>10. \A i \in 1..Dropped(k)' : admitted'[k][i] + Window <= now
  BY <1>5, <1>7, <1>9
<1>11. \A i \in 1..(Len(admitted'[k]) - l) : admitted'[k][i + l] - admitted'[k][i] >= Window
  <2> SUFFICES ASSUME NEW i \in 1..(Len(admitted'[k]) - l)
               PROVE  admitted'[k][i + l] - admitted'[k][i] >= Window
    OBVIOUS
  <2>range. i \in Nat /\ 1 <= i /\ i <= Len(a) + 1 - l
    BY <1>5, <1>sizes
  <2>0. Len(r) \in Nat
    BY <1>2
  <2>1. CASE i = Len(a) + 1 - l
    <3>1. i \in 1..(d + x) /\ i + l = Len(a) + 1
      BY <1>sizes, <2>1, <2>range
    <3>2. a[i] + Window <= now /\ i \in 1..Len(a)
      BY <1>9, <3>1
    <3>3. a[i] \in Times /\ now \in Times
      BY <1>1, <3>2
    <3>4. admitted'[k][i + l] = now /\ admitted'[k][i] = a[i]
      BY <1>5, <3>1, <3>2
    <3>5. a[i] \in Nat /\ now \in Nat /\ Window \in Nat
      BY <1>1, <3>3
    <3> QED BY <3>2, <3>4, <3>5
  <2>2. CASE i < Len(a) + 1 - l
    <3>0. i <= Len(a) - l /\ i + l <= Len(a) /\ i <= Len(a) /\ 1 <= i + l
      BY <1>sizes, <2>2, <2>range
    <3>1. i \in 1..(Len(a) - l) /\ i \in 1..Len(a) /\ i + l \in 1..Len(a)
      BY <1>sizes, <2>range, <3>0
    <3> QED BY <1>4, <1>5, <3>1
  <2>3. i = Len(a) + 1 - l \/ i < Len(a) + 1 - l
    <3> DEFINE n == Len(a) + 1 - l
    <3>1. n \in Int /\ i \in Int /\ i <= n
      BY <1>sizes, <2>range
    <3> HIDE DEF n
    <3>2. i = n \/ i < n
      BY <3>1
    <3> QED BY <3>2 DEF n
  <2> QED BY <2>1, <2>2, <2>3
<1> QED BY <1>5, <1>7, <1>8, <1>10, <1>11 DEF l

(* One key is not admitted: its deque stays or loses what has expired.      *)
LEMMA KeepOne ==
  ASSUME Types, LimiterInv, now' = now, NEW k \in Limiters, admitted'[k] = admitted[k],
         window'[k] \in {window[k], Recent(k)}
  PROVE  /\ window'[k] \in Seq(Times) /\ admitted'[k] \in Seq(Times)
         /\ Dropped(k)' \in Nat
         /\ \A i \in 1..Len(window'[k]) : window'[k][i] = admitted'[k][Dropped(k)' + i]
         /\ \A i \in 1..Dropped(k)' : admitted'[k][i] + Window <= now
         /\ \A i \in 1..(Len(admitted'[k]) - Limit(k)) :
              admitted'[k][i + Limit(k)] - admitted'[k][i] >= Window
<1> DEFINE a == admitted[k]
           w == window[k]
           r == Recent(k)
           x == Expired(k)
           d == Dropped(k)
<1>1. /\ a \in Seq(Times) /\ w \in Seq(Times) /\ Len(a) \in Nat /\ Len(w) \in Nat
  BY DEF Types
<1>2. /\ x \in 0..Len(w) /\ \A i \in 1..x : w[i] + Window <= now
      /\ r \in Seq(Times) /\ Len(r) = Len(w) - x
      /\ \A i \in 1..Len(r) : r[i] = w[x + i]
  BY ExpiredFacts, RecentFacts
<1>4. /\ d \in Nat /\ d = Len(a) - Len(w)
      /\ \A i \in 1..Len(w) : w[i] = a[d + i]
      /\ \A i \in 1..d : a[i] + Window <= now
      /\ \A i \in 1..(Len(a) - Limit(k)) : a[i + Limit(k)] - a[i] >= Window
  BY DEF LimiterInv, WindowIsTail, WindowRespected, Dropped
<1>6. Dropped(k)' = Len(a) - Len(window'[k])
  BY DEF Dropped
<1> HIDE DEF a, w, r, x, d
<1>7. CASE window'[k] = w
  <2>1. Dropped(k)' = d
    BY <1>4, <1>6, <1>7
  <2> QED BY <1>1, <1>4, <1>7, <2>1 DEF a
<1>8. CASE window'[k] = r
  <2>sizes. /\ Len(a) \in Nat /\ Len(w) \in Nat /\ Len(r) \in Nat /\ d \in Nat /\ x \in Nat
            /\ x <= Len(w) /\ Len(r) = Len(w) - x /\ d = Len(a) - Len(w)
    BY <1>1, <1>2, <1>4
  <2>1. Dropped(k)' = d + x /\ d + x \in Nat
    BY <1>6, <1>8, <2>sizes
  <2>2. ASSUME NEW i \in 1..Len(r)
        PROVE  r[i] = a[d + x + i]
    <3>1. x + i \in 1..Len(w) /\ d + (x + i) = d + x + i
      BY <2>sizes
    <3> QED BY <1>2, <1>4, <3>1
  <2>3. ASSUME NEW i \in 1..(d + x)
        PROVE  a[i] + Window <= now
    <3>1. CASE i \in 1..d
      BY <1>4, <3>1
    <3>2. CASE i \notin 1..d
      <4>1. i - d \in 1..x /\ i - d \in 1..Len(w) /\ d + (i - d) = i
        BY <2>sizes, <3>2
      <4>2. w[i - d] = a[i]
        BY <1>4, <4>1
      <4> QED BY <1>2, <4>1, <4>2
    <3> QED BY <3>1, <3>2
  <2> QED BY <1>1, <1>2, <1>4, <1>8, <2>1, <2>2, <2>3 DEF a
<1> QED BY <1>7, <1>8 DEF w, r

(* allow, over a list of keys.                                              *)
LEMMA ChargeKeeps ==
  ASSUME Types, LimiterInv, now' = now, NEW keys \in Seq(Limiters), Charge(keys)
  PROVE  /\ window' \in [Limiters -> Seq(Times)] /\ admitted' \in [Limiters -> Seq(Times)]
         /\ LimiterInv'
<1> DEFINE Before(i) == \A j \in Refusing(keys) : i < j
           Yes == {keys[i] : i \in {i \in DOMAIN keys : Before(i)}}
           No  == {keys[i] : i \in {i \in Refusing(keys) : \A j \in Refusing(keys) : i <= j}}
<1>1. /\ window' = [k \in Limiters |-> IF k \in Yes THEN Append(Recent(k), now)
                                       ELSE IF k \in No THEN Recent(k) ELSE window[k]]
      /\ admitted' = [k \in Limiters |-> IF k \in Yes THEN Append(admitted[k], now)
                                         ELSE admitted[k]]
  BY DEF Charge
<1>2. ASSUME NEW k \in Yes
      PROVE  ~Refuses(k)
  <2>1. PICK i \in DOMAIN keys : k = keys[i] /\ Before(i)
    OBVIOUS
  <2>2. i \in Nat
    OBVIOUS
  <2>3. ~ (i < i)
    BY <2>2
  <2>4. i \notin Refusing(keys)
    BY <2>1, <2>3
  <2> QED BY <2>1, <2>4 DEF Refusing
<1> HIDE DEF Yes, No
<1>3. ASSUME NEW k \in Limiters
      PROVE  /\ window'[k] \in Seq(Times) /\ admitted'[k] \in Seq(Times)
             /\ Dropped(k)' \in Nat
             /\ \A i \in 1..Len(window'[k]) : window'[k][i] = admitted'[k][Dropped(k)' + i]
             /\ \A i \in 1..Dropped(k)' : admitted'[k][i] + Window <= now
             /\ \A i \in 1..(Len(admitted'[k]) - Limit(k)) :
                  admitted'[k][i + Limit(k)] - admitted'[k][i] >= Window
  <2>1. CASE k \in Yes
    <3>1. window'[k] = Append(Recent(k), now) /\ admitted'[k] = Append(admitted[k], now)
      BY <1>1, <2>1
    <3> QED BY <1>2, <2>1, <3>1, AdmitOne
  <2>2. CASE k \notin Yes
    <3>1. window'[k] \in {window[k], Recent(k)} /\ admitted'[k] = admitted[k]
      BY <1>1, <2>2
    <3> QED BY <3>1, KeepOne
  <2> QED BY <2>1, <2>2
<1>4. window' \in [Limiters -> Seq(Times)] /\ admitted' \in [Limiters -> Seq(Times)]
  BY <1>1, <1>3
<1>5. WindowIsTail'
  BY <1>3 DEF WindowIsTail
<1>6. WindowRespected'
  BY <1>3 DEF WindowRespected, Limit
<1> QED BY <1>4, <1>5, <1>6 DEF LimiterInv

(* A step that leaves the limiters alone, whether or not time passes.       *)
LEMMA LimitersKept ==
  ASSUME Types, LimiterInv, UNCHANGED limVars, now' \in {now, now + 1}
  PROVE  LimiterInv'
<1>1. window' = window /\ admitted' = admitted
  BY DEF limVars
<1>2. WindowRespected'
  BY <1>1 DEF LimiterInv, WindowRespected, Limit
<1>3. \A k : Dropped(k)' = Dropped(k)
  BY <1>1 DEF Dropped
<1>4. ASSUME NEW k \in Limiters, NEW i \in 1..Dropped(k)
      PROVE  admitted[k][i] + Window <= now'
  <2>1. Len(window[k]) \in Nat /\ admitted[k] \in Seq(Times) /\ Len(admitted[k]) \in Nat
    BY DEF Types
  <2>2. Dropped(k) \in Nat /\ admitted[k][i] + Window <= now
    BY DEF LimiterInv, WindowIsTail
  <2>3. i \in 1..Len(admitted[k])
    BY <2>1, <2>2 DEF Dropped
  <2>4. admitted[k][i] \in Times /\ now \in Times /\ Times \subseteq Nat /\ Window \in Nat
    BY <2>1, <2>3, HttpAssumption DEF Types, Times
  <2>5. admitted[k][i] \in Nat /\ now \in Nat
    BY <2>4
  <2> QED BY <2>2, <2>4, <2>5
<1>5. WindowIsTail'
  BY <1>1, <1>3, <1>4 DEF LimiterInv, WindowIsTail
<1> QED BY <1>2, <1>5 DEF LimiterInv

-----------------------------------------------------------------------------
(* The count of active requests.                                            *)

LEMMA InsideFinite == IsFiniteSet(Inside) /\ Cardinality(Inside) \in Nat
<1>1. Inside \subseteq Requests
  BY DEF Inside
<1> QED BY <1>1, HttpAssumption, FS_Subset, FS_CardinalityType

LEMMA InsideAfter ==
  ASSUME Types, NEW r \in Requests, NEW place \in Places, Goto(r, place)
  PROVE  /\ pc' \in [Requests -> Places]
         /\ Inside' = IF place \in {"auth", "route", "work"} THEN Inside \cup {r}
                      ELSE Inside \ {r}
BY DEF Types, Goto, Inside

(* A step inside the server, or outside of it.                              *)
LEMMA CountKept ==
  ASSUME DrainInv, Inside' = Inside, UNCHANGED <<active, drain, life, forced>>
  PROVE  DrainInv'
BY DEF DrainInv, ActiveCounts, DrainKept

(* begin_request, which raises while shutting down.                         *)
LEMMA CountBegun ==
  ASSUME Types, DrainInv, NEW r \in Requests, r \notin Inside, Inside' = Inside \cup {r},
         ~ShuttingDownNow, begin_request, UNCHANGED <<life, forced>>
  PROVE  DrainInv' /\ active' \in Nat /\ drain' \in BOOLEAN
<1>1. Cardinality(Inside \cup {r}) = Cardinality(Inside) + 1
  BY InsideFinite, FS_AddElement
<1>2. Cardinality(Inside') = Cardinality(Inside) + 1
  BY <1>1
<1>3. active = Cardinality(Inside) /\ active \in Nat
  BY DEF DrainInv, ActiveCounts, Types
<1>4. active' = Cardinality(Inside') /\ active' \in Nat /\ active' # 0
  BY <1>2, <1>3 DEF begin_request
<1>5. drain' = FALSE
  BY DEF begin_request
<1>6. ActiveCounts'
  BY <1>4, <1>5 DEF ActiveCounts
<1>7. DrainKept'
  BY DEF DrainKept, ShuttingDownNow
<1> QED BY <1>4, <1>5, <1>6, <1>7 DEF DrainInv

(* end_request, of a request that had begun.                                *)
LEMMA CountEnded ==
  ASSUME Types, DrainInv, NEW r \in Inside, Inside' = Inside \ {r},
         end_request, UNCHANGED <<life, forced>>
  PROVE  DrainInv' /\ active' \in Nat /\ drain' \in BOOLEAN
<1>1. Cardinality(Inside \ {r}) = Cardinality(Inside) - 1
  BY InsideFinite, FS_RemoveElement
<1>2. Cardinality(Inside') = Cardinality(Inside) - 1
  BY <1>1
<1>3. active = Cardinality(Inside) /\ active \in Nat /\ drain = (active = 0)
  BY DEF DrainInv, ActiveCounts, Types
<1>4. active # 0
  BY <1>3, InsideFinite, FS_EmptySet
<1>5. active' = active - 1 /\ active' \in Nat
  BY <1>3, <1>4 DEF end_request
<1>6. drain' = (active' = 0)
  BY <1>3, <1>4, <1>5 DEF end_request
<1>7. ActiveCounts'
  BY <1>2, <1>3, <1>5, <1>6 DEF ActiveCounts
<1>8. DrainKept'
  BY DEF DrainInv, DrainKept
<1> QED BY <1>5, <1>6, <1>7, <1>8 DEF DrainInv

-----------------------------------------------------------------------------
(* Answers and commits.                                                     *)

(* A request moves on without an answer.                                    *)
LEMMA MovedOn ==
  ASSUME Types, AnswerInv, NEW r \in Requests, NEW place, pc[r] # "done",
         Goto(r, place), UNCHANGED <<answer, committed>>
  PROVE  AnswerInv'
BY DEF Types, Goto, AnswerInv, UndoneIsOpen, ErrorMeansRolledBack

(* A request is done, and whatever the answer, nothing is committed.        *)
LEMMA RolledBack ==
  ASSUME Types, AnswerInv, NEW r \in Requests, NEW a, pc[r] # "done",
         Goto(r, "done"), Reply(r, a), UNCHANGED committed
  PROVE  AnswerInv' /\ answer' = [q \in Requests |-> answer'[q]]
<1>1. ~committed[r]
  BY DEF AnswerInv, UndoneIsOpen
<1>2. \A q \in Requests : q # r => answer'[q] = answer[q] /\ pc'[q] = pc[q]
  BY DEF Types, Reply, Goto
<1>3. pc'[r] = "done"
  BY DEF Types, Goto
<1>4. answer' = [q \in Requests |-> answer'[q]]
  BY DEF Types, Reply
<1>5. UndoneIsOpen'
  BY <1>2, <1>3 DEF AnswerInv, UndoneIsOpen
<1>6. ErrorMeansRolledBack'
  BY <1>1, <1>2 DEF AnswerInv, ErrorMeansRolledBack
<1> QED BY <1>4, <1>5, <1>6 DEF AnswerInv

-----------------------------------------------------------------------------
(* The inductive invariant.                                                 *)
Inv == Types /\ LimiterInv /\ DrainInv /\ AnswerInv

LEMMA InitInv == Init => Inv
<1> SUFFICES ASSUME Init PROVE Inv
  OBVIOUS
<1>1. Types
  <2>1. <<>> \in Seq(Times)
    OBVIOUS
  <2>2. 0 \in Times
    BY HttpAssumption DEF Times
  <2> QED BY <2>1, <2>2 DEF Init, Types, Places, Lives
<1>2. LimiterInv
  <2>1. ASSUME NEW k \in Limiters
        PROVE  Len(window[k]) = 0 /\ Len(admitted[k]) = 0 /\ Dropped(k) = 0
    BY DEF Init, Dropped
  <2>2. WindowIsTail
    BY <2>1 DEF WindowIsTail
  <2>3. WindowRespected
    <3> SUFFICES ASSUME NEW k \in Limiters, NEW i \in 1..(Len(admitted[k]) - Limit(k))
                 PROVE  FALSE
      BY DEF WindowRespected
    <3> QED BY <2>1, LimitType
  <2> QED BY <2>2, <2>3 DEF LimiterInv
<1>3. DrainInv
  <2>1. Inside = {}
    BY DEF Init, Inside
  <2> QED BY <2>1, FS_EmptySet DEF Init, DrainInv, ActiveCounts, DrainKept
<1>4. AnswerInv
  BY DEF Init, AnswerInv, UndoneIsOpen, ErrorMeansRolledBack
<1> QED BY <1>1, <1>2, <1>3, <1>4 DEF Inv

(* The parts of the invariant after a request has left the server.          *)
LEMMA LeaveKeeps ==
  ASSUME Inv, NEW r \in Requests, NEW a, r \in Inside, Leave(r, a),
         UNCHANGED <<committed, life, forced>>
  PROVE  /\ pc' \in [Requests -> Places] /\ active' \in Nat /\ drain' \in BOOLEAN
         /\ answer' = [q \in Requests |-> answer'[q]]
         /\ DrainInv' /\ AnswerInv'
<1>1. Goto(r, "done") /\ Reply(r, a) /\ end_request
  BY DEF Leave
<1>2. pc' \in [Requests -> Places] /\ Inside' = Inside \ {r}
  BY <1>1, InsideAfter DEF Inv, Places
<1>3. pc[r] # "done"
  BY DEF Inside
<1> QED BY <1>1, <1>2, <1>3, CountEnded, RolledBack DEF Inv

(* The parts of the invariant after a request has gone from one place       *)
(* inside the server to the next.                                           *)
LEMMA AdvanceKeeps ==
  ASSUME Inv, NEW r \in Requests, r \in Inside, NEW place \in {"route", "work"}, Goto(r, place),
         UNCHANGED <<answer, committed, active, drain, life, forced>>
  PROVE  /\ pc' \in [Requests -> Places] /\ active' \in Nat /\ drain' \in BOOLEAN
         /\ answer' = [q \in Requests |-> answer'[q]]
         /\ DrainInv' /\ AnswerInv'
<1>1. pc' \in [Requests -> Places] /\ Inside' = Inside
  BY InsideAfter DEF Inv, Places
<1>2. pc[r] # "done"
  BY DEF Inside
<1>3. DrainInv'
  BY <1>1, CountKept DEF Inv
<1>4. AnswerInv'
  BY <1>2, MovedOn DEF Inv
<1> QED BY <1>1, <1>3, <1>4 DEF Inv, Types

LEMMA LimitRequestStep ==
  ASSUME Inv, NEW r \in Requests, LimitRequest(r)
  PROVE  Inv'
<1> DEFINE keys == <<<<"ip", from[r]>>, <<"endpoint", path[r]>>>>
<1>1. /\ pc[r] = "idle"
      /\ UNCHANGED <<now, path, from, committed, active, drain, life, forced>>
      /\ \/ Goto(r, "context") /\ UNCHANGED answer
         \/ Goto(r, "done") /\ Reply(r, Limited)
      /\ \/ UNCHANGED limVars
         \/ path[r] \notin Exempt /\ Charge(keys)
  BY DEF LimitRequest, lifeVars
<1>2. r \notin Inside /\ pc[r] # "done"
  BY <1>1 DEF Inside
<1>3. pc' \in [Requests -> Places] /\ Inside' = Inside
  BY <1>1, <1>2, InsideAfter DEF Inv, Places
<1>4. LimiterInv' /\ window' \in [Limiters -> Seq(Times)] /\ admitted' \in [Limiters -> Seq(Times)]
  <2>1. CASE UNCHANGED limVars
    BY <1>1, <2>1, LimitersKept DEF Inv, Types, limVars
  <2>2. CASE path[r] \notin Exempt /\ Charge(keys)
    <3>1. path[r] \in Timed /\ from[r] \in Ips
      BY <2>2 DEF Inv, Types, Timed
    <3>2. <<"ip", from[r]>> \in Limiters /\ <<"endpoint", path[r]>> \in Limiters
      BY <3>1 DEF Limiters
    <3>3. keys \in Seq(Limiters)
      BY <3>2
    <3> HIDE DEF keys
    <3> QED BY <1>1, <2>2, <3>3, ChargeKeeps DEF Inv
  <2> QED BY <1>1, <2>1, <2>2
<1>5. DrainInv'
  BY <1>1, <1>3, CountKept DEF Inv
<1>6. AnswerInv' /\ answer' = [q \in Requests |-> answer'[q]]
  <2>1. CASE Goto(r, "context") /\ UNCHANGED answer
    BY <1>1, <1>2, <2>1, MovedOn DEF Inv, Types
  <2>2. CASE Goto(r, "done") /\ Reply(r, Limited)
    BY <1>1, <1>2, <2>2, RolledBack DEF Inv
  <2> QED BY <1>1, <2>1, <2>2
<1>7. Types'
  BY <1>1, <1>3, <1>4, <1>6 DEF Inv, Types
<1> QED BY <1>4, <1>5, <1>6, <1>7 DEF Inv

LEMMA TimeoutRequestStep ==
  ASSUME Inv, NEW r \in Requests, TimeoutRequest(r)
  PROVE  Inv'
<1> DEFINE timeout == TimedOut
<1>1. /\ pc[r] # "done" /\ answer[r] = NoAnswer
      /\ answer' = [answer EXCEPT ![r] = timeout]
      /\ UNCHANGED <<now, pc, path, from, committed, active, drain, life, forced, window, admitted>>
  BY DEF TimeoutRequest, Reply, lifeVars, limVars
<1>2. /\ answer' = [q \in Requests |-> answer'[q]] /\ answer'[r] = timeout
      /\ \A q \in Requests : q # r => answer'[q] = answer[q]
  BY <1>1 DEF Inv, Types
<1>3. LimiterInv'
  BY <1>1, LimitersKept DEF Inv, limVars
<1>4. Inside' = Inside
  BY <1>1 DEF Inside
<1>5. DrainInv'
  BY <1>1, <1>4, CountKept DEF Inv
<1>6. UndoneIsOpen'
  BY <1>1, <1>2 DEF Inv, AnswerInv, UndoneIsOpen
<1>7. ErrorMeansRolledBack'
  BY <1>1, <1>2 DEF Inv, AnswerInv, ErrorMeansRolledBack
<1>8. Types'
  BY <1>1, <1>2 DEF Inv, Types
<1> QED BY <1>3, <1>5, <1>6, <1>7, <1>8 DEF Inv, AnswerInv

LEMMA EnterContextStep ==
  ASSUME Inv, NEW r \in Requests, EnterContext(r)
  PROVE  Inv'
<1>1. /\ pc[r] = "context"
      /\ UNCHANGED <<now, path, from, committed, window, admitted, life, forced>>
      /\ \/ /\ UNCHANGED <<active, drain>> /\ Goto(r, "done")
            /\ \E a : Reply(r, a)
         \/ ~ShuttingDownNow /\ Goto(r, "auth") /\ begin_request /\ UNCHANGED answer
  BY DEF EnterContext, lifeVars, limVars
<1>2. r \notin Inside /\ pc[r] # "done"
  BY <1>1 DEF Inside
<1>3. LimiterInv'
  BY <1>1, LimitersKept DEF Inv, limVars
<1>4. CASE UNCHANGED <<active, drain>> /\ Goto(r, "done") /\ \E a : Reply(r, a)
  <2>1. pc' \in [Requests -> Places] /\ Inside' = Inside
    BY <1>2, <1>4, InsideAfter DEF Inv, Places
  <2>2. DrainInv'
    BY <1>1, <1>4, <2>1, CountKept DEF Inv
  <2>3. PICK a : Reply(r, a)
    BY <1>4
  <2>4. AnswerInv' /\ answer' = [q \in Requests |-> answer'[q]]
    BY <1>1, <1>2, <1>4, <2>3, RolledBack DEF Inv
  <2>5. Types'
    BY <1>1, <1>4, <2>1, <2>4 DEF Inv, Types
  <2> QED BY <1>3, <2>2, <2>4, <2>5 DEF Inv
<1>5. CASE ~ShuttingDownNow /\ Goto(r, "auth") /\ begin_request /\ UNCHANGED answer
  <2>1. pc' \in [Requests -> Places] /\ Inside' = Inside \cup {r}
    BY <1>5, InsideAfter DEF Inv, Places
  <2>2. DrainInv' /\ active' \in Nat /\ drain' \in BOOLEAN
    BY <1>1, <1>2, <1>5, <2>1, CountBegun DEF Inv
  <2>3. AnswerInv'
    BY <1>1, <1>2, <1>5, MovedOn DEF Inv
  <2>4. Types'
    BY <1>1, <1>5, <2>1, <2>2 DEF Inv, Types
  <2> QED BY <1>3, <2>2, <2>3, <2>4 DEF Inv
<1> QED BY <1>1, <1>4, <1>5

LEMMA AuthenticateStep ==
  ASSUME Inv, NEW r \in Requests, NEW denied \in BOOLEAN, Authenticate(r, denied)
  PROVE  Inv'
<1> DEFINE keys == IF path[r] = "keyed" THEN <<Org, Tenant, ApiKey>> ELSE <<Org>>
<1>1. /\ pc[r] = "auth" /\ Charge(keys)
      /\ UNCHANGED <<now, path, from, committed, life, forced>>
      /\ \/ \E a : Leave(r, a)
         \/ Goto(r, "route") /\ UNCHANGED <<answer, active, drain>>
  BY DEF Authenticate, lifeVars
<1>2. r \in Inside
  BY <1>1 DEF Inside
<1>3. keys \in Seq(Limiters)
  <2>1. Org \in Limiters /\ Tenant \in Limiters /\ ApiKey \in Limiters
    BY DEF Limiters
  <2> QED BY <2>1
<1>4. LimiterInv' /\ window' \in [Limiters -> Seq(Times)] /\ admitted' \in [Limiters -> Seq(Times)]
  <2> HIDE DEF keys
  <2> QED BY <1>1, <1>3, ChargeKeeps DEF Inv
<1>5. /\ pc' \in [Requests -> Places] /\ active' \in Nat /\ drain' \in BOOLEAN
      /\ answer' = [q \in Requests |-> answer'[q]]
      /\ DrainInv' /\ AnswerInv'
  <2>1. CASE \E a : Leave(r, a)
    BY <1>1, <1>2, <2>1, LeaveKeeps
  <2>2. CASE Goto(r, "route") /\ UNCHANGED <<answer, active, drain>>
    BY <1>1, <1>2, <2>2, AdvanceKeeps
  <2> QED BY <1>1, <2>1, <2>2
<1>6. Types'
  BY <1>1, <1>4, <1>5 DEF Inv, Types
<1> QED BY <1>4, <1>5, <1>6 DEF Inv

(* The steps of a request inside the server that neither charge a limiter   *)
(* nor commit.                                                              *)
LEMMA InsideStep ==
  ASSUME Inv, NEW r \in Requests, r \in Inside,
         UNCHANGED <<now, path, from, committed, limVars, life, forced>>,
         \/ \E a : Leave(r, a)
         \/ \E place \in {"route", "work"} :
              Goto(r, place) /\ UNCHANGED <<answer, active, drain>>
  PROVE  Inv'
<1>1. LimiterInv' /\ window' = window /\ admitted' = admitted
  BY LimitersKept DEF Inv, limVars
<1>2. /\ pc' \in [Requests -> Places] /\ active' \in Nat /\ drain' \in BOOLEAN
      /\ answer' = [q \in Requests |-> answer'[q]]
      /\ DrainInv' /\ AnswerInv'
  <2>1. CASE \E a : Leave(r, a)
    BY <2>1, LeaveKeeps
  <2>2. CASE \E place \in {"route", "work"} : Goto(r, place) /\ UNCHANGED <<answer, active, drain>>
    BY <2>2, AdvanceKeeps
  <2> QED BY <2>1, <2>2
<1>3. Types'
  BY <1>1, <1>2 DEF Inv, Types
<1> QED BY <1>1, <1>2, <1>3 DEF Inv

(* The handler returns: the commit and the answer.                          *)
LEMMA FinishStep ==
  ASSUME Inv, NEW r \in Requests, Finish(r)
  PROVE  Inv'
<1>1. /\ pc[r] = "work"
      /\ committed' = [committed EXCEPT ![r] = path[r] \in UsesDb]
      /\ UNCHANGED <<now, path, from, window, admitted, life, forced>>
      /\ \E a : Leave(r, a) /\ (path[r] \in UsesDb => a = Success)
  BY DEF Finish, lifeVars, limVars, UsesDb
<1>2. PICK a : Leave(r, a) /\ (path[r] \in UsesDb => a = Success)
  BY <1>1
<1>3. r \in Inside /\ pc[r] # "done"
  BY <1>1 DEF Inside
<1>4. LimiterInv'
  BY <1>1, LimitersKept DEF Inv, limVars
<1>5. pc' \in [Requests -> Places] /\ Inside' = Inside \ {r}
  BY <1>2, InsideAfter DEF Inv, Places, Leave
<1>6. DrainInv' /\ active' \in Nat /\ drain' \in BOOLEAN
  BY <1>1, <1>2, <1>3, <1>5, CountEnded DEF Inv, Leave
<1>7. /\ answer' = [q \in Requests |-> answer'[q]]
      /\ answer'[r] = IF answer[r] = NoAnswer THEN a ELSE answer[r]
      /\ \A q \in Requests : q # r => answer'[q] = answer[q] /\ pc'[q] = pc[q]
      /\ pc'[r] = "done"
  BY <1>2 DEF Inv, Types, Leave, Reply, Goto
<1>8. /\ committed' \in [Requests -> BOOLEAN]
      /\ committed'[r] = (path[r] \in UsesDb)
      /\ \A q \in Requests : q # r => committed'[q] = committed[q]
  BY <1>1 DEF Inv, Types
<1>9. UndoneIsOpen'
  BY <1>7, <1>8 DEF Inv, AnswerInv, UndoneIsOpen
<1>10. ErrorMeansRolledBack'
  <2>1. answer[r] \in {NoAnswer, TimedOut}
    BY <1>3 DEF Inv, AnswerInv, UndoneIsOpen
  <2>2. committed'[r] => answer'[r] \in {Success, TimedOut}
    BY <1>2, <1>7, <1>8, <2>1
  <2> QED BY <1>7, <1>8, <2>2 DEF Inv, AnswerInv, ErrorMeansRolledBack
<1>11. Types'
  BY <1>1, <1>5, <1>6, <1>7, <1>8 DEF Inv, Types
<1> QED BY <1>4, <1>6, <1>9, <1>10, <1>11 DEF Inv, AnswerInv

(* Every step of a request.                                                 *)
LEMMA RequestStepInv ==
  ASSUME Inv, NEW r \in Requests, RequestStep(r)
  PROVE  Inv'
<1>1. CASE LimitRequest(r)
  BY <1>1, LimitRequestStep
<1>2. CASE TimeoutRequest(r)
  BY <1>2, TimeoutRequestStep
<1>3. CASE EnterContext(r)
  BY <1>3, EnterContextStep
<1>4. CASE PassThrough(r)
  <2>1. /\ r \in Inside /\ Goto(r, "route") /\ UNCHANGED <<answer, active, drain>>
        /\ UNCHANGED <<now, path, from, committed, limVars, life, forced>>
    BY <1>4 DEF PassThrough, Inside, lifeVars
  <2> QED BY <2>1, InsideStep
<1>5. CASE \E c \in AuthErrors : RefuseAuthentication(r, c)
  <2>1. /\ r \in Inside /\ \E a : Leave(r, a)
        /\ UNCHANGED <<now, path, from, committed, limVars, life, forced>>
    BY <1>5 DEF RefuseAuthentication, Inside, lifeVars
  <2> QED BY <2>1, InsideStep
<1>6. CASE \E denied \in BOOLEAN : Authenticate(r, denied)
  BY <1>6, AuthenticateStep
<1>7. CASE Route(r)
  <2>1. /\ r \in Inside
        /\ UNCHANGED <<now, path, from, committed, limVars, life, forced>>
        /\ \/ \E a : Leave(r, a)
           \/ \E place \in {"route", "work"} :
                Goto(r, place) /\ UNCHANGED <<answer, active, drain>>
    BY <1>7 DEF Route, Raise, Inside, lifeVars
  <2> QED BY <2>1, InsideStep
<1>8. CASE Finish(r)
  BY <1>8, FinishStep
<1>9. CASE \E c \in {"IntegrityError", "OperationalError"} : CommitFails(r, c)
  <2>1. /\ r \in Inside /\ \E a : Leave(r, a)
        /\ UNCHANGED <<now, path, from, committed, limVars, life, forced>>
    BY <1>9 DEF CommitFails, Raise, Inside, lifeVars
  <2> QED BY <2>1, InsideStep
<1>10. CASE \E e \in Raises(path[r]) : Fail(r, e)
  <2>1. /\ r \in Inside /\ \E a : Leave(r, a)
        /\ UNCHANGED <<now, path, from, committed, limVars, life, forced>>
    BY <1>10 DEF Fail, Raise, Inside, lifeVars
  <2> QED BY <2>1, InsideStep
<1> QED BY <1>1, <1>2, <1>3, <1>4, <1>5, <1>6, <1>7, <1>8, <1>9, <1>10 DEF RequestStep

(* The lifespan: only the end of the drain concerns the invariant.          *)
LEMMA LifespanInv ==
  ASSUME Inv, Lifespan
  PROVE  Inv'
<1>1. /\ UNCHANGED <<now, pc, path, from, answer, committed, window, admitted, active, drain>>
      /\ life' \in Lives /\ forced' \in BOOLEAN
  BY DEF Inv, Types, Lifespan, Start, initiate_shutdown, CloseDatabase, EndDrain, Lives,
         reqVars, limVars
<1>2. Types'
  BY <1>1 DEF Inv, Types
<1>3. LimiterInv'
  BY <1>1, LimitersKept DEF Inv, limVars
<1>4. AnswerInv'
  BY <1>1 DEF Inv, AnswerInv, UndoneIsOpen, ErrorMeansRolledBack
<1>5. Inside' = Inside
  BY <1>1 DEF Inside
<1>6. ActiveCounts'
  BY <1>1, <1>5 DEF Inv, DrainInv, ActiveCounts
<1>7. DrainKept'
  <2>1. CASE \E timedOut \in BOOLEAN : EndDrain(timedOut)
    <3>1. forced' = ~drain
      BY <2>1 DEF EndDrain
    <3>2. drain => Cardinality(Inside) = 0
      BY DEF Inv, DrainInv, ActiveCounts
    <3>3. drain => Inside = {}
      BY <3>2, InsideFinite, FS_EmptySet
    <3> QED BY <1>5, <3>1, <3>3 DEF DrainKept
  <2>2. CASE CloseDatabase
    BY <1>5, <2>2 DEF Inv, DrainInv, DrainKept, CloseDatabase
  <2>3. CASE initiate_shutdown \/ \E valid \in BOOLEAN : Start(valid)
    BY <2>3 DEF DrainKept, initiate_shutdown, Start
  <2> QED BY <2>1, <2>2, <2>3 DEF Lifespan
<1> QED BY <1>2, <1>3, <1>4, <1>6, <1>7 DEF Inv, DrainInv

(* A socket's step, the clock's tick and a stutter leave requests and       *)
(* lifespan alone.                                                          *)
LEMMA FrameInv ==
  ASSUME Inv, now' \in {now, now + 1}, now' \in Times,
         UNCHANGED <<reqVars, limVars, active, drain, life, forced>>
  PROVE  Inv'
<1>1. UNCHANGED <<pc, path, from, answer, committed, window, admitted>>
  BY DEF reqVars, limVars
<1>2. Types'
  BY <1>1 DEF Inv, Types
<1>3. LimiterInv'
  BY LimitersKept DEF Inv
<1>4. AnswerInv'
  BY <1>1 DEF Inv, AnswerInv, UndoneIsOpen, ErrorMeansRolledBack
<1>5. DrainInv'
  BY <1>1, CountKept DEF Inv, Inside
<1> QED BY <1>2, <1>3, <1>4, <1>5 DEF Inv

LEMMA NextInv == Inv /\ [Next]_vars => Inv'
<1> SUFFICES ASSUME Inv, [Next]_vars PROVE Inv'
  OBVIOUS
<1>0. now \in Times
  BY DEF Inv, Types
<1>1. CASE Tick
  <2>1. now + 1 \in Times
    BY <1>0, <1>1, HttpAssumption DEF Tick, Times
  <2> QED BY <1>1, <2>1, FrameInv DEF Tick, lifeVars
<1>2. CASE Lifespan
  BY <1>2, LifespanInv
<1>3. CASE \E r \in Requests : RequestStep(r)
  BY <1>3, RequestStepInv
<1>4. CASE \E s \in Sockets : SocketStep(s)
  <2>1. UNCHANGED <<now, reqVars, limVars, active, drain, life, forced>>
    BY <1>4 DEF SocketStep, Connect, Disconnect, CloseSocket, EndConnect, lifeVars
  <2> QED BY <1>0, <2>1, FrameInv
<1>5. CASE UNCHANGED vars
  BY <1>0, <1>5, FrameInv DEF vars, lifeVars
<1> QED BY <1>1, <1>2, <1>3, <1>4, <1>5 DEF Next

(* The whole invariant holds.                                               *)
THEOREM Invariance == Spec => []Inv
BY InitInv, NextInv, PTL DEF Spec

(* _SlidingWindowCounter.allow: over every stretch of the window, a key is  *)
(* admitted at most as often as its limit says, however requests interleave *)
(* and whichever of several limiters refuses.                               *)
THEOREM LimitsKept == Spec => []WindowRespected
<1>1. Inv => WindowRespected
  BY DEF Inv, LimiterInv
<1> QED BY <1>1, Invariance, PTL

(* ShutdownManager: when the drain has ended without a timeout, no request  *)
(* is inside and none gets in, whatever is still waiting outside.           *)
THEOREM DrainIsComplete == Spec => []DrainKept
<1>1. Inv => DrainKept
  BY DEF Inv, DrainInv
<1> QED BY <1>1, Invariance, PTL

(* get_db_session: a client that has been told of an error other than a     *)
(* timeout has had nothing committed.                                       *)
THEOREM ErrorsRollBack == Spec => []ErrorMeansRolledBack
<1>1. Inv => ErrorMeansRolledBack
  BY DEF Inv, AnswerInv
<1> QED BY <1>1, Invariance, PTL
=============================================================================
